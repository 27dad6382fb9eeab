---------------------------- MODULE WritePathProofs ----------------------------
(***************************************************************************)
(* First Document by itself, for every set of workers, threshold and       *)
(* strategy: the version counts each write once, and the history stays     *)
(* bounded.  Then the write path, for any number of workers, commands,     *)
(* restarts and stores under way: the versions a connection publishes      *)
(* grow, and what is stored or published with a version includes every     *)
(* write it counts.                                                        *)
(***************************************************************************)
EXTENDS WritePath, FiniteSetTheorems, TLAPS

\* A worker moves within its command.
LEMMA GoToTyped ==
    ASSUME TypeOK, NEW w \in Workers, NEW pc \in Pcs, GoTo(w, pc)
    PROVE  /\ task' \in [Workers -> Task]
           /\ task'[w].pc = pc
           /\ \A v \in Workers \ {w} : task'[v] = task[v]
  BY DEF TypeOK, GoTo, Task

\* ... or with something it has read.
LEMMA AtTyped ==
    ASSUME TypeOK, NEW w \in Workers,
           NEW pc \in Pcs, NEW op \in AllOps, NEW snap \in Nat, NEW got \in Nat,
           task' = [task EXCEPT ![w] = At(pc, op, snap, got)]
    PROVE  /\ task' \in [Workers -> Task]
           /\ task'[w].pc = pc
           /\ \A v \in Workers \ {w} : task'[v] = task[v]
  BY DEF TypeOK, At, Task

LEMMA EntryTyped ==
    ASSUME NEW op \in Ops
    PROVE  /\ op \in AllOps
           /\ Entry(op) \in {"get", "set", "inc", "snapshot"}
  BY OpsAssumption DEF AllOps, Entry

LEMMA ContentTyped == TypeOK => Content \in Nat
  BY DEF TypeOK, Content
-----------------------------------------------------------------------------
(***************************************************************************)
(* One lemma per step: its types, and how it moves what the invariant      *)
(* weighs up.                                                              *)
(***************************************************************************)
LEMMA InitTypeOK == Init => TypeOK
  BY DEF Init, TypeOK, NoTask, At, Task, Pcs, AllOps

\* A worker whose command now has an operation on its record.
LEMMA OpTyped ==
    ASSUME TypeOK, NEW w \in Workers
    PROVE  task[w].op \in AllOps \cup {"none"} /\ task[w].snap \in Nat /\ task[w].got \in Nat
  BY DEF TypeOK, Task

LEMMA StepTypeOK == TypeOK /\ [Next]_vars => TypeOK'
<1> SUFFICES ASSUME TypeOK, [Next]_vars PROVE TypeOK'
  OBVIOUS
<1> USE DEF Pcs
<1>1. ASSUME NEW w \in Workers, Begin(w) PROVE TypeOK'
  <2>1. PICK op \in Ops : task' = [task EXCEPT ![w] = At(Entry(op), op, 0, 0)]
    BY <1>1 DEF Begin
  <2>2. task' \in [Workers -> Task]
    <3>1. Entry(op) \in Pcs /\ op \in AllOps
      BY EntryTyped
    <3> QED BY <2>1, <3>1, AtTyped
  <2> QED BY <1>1, <2>2 DEF Begin, TypeOK, docvars
<1>2. ASSUME NEW w \in Workers, Get(w) PROVE TypeOK'
  <2>1. task' \in [Workers -> Task]
    BY <1>2, AtTyped, ContentTyped DEF Get, AllOps
  <2> QED BY <1>2, <2>1 DEF Get, TypeOK, docvars
<1>3. ASSUME NEW w \in Workers, SetText(w) PROVE TypeOK'
  <2>1. task' \in [Workers -> Task]
    BY <1>3, GoToTyped DEF SetText
  <2> QED BY <1>3, <2>1 DEF SetText, TypeOK
<1>4. ASSUME NEW w \in Workers, IncrementUpdateCount(w) PROVE TypeOK'
  <2>1. task' \in [Workers -> Task]
    BY <1>4, GoToTyped DEF IncrementUpdateCount
  <2> QED BY <1>4, <2>1 DEF IncrementUpdateCount, TypeOK
<1>5. ASSUME NEW w \in Workers, UpdateVersion(w) PROVE TypeOK'
  <2>1. task' \in [Workers -> Task]
    BY <1>5, GoToTyped DEF UpdateVersion
  <2> QED BY <1>5, <2>1 DEF UpdateVersion, TypeOK
<1>6. ASSUME NEW w \in Workers, SetValue(w) PROVE TypeOK'
  <2>1. task' \in [Workers -> Task]
    BY <1>6, GoToTyped DEF SetValue
  <2> QED BY <1>6, <2>1 DEF SetValue, TypeOK
<1>7. ASSUME NEW w \in Workers, Increment(w) PROVE TypeOK'
  <2>1. lww.count + 1 \in Nat
    BY DEF TypeOK
  <2>2. task' \in [Workers -> Task]
    BY <1>7, <2>1, AtTyped DEF Increment, AllOps
  <2> QED BY <1>7, <2>2 DEF Increment, TypeOK
<1>8. ASSUME NEW w \in Workers, ShouldCompact(w) PROVE TypeOK'
  <2>1. task' \in [Workers -> Task]
    BY <1>8, GoToTyped DEF ShouldCompact
  <2> QED BY <1>8, <2>1 DEF ShouldCompact, TypeOK, docvars
<1>9. ASSUME NEW w \in Workers, CompactRead(w) PROVE TypeOK'
  <2>1. task' \in [Workers -> Task]
    BY <1>9 DEF CompactRead, TypeOK, At, Task
  <2> QED BY <1>9, <2>1 DEF CompactRead, TypeOK, docvars
<1>10. ASSUME NEW w \in Workers, CompactSwap(w) PROVE TypeOK'
  <2>1. task' \in [Workers -> Task]
    BY <1>10, GoToTyped DEF CompactSwap
  <2>2. ydoc' \in [text : Nat, history : Nat]
    BY <1>10, OpTyped DEF CompactSwap
  <2> QED BY <1>10, <2>1, <2>2 DEF CompactSwap, TypeOK
<1>11. ASSUME NEW w \in Workers, CompactReset(w) PROVE TypeOK'
  <2>1. task' \in [Workers -> Task]
    BY <1>11, GoToTyped DEF CompactReset
  <2> QED BY <1>11, <2>1 DEF CompactReset, TypeOK
<1>12. ASSUME NEW w \in Workers, CompactCount(w) PROVE TypeOK'
  <2>1. task' \in [Workers -> Task]
    BY <1>12, GoToTyped DEF CompactCount
  <2> QED BY <1>12, <2>1 DEF CompactCount, TypeOK
<1>13. ASSUME NEW w \in Workers, Reply(w) PROVE TypeOK'
  <2>1. task' \in [Workers -> Task]
    BY <1>13, GoToTyped DEF Reply
  <2> QED BY <1>13, <2>1 DEF Reply, TypeOK, docvars
<1>14. CASE UNCHANGED vars
  BY <1>14 DEF vars, docvars, TypeOK
<1> QED BY <1>1, <1>2, <1>3, <1>4, <1>5, <1>6, <1>7, <1>8, <1>9, <1>10, <1>11,
           <1>12, <1>13, <1>14 DEF Next, Work
-----------------------------------------------------------------------------
(***************************************************************************)
(* The worker that moves decides what becomes of Unversioned.              *)
(***************************************************************************)
Moves(w, from, to) ==
    /\ task[w].pc \in from
    /\ task'[w].pc \in to
    /\ \A v \in Workers \ {w} : task'[v] = task[v]

Open == {"count", "version"}

LEMMA UnversionedFinite == IsFiniteSet(Unversioned) /\ Cardinality(Unversioned) \in Nat
  BY WorkersAssumption, FS_Subset, FS_CardinalityType DEF Unversioned

LEMMA Opens ==
    ASSUME NEW w \in Workers, Moves(w, Pcs \ Open, Open)
    PROVE  Cardinality(Unversioned') = Cardinality(Unversioned) + 1
<1>1. w \notin Unversioned /\ Unversioned' = Unversioned \cup {w}
  BY DEF Moves, Open, Unversioned
<1> QED BY <1>1, UnversionedFinite, FS_AddElement

LEMMA Closes ==
    ASSUME NEW w \in Workers, Moves(w, Open, Pcs \ Open)
    PROVE  Cardinality(Unversioned') = Cardinality(Unversioned) - 1
<1>1. w \in Unversioned /\ Unversioned' = Unversioned \ {w}
  BY DEF Moves, Open, Unversioned
<1> QED BY <1>1, UnversionedFinite, FS_RemoveElement

LEMMA Stays ==
    ASSUME NEW w \in Workers,
           Moves(w, Open, Open) \/ Moves(w, Pcs \ Open, Pcs \ Open)
    PROVE  Unversioned' = Unversioned
  BY DEF Moves, Open, Unversioned

LEMMA InitVersion == Init => VersionCountsWrites
<1> SUFFICES ASSUME Init PROVE VersionCountsWrites
  OBVIOUS
<1>1. Unversioned = {}
  BY DEF Init, Unversioned, NoTask, At
<1> QED BY <1>1, FS_EmptySet DEF Init, VersionCountsWrites

LEMMA StepVersion ==
    TypeOK /\ VersionCountsWrites /\ [Next]_vars => VersionCountsWrites'
<1> SUFFICES ASSUME TypeOK, VersionCountsWrites, [Next]_vars
             PROVE  VersionCountsWrites'
  OBVIOUS
<1> USE DEF Pcs, Open
<1>0. /\ Cardinality(Unversioned) \in Nat /\ version \in Nat
      /\ writes \in Nat /\ lww.count \in Nat
      /\ version + Cardinality(Unversioned) = 1 + writes + lww.count
  BY UnversionedFinite DEF TypeOK, VersionCountsWrites
<1>1. ASSUME NEW w \in Workers, SetText(w) PROVE VersionCountsWrites'
  <2>1. Moves(w, Pcs \ Open, Open)
    BY <1>1, GoToTyped DEF SetText, Moves
  <2>2. Cardinality(Unversioned') = Cardinality(Unversioned) + 1
    BY <2>1, Opens
  <2>3. writes' = writes + 1 /\ lww' = lww /\ version' = version
    BY <1>1 DEF SetText
  <2> QED BY <1>0, <2>2, <2>3 DEF VersionCountsWrites
<1>2. ASSUME NEW w \in Workers, UpdateVersion(w) PROVE VersionCountsWrites'
  <2>1. Moves(w, Open, Pcs \ Open)
    BY <1>2, GoToTyped DEF UpdateVersion, Moves
  <2>2. Cardinality(Unversioned') = Cardinality(Unversioned) - 1
    BY <2>1, Closes
  <2>3. writes' = writes /\ lww' = lww /\ version' = version + 1
    BY <1>2 DEF UpdateVersion
  <2> QED BY <1>0, <2>2, <2>3 DEF VersionCountsWrites
<1>3. ASSUME NEW w \in Workers, SetValue(w) PROVE VersionCountsWrites'
  <2>1. Moves(w, Pcs \ Open, Pcs \ Open)
    BY <1>3, GoToTyped DEF SetValue, Moves
  <2>2. /\ Unversioned' = Unversioned /\ writes' = writes + 1
        /\ lww'.count = lww.count /\ version' = version + 1
    BY <1>3, <2>1, Stays DEF SetValue, TypeOK
  <2> QED BY <1>0, <2>2 DEF VersionCountsWrites
<1>4. ASSUME NEW w \in Workers, Increment(w) PROVE VersionCountsWrites'
  <2>1. lww.count + 1 \in Nat
    BY <1>0
  <2>2. Moves(w, Pcs \ Open, Pcs \ Open)
    BY <1>4, <2>1, AtTyped DEF Increment, Moves, AllOps
  <2>3. /\ Unversioned' = Unversioned /\ writes' = writes
        /\ lww'.count = lww.count + 1 /\ version' = version + 1
    BY <1>4, <2>2, Stays DEF Increment, TypeOK
  <2> QED BY <1>0, <2>3 DEF VersionCountsWrites
<1>5. ASSUME NEW w \in Workers,
             \/ Begin(w) \/ Get(w) \/ IncrementUpdateCount(w) \/ ShouldCompact(w)
             \/ CompactRead(w) \/ CompactSwap(w) \/ CompactReset(w)
             \/ CompactCount(w) \/ Reply(w)
      PROVE  VersionCountsWrites'
  <2>1. Moves(w, Open, Open) \/ Moves(w, Pcs \ Open, Pcs \ Open)
    <3>1. CASE Begin(w)
      <4>1. PICK op \in Ops : task' = [task EXCEPT ![w] = At(Entry(op), op, 0, 0)]
        BY <3>1 DEF Begin
      <4>2. Entry(op) \in Pcs \ Open /\ op \in AllOps
        BY EntryTyped
      <4> QED BY <3>1, <4>1, <4>2, AtTyped DEF Begin, Moves
    <3>2. CASE Get(w)
      BY <3>2, AtTyped, ContentTyped DEF Get, Moves, AllOps
    <3>3. CASE IncrementUpdateCount(w)
      BY <3>3, GoToTyped DEF IncrementUpdateCount, Moves
    <3>4. CASE ShouldCompact(w)
      BY <3>4, GoToTyped DEF ShouldCompact, Moves
    <3>5. CASE CompactRead(w)
      BY <3>5 DEF CompactRead, Moves, TypeOK, At, Task
    <3>6. CASE CompactSwap(w)
      BY <3>6, GoToTyped DEF CompactSwap, Moves
    <3>7. CASE CompactReset(w)
      BY <3>7, GoToTyped DEF CompactReset, Moves
    <3>8. CASE CompactCount(w)
      BY <3>8, GoToTyped DEF CompactCount, Moves
    <3>9. CASE Reply(w)
      BY <3>9, GoToTyped DEF Reply, Moves
    <3> QED BY <1>5, <3>1, <3>2, <3>3, <3>4, <3>5, <3>6, <3>7, <3>8, <3>9
  <2>2. writes' = writes /\ lww' = lww /\ version' = version
    BY <1>5 DEF Begin, Get, IncrementUpdateCount, ShouldCompact, CompactRead,
                CompactSwap, CompactReset, CompactCount, Reply, docvars
  <2> QED BY <1>0, <2>1, <2>2, Stays DEF VersionCountsWrites
<1>6. CASE UNCHANGED vars
  BY <1>6 DEF vars, docvars, VersionCountsWrites, Unversioned
<1> QED BY <1>1, <1>2, <1>3, <1>4, <1>5, <1>6 DEF Next, Work

\* No write is counted twice or forgotten in a document's version, whatever
\* compactions and other writers do meanwhile (update_version, set, increment,
\* compact).
THEOREM VersionSafety == Spec => [](TypeOK /\ VersionCountsWrites)
<1>1. Init => TypeOK /\ VersionCountsWrites
  BY InitTypeOK, InitVersion
<1>2. TypeOK /\ VersionCountsWrites /\ [Next]_vars => (TypeOK /\ VersionCountsWrites)'
  BY StepTypeOK, StepVersion
<1> QED BY <1>1, <1>2, PTL DEF Spec
-----------------------------------------------------------------------------
(***************************************************************************)
(* The bound on the history.  Write k for Threshold - 1.  A worker that    *)
(* has swapped and not reset yet will, when it resets update_count, allow  *)
(* k more updates, and one more by every worker that is then free to write *)
(* before it looks at the count; the slack is what the updates counted now *)
(* still allow.  What the history may yet become never grows, but at a     *)
(* swap, where it starts again from at most one update.                    *)
(***************************************************************************)
Count(t, S) == Cardinality({w \in Workers : t[w].pc \in S})

FreePcs == Pcs \ {"snapshot", "swap", "reset"}

\* Those that have not counted their update, or will look at the count next.
Uncounted(t) == Count(t, {"count"})
Checking(t) == Count(t, {"count", "version", "check"})
Free(t) == Count(t, FreePcs)
Resetting(t) == Count(t, {"reset"})

Slack(t, u) ==
    IF Free(t) = 0 THEN 0
    ELSE IF u < Threshold THEN (Threshold - 1) - u + Free(t) - Uncounted(t)
    ELSE Free(t) - Checking(t)

\* Twice what the history may become: h now, r resets to come, f free.
Potential(h, x, f, r) == 2 * (h + x) + 2 * (r * ((Threshold - 1) + f)) + r * (r + 1)

HistoryInv ==
    LET W == Cardinality(Workers)
    IN  Potential(ydoc.history, Slack(task, updates), Free(task), Resetting(task))
            <= 2 + 2 * (W * (Threshold - 1)) + W * (W + 1)

LEMMA CountFinite ==
    ASSUME NEW t, NEW S
    PROVE  /\ IsFiniteSet({w \in Workers : t[w].pc \in S})
           /\ Count(t, S) \in Nat
  BY WorkersAssumption, FS_Subset, FS_CardinalityType DEF Count

\* How the numbers relate, in every state.
LEMMA Weights ==
    ASSUME NEW t
    PROVE  /\ Uncounted(t) \in Nat /\ Checking(t) \in Nat
           /\ Free(t) \in Nat /\ Resetting(t) \in Nat
           /\ Uncounted(t) <= Checking(t) /\ Checking(t) <= Free(t)
           /\ Free(t) + Resetting(t) <= Cardinality(Workers)
<1> DEFINE In(S) == {w \in Workers : t[w].pc \in S}
           C == In({"count"})
           D == In({"count", "version", "check"})
           F == In(FreePcs)
           R == In({"reset"})
<1>1. /\ IsFiniteSet(D) /\ IsFiniteSet(F) /\ IsFiniteSet(R) /\ IsFiniteSet(C)
      /\ Cardinality(C) \in Nat /\ Cardinality(D) \in Nat
      /\ Cardinality(F) \in Nat /\ Cardinality(R) \in Nat
  BY CountFinite DEF Count
<1>2. C \subseteq D /\ D \subseteq F
  BY DEF FreePcs, Pcs
<1>3. F \cap R = {} /\ F \cup R \subseteq Workers
  BY DEF FreePcs, Pcs
<1>4. /\ Uncounted(t) = Cardinality(C) /\ Checking(t) = Cardinality(D)
      /\ Free(t) = Cardinality(F) /\ Resetting(t) = Cardinality(R)
  BY DEF Uncounted, Checking, Free, Resetting, Count
<1> HIDE DEF C, D, F, R
<1>5. Cardinality(C) <= Cardinality(D) /\ Cardinality(D) <= Cardinality(F)
  BY <1>1, <1>2, FS_Subset
<1>6. Cardinality(F \cup R) = Cardinality(F) + Cardinality(R)
  <2>1. Cardinality(F \cup R) = Cardinality(F) + Cardinality(R) - Cardinality(F \cap R)
    BY <1>1, FS_Union
  <2>2. Cardinality(F \cap R) = 0
    BY <1>3, FS_EmptySet
  <2> QED BY <1>1, <2>1, <2>2
<1>7. Cardinality(F \cup R) <= Cardinality(Workers)
  BY <1>3, WorkersAssumption, FS_Subset
<1> QED BY <1>1, <1>4, <1>5, <1>6, <1>7

\* A worker moves into S, out of it, or neither.
LEMMA CountMoves ==
    ASSUME NEW w \in Workers, NEW S,
           \A v \in Workers \ {w} : task'[v] = task[v]
    PROVE  /\ task[w].pc \notin S /\ task'[w].pc \in S
                => Count(task', S) = Count(task, S) + 1
           /\ task[w].pc \in S /\ task'[w].pc \notin S
                => Count(task', S) = Count(task, S) - 1
           /\ (task[w].pc \in S <=> task'[w].pc \in S)
                => Count(task', S) = Count(task, S)
<1> DEFINE A == {v \in Workers : task[v].pc \in S}
           B == {v \in Workers : task'[v].pc \in S}
<1>1. /\ Count(task, S) = Cardinality(A) /\ Count(task', S) = Cardinality(B)
      /\ IsFiniteSet(A) /\ Cardinality(A) \in Nat
  BY CountFinite DEF Count
<1>2. task[w].pc \notin S /\ task'[w].pc \in S => w \notin A /\ B = A \cup {w}
  OBVIOUS
<1>3. task[w].pc \in S /\ task'[w].pc \notin S => w \in A /\ B = A \ {w}
  OBVIOUS
<1>4. (task[w].pc \in S <=> task'[w].pc \in S) => A = B
  OBVIOUS
<1> HIDE DEF A, B
<1> QED BY <1>1, <1>2, <1>3, <1>4, FS_AddElement, FS_RemoveElement


LEMMA SlackTyped ==
    ASSUME NEW t, NEW u \in Nat
    PROVE  /\ Slack(t, u) \in Nat
           /\ Free(t) = 0 => Slack(t, u) = 0
           /\ Slack(t, u) <= (Threshold - 1) + Free(t)
  BY Weights, ThresholdAssumption DEF Slack

LEMMA ProductUp ==
    ASSUME NEW r \in Nat, NEW a \in Nat, NEW b \in Nat, a <= b
    PROVE  r * a <= r * b /\ r * a \in Nat /\ r * b \in Nat
  OBVIOUS

LEMMA PotentialDown ==
    ASSUME NEW h \in Nat, NEW x \in Nat, NEW f \in Nat, NEW r \in Nat,
           NEW h2 \in Nat, NEW x2 \in Nat, NEW f2 \in Nat,
           h2 + x2 <= h + x, f2 <= f
    PROVE  Potential(h2, x2, f2, r) <= Potential(h, x, f, r)
<1> DEFINE a == (Threshold - 1) + f2
           b == (Threshold - 1) + f
<1>1. a \in Nat /\ b \in Nat /\ a <= b
  BY ThresholdAssumption
<1>2. /\ Potential(h2, x2, f2, r) = 2 * (h2 + x2) + 2 * (r * a) + r * (r + 1)
      /\ Potential(h, x, f, r) = 2 * (h + x) + 2 * (r * b) + r * (r + 1)
  BY DEF Potential
<1>3. r * (r + 1) \in Nat
  OBVIOUS
<1> HIDE DEF a, b
<1>4. r * a <= r * b /\ r * a \in Nat /\ r * b \in Nat
  BY <1>1, ProductUp
<1> QED BY <1>2, <1>3, <1>4

\* A reset hands what one worker may still allow over to the slack.
LEMMA PotentialReset ==
    ASSUME NEW h \in Nat, NEW x \in Nat, NEW f \in Nat, NEW r \in Nat \ {0},
           NEW x2 \in Nat, x2 <= (Threshold - 1) + f + 1
    PROVE  Potential(h, x2, f + 1, r - 1) <= Potential(h, x, f, r)
<1> DEFINE b == (Threshold - 1) + f
           p == (r - 1) * b
<1>1. b \in Nat /\ p \in Nat
  BY ThresholdAssumption
<1>2. /\ r * b = p + b
      /\ (r - 1) * (b + 1) = p + (r - 1)
      /\ r * (r + 1) = (r - 1) * ((r - 1) + 1) + 2 * r
  BY <1>1
<1>3. /\ Potential(h, x2, f + 1, r - 1)
            = 2 * (h + x2) + 2 * ((r - 1) * (b + 1)) + (r - 1) * ((r - 1) + 1)
      /\ Potential(h, x, f, r) = 2 * (h + x) + 2 * (r * b) + r * (r + 1)
      /\ x2 <= b + 1
  <2>1. (Threshold - 1) + (f + 1) = b + 1
    BY ThresholdAssumption
  <2> QED BY <2>1, ThresholdAssumption DEF Potential
<1>4. (r - 1) * ((r - 1) + 1) \in Nat
  OBVIOUS
<1> HIDE DEF b, p
<1> QED BY <1>1, <1>2, <1>3, <1>4

\* Whatever went before, a swap starts within the bound.
LEMMA PotentialSwap ==
    ASSUME NEW h \in {0, 1}, NEW x \in Nat, NEW f \in Nat, NEW r \in Nat, NEW n \in Nat,
           f = 0 => x = 0,
           x <= (Threshold - 1) + f,
           f + r <= n
    PROVE  Potential(h, x, f, r) <= 2 + 2 * (n * (Threshold - 1)) + n * (n + 1)
<1> DEFINE k == Threshold - 1
           d == (n - r) - f
<1>1. k \in Nat /\ d \in Nat /\ n = r + f + d
  BY ThresholdAssumption
<1>2. Potential(h, x, f, r) = 2 * (h + x) + 2 * (r * (k + f)) + r * (r + 1)
  BY DEF Potential
<1>3. x <= k + f
  OBVIOUS
<1> HIDE DEF k, d
<1>4. /\ r * (k + f) = r * k + r * f
      /\ n * k = r * k + f * k + d * k
      /\ n * (n + 1) = r * (r + 1) + f * f + f + d * d + d
                         + 2 * (r * f) + 2 * (r * d) + 2 * (f * d)
  BY <1>1
<1>5. /\ r * k \in Nat /\ f * k \in Nat /\ d * k \in Nat /\ r * f \in Nat
      /\ r * d \in Nat /\ f * d \in Nat /\ f * f \in Nat /\ d * d \in Nat
      /\ r * (r + 1) \in Nat
  BY <1>1
<1>6. f # 0 => f * k >= k /\ f * f >= f
  BY <1>1
<1>7. 2 * (h + x) + 2 * (r * (k + f)) + r * (r + 1) <= 2 + 2 * (n * k) + n * (n + 1)
  BY <1>1, <1>3, <1>4, <1>5, <1>6
<1> QED BY <1>2, <1>7 DEF k

LEMMA InitHistory == Init => HistoryInv
<1> SUFFICES ASSUME Init PROVE HistoryInv
  OBVIOUS
<1>1. TypeOK
  BY InitTypeOK
<1>2. updates \in Nat /\ ydoc.history = 0
  BY DEF Init
<1>3. Cardinality(Workers) \in Nat
  BY WorkersAssumption, FS_CardinalityType
<1> HIDE DEF Init
<1> QED BY <1>2, <1>3, Weights, SlackTyped, PotentialSwap DEF HistoryInv


\* Where a worker goes, in the numbers the slack is made of.
LEMMA Shifts ==
    ASSUME NEW w \in Workers,
           \A v \in Workers \ {w} : task'[v] = task[v]
    PROVE  LET Gone(S) == task[w].pc \in S /\ task'[w].pc \notin S
               Come(S) == task[w].pc \notin S /\ task'[w].pc \in S
               Same(S) == task[w].pc \in S <=> task'[w].pc \in S
           IN  /\ Gone({"count"}) => Uncounted(task') = Uncounted(task) - 1
               /\ Come({"count"}) => Uncounted(task') = Uncounted(task) + 1
               /\ Same({"count"}) => Uncounted(task') = Uncounted(task)
               /\ Gone({"count", "version", "check"}) => Checking(task') = Checking(task) - 1
               /\ Come({"count", "version", "check"}) => Checking(task') = Checking(task) + 1
               /\ Same({"count", "version", "check"}) => Checking(task') = Checking(task)
               /\ Gone(FreePcs) => Free(task') = Free(task) - 1
               /\ Come(FreePcs) => Free(task') = Free(task) + 1
               /\ Same(FreePcs) => Free(task') = Free(task)
               /\ Gone({"reset"}) => Resetting(task') = Resetting(task) - 1
               /\ Come({"reset"}) => Resetting(task') = Resetting(task) + 1
               /\ Same({"reset"}) => Resetting(task') = Resetting(task)
  BY CountMoves DEF Uncounted, Checking, Free, Resetting

\* A step that does not raise the potential keeps the bound.
LEMMA Lowered ==
    ASSUME TypeOK, TypeOK', HistoryInv,
           Resetting(task') = Resetting(task),
           Free(task') <= Free(task),
           ydoc'.history + Slack(task', updates') <= ydoc.history + Slack(task, updates)
    PROVE  HistoryInv'
<1> DEFINE h == ydoc.history
           x == Slack(task, updates)
           f == Free(task)
           r == Resetting(task)
           h2 == ydoc'.history
           x2 == Slack(task', updates')
           f2 == Free(task')
<1>1. h \in Nat /\ h2 \in Nat /\ updates \in Nat /\ updates' \in Nat
  BY DEF TypeOK
<1>2. x \in Nat /\ x2 \in Nat /\ f \in Nat /\ f2 \in Nat /\ r \in Nat
  BY <1>1, SlackTyped, Weights
<1>3. Potential(h2, x2, f2, r) <= Potential(h, x, f, r)
  <2>1. h2 + x2 <= h + x /\ f2 <= f
    OBVIOUS
  <2> HIDE DEF h, x, f, r, h2, x2, f2
  <2> QED BY <1>1, <1>2, <2>1, PotentialDown
<1>4. Potential(h, x, f, r)
          <= 2 + 2 * (Cardinality(Workers) * (Threshold - 1))
             + Cardinality(Workers) * (Cardinality(Workers) + 1)
  BY DEF HistoryInv
<1>5. Potential(h2, x2, f2, r)
          <= 2 + 2 * (Cardinality(Workers) * (Threshold - 1))
             + Cardinality(Workers) * (Cardinality(Workers) + 1)
  <2>1. Potential(h2, x2, f2, r) \in Int /\ Potential(h, x, f, r) \in Int
    <3> HIDE DEF h, x, f, r, h2, x2, f2
    <3> QED BY <1>1, <1>2, ThresholdAssumption DEF Potential
  <2>2. Cardinality(Workers) \in Nat
    BY WorkersAssumption, FS_CardinalityType
  <2>3. /\ Cardinality(Workers) * (Threshold - 1) \in Int
        /\ Cardinality(Workers) * (Cardinality(Workers) + 1) \in Int
    BY <2>2, ThresholdAssumption
  <2> HIDE DEF h, x, f, r, h2, x2, f2
  <2> QED BY <1>3, <1>4, <2>1, <2>3
<1> QED BY <1>5 DEF HistoryInv

LEMMA StepHistory == TypeOK /\ HistoryInv /\ [Next]_vars => HistoryInv'
<1> SUFFICES ASSUME TypeOK, HistoryInv, [Next]_vars PROVE HistoryInv'
  OBVIOUS
<1> USE DEF Pcs
<1>0. /\ TypeOK'
      /\ updates \in Nat /\ updates' \in Nat
      /\ ydoc.history \in Nat /\ ydoc'.history \in Nat
      /\ Threshold \in Nat \ {0}
  BY StepTypeOK, ThresholdAssumption DEF TypeOK
<1>00. /\ Uncounted(task) \in Nat /\ Checking(task) \in Nat
      /\ Free(task) \in Nat /\ Resetting(task) \in Nat
      /\ Uncounted(task) <= Checking(task) /\ Checking(task) <= Free(task)
      /\ Slack(task, updates) \in Nat
  BY <1>0, Weights, SlackTyped
<1>01. /\ Uncounted(task') \in Nat /\ Checking(task') \in Nat
      /\ Free(task') \in Nat /\ Resetting(task') \in Nat
      /\ Uncounted(task') <= Checking(task') /\ Checking(task') <= Free(task')
      /\ Slack(task', updates') \in Nat
  BY <1>0, Weights, SlackTyped
\* The steps that leave the document's history and count alone.
<1>1. ASSUME NEW w \in Workers,
             \/ Begin(w) \/ Get(w) \/ UpdateVersion(w) \/ SetValue(w) \/ Increment(w)
             \/ ShouldCompact(w) \/ CompactRead(w) \/ CompactCount(w) \/ Reply(w)
      PROVE  HistoryInv'
  <2>1. /\ ydoc' = ydoc /\ updates' = updates
        /\ \A v \in Workers \ {w} : task'[v] = task[v]
        /\ \/ task[w].pc \in {"idle", "get"} /\ task'[w].pc \in FreePcs \ (Open \cup {"check"})
           \/ task[w].pc = "idle" /\ task'[w].pc = "snapshot"
           \/ task[w].pc = "version" /\ task'[w].pc = "check"
           \/ task[w].pc \in {"set", "inc"} /\ task'[w].pc = "check"
           \/ task[w].pc = "check" /\ task'[w].pc = "snapshot"
           \/ task[w].pc = "check" /\ task'[w].pc = "done" /\ updates < Threshold
           \/ task[w].pc = "snapshot" /\ task'[w].pc = "swap"
           \/ task[w].pc = "compacted" /\ task'[w].pc = "done"
           \/ task[w].pc = "done" /\ task'[w].pc = "idle"
    <3> USE DEF FreePcs, Open
    <3>1. CASE Begin(w)
      <4>1. PICK op \in Ops : task' = [task EXCEPT ![w] = At(Entry(op), op, 0, 0)]
        BY <3>1 DEF Begin
      <4>2. Entry(op) \in {"get", "set", "inc", "snapshot"} /\ op \in AllOps
        BY EntryTyped
      <4>3. /\ task'[w].pc = Entry(op)
            /\ \A v \in Workers \ {w} : task'[v] = task[v]
        BY <4>1, <4>2, AtTyped
      <4> QED BY <3>1, <4>2, <4>3 DEF Begin, docvars
    <3>2. CASE Get(w)
      BY <3>2, AtTyped, ContentTyped DEF Get, AllOps, docvars
    <3>3. CASE UpdateVersion(w)
      BY <3>3, GoToTyped DEF UpdateVersion
    <3>4. CASE SetValue(w)
      BY <3>4, GoToTyped DEF SetValue
    <3>5. CASE Increment(w)
      <4>1. lww.count + 1 \in Nat
        BY DEF TypeOK
      <4> QED BY <3>5, <4>1, AtTyped DEF Increment, AllOps
    <3>6. CASE ShouldCompact(w)
      BY <3>6, GoToTyped DEF ShouldCompact, docvars
    <3>7. CASE CompactRead(w)
      BY <3>7 DEF CompactRead, TypeOK, At, Task, docvars
    <3>8. CASE CompactCount(w)
      BY <3>8, GoToTyped DEF CompactCount
    <3>9. CASE Reply(w)
      BY <3>9, GoToTyped DEF Reply, docvars
    <3> QED BY <1>1, <3>1, <3>2, <3>3, <3>4, <3>5, <3>6, <3>7, <3>8, <3>9
  <2>2. /\ Resetting(task') = Resetting(task)
        /\ Uncounted(task') = Uncounted(task)
        /\ \/ Free(task') = Free(task) /\ Checking(task') >= Checking(task)
           \/ Free(task') = Free(task) /\ Checking(task') = Checking(task) - 1
              /\ updates < Threshold
           \/ Free(task') = Free(task) - 1 /\ Checking(task') >= Checking(task) - 1
    BY <1>00, <2>1, Shifts DEF FreePcs, Open
  <2>3. Slack(task', updates) <= Slack(task, updates)
    BY <1>0, <1>00, <1>01, <2>2 DEF Slack
  <2>4. /\ Free(task') <= Free(task)
        /\ ydoc'.history + Slack(task', updates') <= ydoc.history + Slack(task, updates)
    BY <1>0, <1>00, <1>01, <2>1, <2>2, <2>3
  <2> QED BY <1>0, <2>2, <2>4, Lowered
<1>2. ASSUME NEW w \in Workers, SetText(w) PROVE HistoryInv'
  <2>1. /\ ydoc'.history = ydoc.history + 1 /\ updates' = updates
        /\ task[w].pc = "set" /\ task'[w].pc = "count"
        /\ \A v \in Workers \ {w} : task'[v] = task[v]
    BY <1>2, GoToTyped DEF SetText
  <2>2. /\ Resetting(task') = Resetting(task) /\ Free(task') = Free(task)
        /\ Uncounted(task') = Uncounted(task) + 1
        /\ Checking(task') = Checking(task) + 1
    BY <2>1, Shifts DEF FreePcs
  <2>3. Slack(task', updates) = Slack(task, updates) - 1
    BY <1>0, <1>00, <1>01, <2>2 DEF Slack
  <2>4. /\ Free(task') <= Free(task)
        /\ ydoc'.history + Slack(task', updates') <= ydoc.history + Slack(task, updates)
    BY <1>0, <1>00, <1>01, <2>1, <2>2, <2>3
  <2> QED BY <1>0, <2>2, <2>4, Lowered
<1>3. ASSUME NEW w \in Workers, IncrementUpdateCount(w) PROVE HistoryInv'
  <2>1. /\ ydoc' = ydoc /\ updates' = updates + 1
        /\ task[w].pc = "count" /\ task'[w].pc = "version"
        /\ \A v \in Workers \ {w} : task'[v] = task[v]
    BY <1>3, GoToTyped DEF IncrementUpdateCount
  <2>2. /\ Resetting(task') = Resetting(task) /\ Free(task') = Free(task)
        /\ Uncounted(task') = Uncounted(task) - 1
        /\ Checking(task') = Checking(task)
    BY <2>1, Shifts DEF FreePcs
  <2>3. Slack(task', updates + 1) <= Slack(task, updates)
    BY <1>0, <1>00, <1>01, <2>2 DEF Slack
  <2>4. /\ Free(task') <= Free(task)
        /\ ydoc'.history + Slack(task', updates') <= ydoc.history + Slack(task, updates)
    BY <1>0, <1>00, <1>01, <2>1, <2>2, <2>3
  <2> QED BY <1>0, <2>2, <2>4, Lowered
<1>4. ASSUME NEW w \in Workers, CompactSwap(w) PROVE HistoryInv'
  <2> DEFINE h2 == ydoc'.history
             x2 == Slack(task', updates')
             f2 == Free(task')
             r2 == Resetting(task')
             n == Cardinality(Workers)
  <2>1. h2 \in {0, 1}
    BY <1>4 DEF CompactSwap
  <2>2. /\ x2 \in Nat /\ f2 \in Nat /\ r2 \in Nat /\ n \in Nat
        /\ f2 = 0 => x2 = 0
        /\ x2 <= (Threshold - 1) + f2
        /\ f2 + r2 <= n
    BY <1>0, Weights, SlackTyped, WorkersAssumption, FS_CardinalityType
  <2>3. Potential(h2, x2, f2, r2) <= 2 + 2 * (n * (Threshold - 1)) + n * (n + 1)
    <3> HIDE DEF h2, x2, f2, r2, n
    <3> QED BY <2>1, <2>2, PotentialSwap
  <2> QED BY <2>3 DEF HistoryInv
<1>5. ASSUME NEW w \in Workers, CompactReset(w) PROVE HistoryInv'
  <2> DEFINE h == ydoc.history
             x == Slack(task, updates)
             f == Free(task)
             r == Resetting(task)
             x2 == Slack(task', updates')
             n == Cardinality(Workers)
  <2>1. /\ ydoc' = ydoc /\ updates' = 0
        /\ task[w].pc = "reset" /\ task'[w].pc = "compacted"
        /\ \A v \in Workers \ {w} : task'[v] = task[v]
    BY <1>5, GoToTyped DEF CompactReset
  <2>2. /\ Resetting(task') = r - 1 /\ Free(task') = f + 1
    BY <2>1, Shifts DEF FreePcs
  <2>3. /\ h \in Nat /\ x \in Nat /\ f \in Nat /\ r \in Nat \ {0} /\ x2 \in Nat
        /\ x2 <= (Threshold - 1) + f + 1
    <3>1. x2 \in Nat /\ x2 <= (Threshold - 1) + Free(task')
      BY <1>0, SlackTyped
    <3>2. r # 0
      BY <1>00, <1>01, <2>2
    <3> QED BY <1>0, <1>00, <2>2, <3>1, <3>2
  <2>4. Potential(h, x2, f + 1, r - 1) <= Potential(h, x, f, r)
    <3> HIDE DEF h, x, f, r, x2
    <3> QED BY <2>3, PotentialReset
  <2>5. Potential(h, x, f, r) <= 2 + 2 * (n * (Threshold - 1)) + n * (n + 1)
    BY DEF HistoryInv
  <2>6. Potential(h, x2, f + 1, r - 1) <= 2 + 2 * (n * (Threshold - 1)) + n * (n + 1)
    <3>1. n \in Nat /\ n * (Threshold - 1) \in Int /\ n * (n + 1) \in Int
      BY <1>0, WorkersAssumption, FS_CardinalityType
    <3>2. Potential(h, x2, f + 1, r - 1) \in Int /\ Potential(h, x, f, r) \in Int
      <4> HIDE DEF h, x, f, r, x2
      <4> QED BY <1>0, <2>3 DEF Potential
    <3> HIDE DEF h, x, f, r, x2, n
    <3> QED BY <2>4, <2>5, <3>1, <3>2
  <2> QED BY <2>1, <2>2, <2>6 DEF HistoryInv
<1>6. CASE UNCHANGED vars
  <2>1. ydoc' = ydoc /\ updates' = updates /\ task' = task
    BY <1>6 DEF vars, docvars
  <2> QED BY <1>0, <1>00, <2>1, Lowered
<1> QED BY <1>1, <1>2, <1>3, <1>4, <1>5, <1>6 DEF Next, Work

LEMMA HistoryBound == HistoryInv /\ TypeOK => HistoryBounded
<1> SUFFICES ASSUME HistoryInv, TypeOK PROVE HistoryBounded
  OBVIOUS
<1> DEFINE h == ydoc.history
           x == Slack(task, updates)
           f == Free(task)
           r == Resetting(task)
           n == Cardinality(Workers)
           k == n * (Threshold - 1)
           m == n * (n + 1)
           p == r * ((Threshold - 1) + f)
           q == r * (r + 1)
<1>1. /\ h \in Nat /\ x \in Nat /\ f \in Nat /\ r \in Nat /\ n \in Nat
      /\ Threshold - 1 \in Nat
  BY Weights, SlackTyped, WorkersAssumption, ThresholdAssumption, FS_CardinalityType
     DEF TypeOK
<1>2. k \in Nat /\ m \in Nat /\ p \in Nat /\ q \in Nat
  <2> HIDE DEF f, r, n
  <2> QED BY <1>1
<1>3. 2 * (h + x) + 2 * p + q <= 2 + 2 * k + m
  BY DEF HistoryInv, Potential
<1>4. h <= 1 + k + m \div 2
  <2> HIDE DEF h, x, k, m, p, q
  <2> QED BY <1>1, <1>2, <1>3
<1> QED BY <1>4 DEF HistoryBounded

\* Auto-compaction keeps the updates a text document remembers within a bound
\* that only the threshold and the number of connections decide, however
\* writes and compactions race (maybe_auto_compact, should_compact, compact,
\* increment_update_count).
THEOREM HistorySafety == Spec => []HistoryBounded
<1>1. Init => TypeOK /\ HistoryInv
  BY InitTypeOK, InitHistory
<1>2. TypeOK /\ HistoryInv /\ [Next]_vars => (TypeOK /\ HistoryInv)'
  BY StepTypeOK, StepHistory
<1>3. TypeOK /\ HistoryInv => HistoryBounded
  BY HistoryBound
<1> QED BY <1>1, <1>2, <1>3, PTL DEF Spec
-----------------------------------------------------------------------------
Ats == {"handler", "persist", "publish", "send", "reply"}
Delta == [version : Nat, text : Nat, by : Workers, life : Nat]

\* What a worker does after "done" it does for a command that changed the
\* document, and what it has read is no newer than the document.
PathInv ==
    /\ TypeOK /\ VersionCountsWrites
    /\ at \in [Workers -> Ats] /\ seen \in [Workers -> Nat]
    /\ deltas \in Seq(Delta) /\ restarts \in Nat
    /\ \A w \in Workers :
          /\ seen[w] <= version
          /\ at[w] # "handler" => Changed(w)
          /\ at[w] \in {"publish", "send"} => task[w].op = "SET"

\* A SET that has bumped the version and not read it yet to publish it.
Bumped(w) ==
    /\ task[w].op = "SET" /\ at[w] \in {"handler", "persist", "publish"}
    /\ task[w].pc \in {"check", "snapshot", "swap", "reset", "compacted", "done"}

\* What a worker has published is older than what it is about to publish.
DeltasInv ==
    /\ \A i \in DOMAIN deltas :
          /\ deltas[i].life <= restarts
          /\ deltas[i].life = restarts =>
                /\ deltas[i].version <= version
                /\ Bumped(deltas[i].by) => deltas[i].version < version
                /\ at[deltas[i].by] = "send" => deltas[i].version < seen[deltas[i].by]
    /\ SessionDeltasIncrease

\* No text is lost, and every image of the document covers its version.
CoverInv ==
    /\ strategy = "crdt-text" /\ ydoc.text = writes /\ lww.count = 0
    /\ \A w \in Workers : task[w].pc # "inc"
    /\ \A s \in spawned : s.version \in Nat /\ s.text \in Nat /\ s.text >= s.version - 1
    /\ RowCoversItsVersion /\ DeltasCoverTheirVersion
-----------------------------------------------------------------------------
\* A worker that only moves keeps what it has read and what it does.
LEMMA GoToOp ==
    ASSUME TypeOK, NEW w \in Workers, NEW pc \in Pcs, GoTo(w, pc)
    PROVE  task'[w].op = task[w].op
  BY DEF TypeOK, GoTo, Task

LEMMA AtOp ==
    ASSUME TypeOK, NEW w \in Workers,
           NEW pc \in Pcs, NEW op \in AllOps, NEW snap \in Nat, NEW got \in Nat,
           task' = [task EXCEPT ![w] = At(pc, op, snap, got)]
    PROVE  task'[w].op = op
  BY DEF TypeOK, At

After == {"check", "snapshot", "swap", "reset", "compacted", "done"}

\* A step of a command: one worker moves, not from "done", and a SET comes past
\* the bump of the version only by bumping it.
LEMMA WorkIs ==
    ASSUME TypeOK, NEW w \in Workers, Work(w)
    PROVE  /\ task[w].pc # "done" /\ \A v \in Workers \ {w} : task'[v] = task[v]
           /\ version' \in {version, version + 1}
           /\ task'[w].op = "SET" /\ task'[w].pc \in After =>
                 \/ task[w].op = "SET" /\ task[w].pc \in After
                 \/ version' = version + 1
<1> USE DEF Pcs, After
<1>1. CASE Begin(w)
  <2>1. PICK op \in Ops : task' = [task EXCEPT ![w] = At(Entry(op), op, 0, 0)]
    BY <1>1 DEF Begin
  <2>2. Entry(op) \in Pcs /\ op \in AllOps /\ (op = "SET" => Entry(op) = "set")
    BY EntryTyped DEF Entry
  <2>3. /\ task'[w].pc = Entry(op) /\ task'[w].op = op
        /\ \A v \in Workers \ {w} : task'[v] = task[v]
    BY <2>1, <2>2, AtTyped, AtOp
  <2> QED BY <1>1, <2>2, <2>3 DEF Begin, docvars
<1>2. CASE Get(w)
  <2>1. task'[w].op = "GET" /\ \A v \in Workers \ {w} : task'[v] = task[v]
    BY <1>2, AtTyped, AtOp, ContentTyped DEF Get, AllOps
  <2> QED BY <1>2, <2>1 DEF Get, docvars
<1>3. CASE SetText(w)
  BY <1>3, GoToTyped DEF SetText
<1>4. CASE IncrementUpdateCount(w)
  BY <1>4, GoToTyped DEF IncrementUpdateCount
<1>5. CASE UpdateVersion(w)
  BY <1>5, GoToTyped DEF UpdateVersion
<1>6. CASE SetValue(w)
  BY <1>6, GoToTyped DEF SetValue
<1>7. CASE Increment(w)
  <2>1. lww.count + 1 \in Nat
    BY DEF TypeOK
  <2>2. \A v \in Workers \ {w} : task'[v] = task[v]
    BY <1>7, <2>1, AtTyped DEF Increment, AllOps
  <2> QED BY <1>7, <2>2 DEF Increment
<1>8. CASE ShouldCompact(w)
  BY <1>8, GoToTyped, GoToOp DEF ShouldCompact, docvars
<1>9. CASE CompactRead(w)
  <2>1. task'[w].op = task[w].op /\ \A v \in Workers \ {w} : task'[v] = task[v]
    BY <1>9 DEF CompactRead, TypeOK, At
  <2> QED BY <1>9, <2>1 DEF CompactRead, docvars
<1>10. CASE CompactSwap(w)
  BY <1>10, GoToTyped, GoToOp DEF CompactSwap
<1>11. CASE CompactReset(w)
  BY <1>11, GoToTyped, GoToOp DEF CompactReset
<1>12. CASE CompactCount(w)
  BY <1>12, GoToTyped, GoToOp DEF CompactCount
<1> QED BY <1>1, <1>2, <1>3, <1>4, <1>5, <1>6, <1>7, <1>8, <1>9, <1>10, <1>11, <1>12 DEF Work

\* A restart is a new document.
LEMMA RestartIs ==
    ASSUME TypeOK, Restart
    PROVE  /\ TypeOK' /\ VersionCountsWrites' /\ version' = 1
           /\ \A w \in Workers : task'[w].pc = "idle" /\ task'[w].op = "none"
<1>1. task' = [w \in Workers |-> NoTask] /\ NoTask \in Task
  BY DEF Restart, NoTask, At, Task, Pcs
<1>2. \A w \in Workers : task'[w].pc = "idle" /\ task'[w].op = "none"
  BY <1>1 DEF NoTask, At
<1>3. TypeOK'
  BY <1>1 DEF Restart, TypeOK
<1>4. Unversioned' = {}
  BY <1>2 DEF Unversioned
<1> QED BY <1>2, <1>3, <1>4, FS_EmptySet DEF Restart, VersionCountsWrites

LEMMA PInitPath == PInit => PathInv /\ DeltasInv
<1> SUFFICES ASSUME PInit PROVE PathInv /\ DeltasInv
  OBVIOUS
<1>1. TypeOK /\ VersionCountsWrites
  BY InitTypeOK, InitVersion DEF PInit
<1>2. PathInv
  BY <1>1 DEF PInit, Init, PathInv, Ats
<1>3. DeltasInv
  BY DEF PInit, DeltasInv, SessionDeltasIncrease
<1> QED BY <1>2, <1>3

\* Steps that do not touch the document.
LEMMA StepPath == PathInv /\ [PNext]_allvars => PathInv'
<1> SUFFICES ASSUME PathInv, [PNext]_allvars PROVE PathInv'
  OBVIOUS
<1> USE DEF PathInv
<1>0. TypeOK /\ version \in Nat
  BY DEF TypeOK
<1>1. ASSUME [Next]_vars PROVE TypeOK' /\ VersionCountsWrites'
  BY <1>1, StepTypeOK, StepVersion
<1>2. ASSUME UNCHANGED vars
      PROVE  /\ TypeOK' /\ VersionCountsWrites' /\ version' = version
             /\ \A w \in Workers : task'[w] = task[w] /\ (Changed(w)' <=> Changed(w))
  <2>1. TypeOK' /\ VersionCountsWrites'
    BY <1>1, <1>2
  <2> QED BY <1>2, <2>1 DEF vars, docvars, Changed
<1>3. ASSUME NEW w \in Workers, Work(w), UNCHANGED pvars PROVE PathInv'
  <2>1. TypeOK' /\ VersionCountsWrites'
    BY <1>1, <1>3 DEF Next
  <2>2. /\ task[w].pc # "done" /\ \A v \in Workers \ {w} : task'[v] = task[v]
        /\ version' \in {version, version + 1}
    BY <1>3, WorkIs
  <2>3. at[w] = "handler"
    BY <2>2 DEF Changed
  <2>4. ASSUME NEW v \in Workers
        PROVE  /\ seen[v] <= version'
               /\ at[v] # "handler" => Changed(v)'
               /\ at[v] \in {"publish", "send"} => task'[v].op = "SET"
    <3>1. seen[v] \in Nat /\ seen[v] <= version
      OBVIOUS
    <3>2. seen[v] <= version'
      BY <1>0, <2>2, <3>1
    <3> QED BY <2>2, <2>3, <3>2 DEF Changed
  <2> QED BY <1>3, <2>1, <2>4 DEF pvars
<1>4. ASSUME NEW w \in Workers, PersistMeta(w) PROVE PathInv'
  <2>1. UNCHANGED vars
    BY <1>4 DEF PersistMeta
  <2> QED BY <1>0, <1>2, <1>4, <2>1 DEF PersistMeta, Ats
<1>5. ASSUME NEW w \in Workers, PersistSpawn(w) PROVE PathInv'
  <2>1. UNCHANGED vars
    BY <1>5 DEF PersistSpawn
  <2> QED BY <1>0, <1>2, <1>5, <2>1 DEF PersistSpawn, Ats
<1>6. ASSUME NEW w \in Workers, PublishVersion(w) PROVE PathInv'
  <2>1. UNCHANGED vars
    BY <1>6 DEF PublishVersion
  <2> QED BY <1>0, <1>2, <1>6, <2>1 DEF PublishVersion, Ats
<1>7. ASSUME NEW w \in Workers, PublishSend(w) PROVE PathInv'
  <2>1. UNCHANGED vars
    BY <1>7 DEF PublishSend
  <2>2. deltas' \in Seq(Delta)
    <3>1. ydoc.text \in Nat
      BY <1>0 DEF TypeOK
    <3>2. [version |-> seen[w], text |-> ydoc.text, by |-> w, life |-> restarts] \in Delta
      BY <3>1 DEF Delta
    <3> QED BY <1>7, <3>2 DEF PublishSend
  <2> QED BY <1>0, <1>2, <1>7, <2>1, <2>2 DEF PublishSend, Ats
<1>8. ASSUME NEW w \in Workers, Answer(w) PROVE PathInv'
  <2>1. TypeOK' /\ VersionCountsWrites'
    BY <1>1, <1>8 DEF Next, Answer
  <2>2. version' = version /\ \A v \in Workers \ {w} : task'[v] = task[v]
    BY <1>0, <1>8, GoToTyped DEF Answer, Reply, docvars, Pcs
  <2>3. at' = [at EXCEPT ![w] = "handler"] /\ seen' = [seen EXCEPT ![w] = 0]
        /\ UNCHANGED <<deltas, restarts>>
    BY <1>8 DEF Answer
  <2> QED BY <1>0, <2>1, <2>2, <2>3 DEF Changed, Ats
<1>9. ASSUME NEW s \in spawned, Store(s) PROVE PathInv'
  BY <1>2, <1>9 DEF Store
<1>10. CASE Restart
  <2>1. TypeOK' /\ VersionCountsWrites' /\ version' = 1
    BY <1>0, <1>10, RestartIs
  <2> QED BY <1>10, <2>1 DEF Restart, Ats
<1>11. CASE UNCHANGED allvars
  BY <1>2, <1>11 DEF allvars, pvars
<1> QED BY <1>3, <1>4, <1>5, <1>6, <1>7, <1>8, <1>9, <1>10, <1>11 DEF PNext

\* Nothing is published, the version does not fall, and nobody is nearer to
\* publishing but by a bump of the version.
LEMMA DeltasStay ==
    ASSUME PathInv, DeltasInv, UNCHANGED <<deltas, restarts>>, version' \in {version, version + 1},
           \A w \in Workers :
              /\ Bumped(w)' => Bumped(w) \/ version' = version + 1
              /\ at'[w] = "send" => \/ at[w] = "send" /\ seen'[w] = seen[w]
                                    \/ Bumped(w) /\ seen'[w] = version
    PROVE  DeltasInv'
<1>1. version \in Nat /\ deltas \in Seq(Delta)
  BY DEF PathInv, TypeOK
<1>2. ASSUME NEW i \in DOMAIN deltas
      PROVE  /\ deltas[i].life <= restarts
             /\ deltas[i].life = restarts =>
                   /\ deltas[i].version <= version'
                   /\ Bumped(deltas[i].by)' => deltas[i].version < version'
                   /\ at'[deltas[i].by] = "send" => deltas[i].version < seen'[deltas[i].by]
  <2>1. deltas[i].by \in Workers /\ deltas[i].version \in Nat
    <3>1. deltas[i] \in Delta
      BY <1>1
    <3> QED BY <3>1 DEF Delta
  <2>2. /\ deltas[i].life <= restarts
        /\ deltas[i].life = restarts =>
              /\ deltas[i].version <= version
              /\ Bumped(deltas[i].by) => deltas[i].version < version
              /\ at[deltas[i].by] = "send" => deltas[i].version < seen[deltas[i].by]
    BY DEF DeltasInv
  <2> SUFFICES ASSUME deltas[i].life = restarts
               PROVE  /\ deltas[i].version <= version'
                      /\ Bumped(deltas[i].by)' => deltas[i].version < version'
                      /\ at'[deltas[i].by] = "send" => deltas[i].version < seen'[deltas[i].by]
    BY <2>2
  <2>3. deltas[i].version <= version'
    BY <1>1, <2>1, <2>2
  <2>4. Bumped(deltas[i].by)' => deltas[i].version < version'
    <3>1. Bumped(deltas[i].by)' => Bumped(deltas[i].by) \/ version' = version + 1
      BY <2>1 DEF Bumped
    <3> QED BY <1>1, <2>1, <2>2, <3>1
  <2>5. at'[deltas[i].by] = "send" => deltas[i].version < seen'[deltas[i].by]
    BY <2>1, <2>2
  <2> QED BY <2>3, <2>4, <2>5
<1> QED BY <1>2 DEF DeltasInv, SessionDeltasIncrease, Bumped

LEMMA StepDeltas == PathInv /\ DeltasInv /\ [PNext]_allvars => DeltasInv'
<1> SUFFICES ASSUME PathInv, DeltasInv, [PNext]_allvars PROVE DeltasInv'
  OBVIOUS
<1>0. /\ TypeOK /\ version \in Nat /\ deltas \in Seq(Delta) /\ restarts \in Nat
      /\ at \in [Workers -> Ats] /\ seen \in [Workers -> Nat]
  BY DEF PathInv, TypeOK
<1>1. ASSUME UNCHANGED vars
      PROVE  version' = version /\ \A w \in Workers : task'[w] = task[w]
  BY <1>1 DEF vars, docvars
<1>2. ASSUME NEW w \in Workers, Work(w), UNCHANGED pvars PROVE DeltasInv'
  <2>1. /\ \A v \in Workers \ {w} : task'[v] = task[v]
        /\ version' \in {version, version + 1}
        /\ task'[w].op = "SET" /\ task'[w].pc \in After =>
              (task[w].op = "SET" /\ task[w].pc \in After) \/ version' = version + 1
    BY <1>0, <1>2, WorkIs
  <2>2. UNCHANGED <<at, seen, deltas, restarts>>
    BY <1>2 DEF pvars
  <2>3. ASSUME NEW v \in Workers PROVE Bumped(v)' => Bumped(v) \/ version' = version + 1
    BY <2>1, <2>2 DEF Bumped, After
  <2> QED BY <2>1, <2>2, <2>3, DeltasStay
<1>3. ASSUME NEW w \in Workers, PersistMeta(w) PROVE DeltasInv'
  <2>1. /\ UNCHANGED vars /\ UNCHANGED <<deltas, restarts>> /\ at[w] = "handler"
        /\ seen' = [seen EXCEPT ![w] = version] /\ at' = [at EXCEPT ![w] = "persist"]
    BY <1>3 DEF PersistMeta
  <2>2. \A v \in Workers : Bumped(v)' => Bumped(v)
    BY <1>0, <1>1, <2>1 DEF Bumped
  <2>3. \A v \in Workers : at'[v] = "send" => at[v] = "send" /\ seen'[v] = seen[v]
    BY <1>0, <2>1
  <2> QED BY <1>1, <2>1, <2>2, <2>3, DeltasStay
<1>4. ASSUME NEW w \in Workers, PersistSpawn(w) PROVE DeltasInv'
  <2>1. /\ UNCHANGED vars /\ UNCHANGED <<seen, deltas, restarts>> /\ at[w] = "persist"
        /\ at' = [at EXCEPT ![w] = IF task[w].op = "SET" THEN "publish" ELSE "reply"]
    BY <1>4 DEF PersistSpawn
  <2>2. \A v \in Workers : Bumped(v)' => Bumped(v)
    BY <1>0, <1>1, <2>1 DEF Bumped
  <2>3. \A v \in Workers : at'[v] = "send" => at[v] = "send" /\ seen'[v] = seen[v]
    BY <1>0, <2>1
  <2> QED BY <1>1, <2>1, <2>2, <2>3, DeltasStay
<1>5. ASSUME NEW w \in Workers, PublishVersion(w) PROVE DeltasInv'
  <2>1. /\ UNCHANGED vars /\ UNCHANGED <<deltas, restarts>> /\ at[w] = "publish"
        /\ seen' = [seen EXCEPT ![w] = version] /\ at' = [at EXCEPT ![w] = "send"]
    BY <1>5 DEF PublishVersion
  <2>2. Bumped(w)
    BY <2>1 DEF Bumped, PathInv, Changed
  <2>3. \A v \in Workers : Bumped(v)' => Bumped(v)
    BY <1>0, <1>1, <2>1 DEF Bumped
  <2>4. \A v \in Workers : at'[v] = "send" => \/ at[v] = "send" /\ seen'[v] = seen[v]
                                              \/ Bumped(v) /\ seen'[v] = version
    BY <1>0, <2>1, <2>2
  <2> QED BY <1>1, <2>1, <2>3, <2>4, DeltasStay
<1>6. ASSUME NEW w \in Workers, PublishSend(w) PROVE DeltasInv'
  <2> DEFINE d == [version |-> seen[w], text |-> ydoc.text, by |-> w, life |-> restarts]
             L == Len(deltas)
  <2>1. /\ UNCHANGED vars /\ UNCHANGED <<seen, restarts>> /\ at[w] = "send"
        /\ deltas' = Append(deltas, d) /\ at' = [at EXCEPT ![w] = "reply"]
    BY <1>6 DEF PublishSend
  <2>2. d.version = seen[w] /\ d.by = w /\ d.life = restarts
    OBVIOUS
  <2> HIDE DEF d
  <2>3. /\ L \in Nat /\ DOMAIN deltas = 1..L /\ DOMAIN deltas' = 1..(L + 1)
        /\ \A i \in 1..L : deltas'[i] = deltas[i]
        /\ deltas'[L + 1] = d
    BY <1>0, <2>1
  <2> HIDE DEF L
  <2>4. at'[w] = "reply" /\ \A v \in Workers \ {w} : at'[v] = at[v]
    BY <1>0, <2>1
  <2>5. /\ \A v \in Workers : (Bumped(v)' => Bumped(v)) /\ (at'[v] = "send" => at[v] = "send")
        /\ ~Bumped(w)' /\ at'[w] # "send"
    BY <1>1, <2>1, <2>4 DEF Bumped
  <2>6. \A i \in 1..L : deltas[i].by \in Workers /\ deltas[i].version \in Nat
    <3>1. \A i \in 1..L : deltas[i] \in Delta
      BY <1>0, <2>3
    <3> QED BY <3>1 DEF Delta
  <2>7. seen[w] <= version /\ seen[w] \in Nat
    BY DEF PathInv
  <2>8. ASSUME NEW i \in DOMAIN deltas'
        PROVE  /\ deltas'[i].life <= restarts
               /\ deltas'[i].life = restarts =>
                     /\ deltas'[i].version <= version
                     /\ Bumped(deltas[i].by)' => deltas'[i].version < version
                     /\ at'[deltas'[i].by] = "send" => deltas'[i].version < seen[deltas'[i].by]
    <3>1. CASE i = L + 1
      <4>1. ~Bumped(deltas[i].by)' /\ at'[deltas'[i].by] # "send"
        BY <2>2, <2>3, <2>5, <3>1 DEF Bumped
      <4> QED BY <1>0, <2>2, <2>3, <2>7, <3>1, <4>1
    <3>2. CASE i \in 1..L
      <4>1. deltas'[i] = deltas[i] /\ deltas[i].by \in Workers /\ i \in DOMAIN deltas
        BY <2>3, <2>6, <3>2
      <4>2. Bumped(deltas[i].by)' => Bumped(deltas[i].by)
        BY <2>5, <4>1 DEF Bumped
      <4>3. /\ deltas[i].life <= restarts
            /\ deltas[i].life = restarts =>
                  /\ deltas[i].version <= version
                  /\ Bumped(deltas[i].by) => deltas[i].version < version
                  /\ at[deltas[i].by] = "send" => deltas[i].version < seen[deltas[i].by]
        BY <4>1 DEF DeltasInv
      <4> QED BY <2>5, <4>1, <4>2, <4>3
    <3> QED BY <2>3, <3>1, <3>2
  <2>9. SessionDeltasIncrease'
    <3>1. ASSUME NEW i \in DOMAIN deltas', NEW j \in DOMAIN deltas', i < j,
                 deltas'[i].by = deltas'[j].by, deltas'[i].life = deltas'[j].life
          PROVE  deltas'[i].version < deltas'[j].version
      <4>1. i \in 1..L /\ deltas'[i] = deltas[i]
        BY <2>3, <3>1
      <4>2. CASE j \in 1..L
        BY <2>3, <3>1, <4>1, <4>2 DEF DeltasInv, SessionDeltasIncrease
      <4>3. CASE j = L + 1
        <5>1. deltas[i].by = w /\ deltas[i].life = restarts /\ i \in DOMAIN deltas
          BY <2>2, <2>3, <3>1, <4>1, <4>3
        <5>2. deltas[i].version < seen[w]
          BY <2>1, <5>1 DEF DeltasInv
        <5> QED BY <2>2, <2>3, <4>1, <4>3, <5>2
      <4> QED BY <2>3, <4>2, <4>3
    <3> QED BY <3>1 DEF SessionDeltasIncrease
  <2> QED BY <1>1, <2>1, <2>8, <2>9 DEF DeltasInv, Bumped
<1>7. ASSUME NEW w \in Workers, Answer(w) PROVE DeltasInv'
  <2>1. /\ at' = [at EXCEPT ![w] = "handler"] /\ seen' = [seen EXCEPT ![w] = 0]
        /\ UNCHANGED <<deltas, restarts>> /\ Reply(w)
    BY <1>7 DEF Answer
  <2>2. version' = version /\ task'[w].pc = "idle" /\ \A v \in Workers \ {w} : task'[v] = task[v]
    BY <1>0, <2>1, GoToTyped DEF Reply, docvars, Pcs
  <2>3. \A v \in Workers : Bumped(v)' => Bumped(v)
    BY <1>0, <2>1, <2>2 DEF Bumped
  <2>4. \A v \in Workers : at'[v] = "send" => at[v] = "send" /\ seen'[v] = seen[v]
    BY <1>0, <2>1
  <2> QED BY <2>1, <2>2, <2>3, <2>4, DeltasStay
<1>8. ASSUME NEW s \in spawned, Store(s) PROVE DeltasInv'
  <2>1. UNCHANGED vars /\ UNCHANGED <<at, seen, deltas, restarts>>
    BY <1>8 DEF Store
  <2>2. \A v \in Workers : Bumped(v)' => Bumped(v)
    BY <1>1, <2>1 DEF Bumped
  <2> QED BY <1>1, <2>1, <2>2, DeltasStay
\* What was published before a restart is of an earlier life.
<1>9. CASE Restart
  <2>1. restarts' = restarts + 1 /\ deltas' = deltas
    BY <1>9 DEF Restart
  <2>2. \A i \in DOMAIN deltas : deltas[i].life <= restarts /\ deltas[i].life \in Nat
    <3>1. \A i \in DOMAIN deltas : deltas[i] \in Delta
      BY <1>0
    <3> QED BY <3>1 DEF DeltasInv, Delta
  <2>3. \A i \in DOMAIN deltas : deltas[i].life <= restarts' /\ deltas[i].life # restarts'
    BY <1>0, <2>1, <2>2
  <2> QED BY <2>1, <2>3 DEF DeltasInv, SessionDeltasIncrease
<1>10. CASE UNCHANGED allvars
  <2>1. UNCHANGED vars /\ UNCHANGED <<at, seen, deltas, restarts>>
    BY <1>10 DEF allvars, pvars
  <2>2. \A v \in Workers : Bumped(v)' => Bumped(v)
    BY <1>1, <2>1 DEF Bumped
  <2> QED BY <1>1, <2>1, <2>2, DeltasStay
<1> QED BY <1>2, <1>3, <1>4, <1>5, <1>6, <1>7, <1>8, <1>9, <1>10 DEF PNext

\* The versions one connection publishes grow, whatever the others write and
\* publish, with every strategy, and with any number of restarts.
THEOREM DeltasIncrease == PSpec => []SessionDeltasIncrease
<1>1. PInit => PathInv /\ DeltasInv
  BY PInitPath
<1>2. PathInv /\ DeltasInv /\ [PNext]_allvars => (PathInv /\ DeltasInv)'
  BY StepPath, StepDeltas
<1>3. DeltasInv => SessionDeltasIncrease
  BY DEF DeltasInv
<1> QED BY <1>1, <1>2, <1>3, PTL DEF PSpec
-----------------------------------------------------------------------------
KeepsContent == \A w \in Workers : CompactSwap(w) => Content' = Content

\* The text counts the writes: a command adds one to both, or leaves both, as
\* long as no compaction loses some.
LEMMA TextCounts ==
    ASSUME TypeOK, CoverInv, "INC" \notin Ops, NEW w \in Workers, Work(w), [KeepsContent]_vars
    PROVE  /\ strategy' = "crdt-text" /\ ydoc'.text = writes' /\ lww'.count = 0
           /\ \A v \in Workers : task'[v].pc # "inc"
           /\ writes' \in {writes, writes + 1}
<1> USE DEF CoverInv, Pcs
<1>1. \A v \in Workers \ {w} : task'[v] = task[v]
  BY WorkIs
<1> SUFFICES /\ strategy' = "crdt-text" /\ ydoc'.text = writes' /\ lww'.count = 0
             /\ task'[w].pc # "inc"
             /\ writes' \in {writes, writes + 1}
  BY <1>1
<1>2. CASE Begin(w)
  <2>1. PICK op \in Ops : task' = [task EXCEPT ![w] = At(Entry(op), op, 0, 0)]
    BY <1>2 DEF Begin
  <2>2. op \in {"GET", "SET", "COMPACT"}
    BY OpsAssumption DEF AllOps
  <2>3. Entry(op) \in Pcs /\ Entry(op) # "inc" /\ op \in AllOps
    BY <2>2 DEF Entry, AllOps
  <2>4. task'[w].pc = Entry(op)
    <3> HIDE DEF CoverInv
    <3> QED BY <2>1, <2>3, AtTyped
  <2> QED BY <1>2, <2>3, <2>4 DEF Begin, docvars
<1>3. CASE Get(w)
  <2>1. task'[w].pc = "done"
    <3> HIDE DEF CoverInv
    <3> QED BY <1>3, AtTyped, ContentTyped DEF Get, AllOps
  <2> QED BY <1>3, <2>1 DEF Get, docvars
<1>4. CASE SetText(w)
  BY <1>4, GoToTyped DEF SetText
<1>5. CASE IncrementUpdateCount(w)
  BY <1>5, GoToTyped DEF IncrementUpdateCount
<1>6. CASE UpdateVersion(w)
  BY <1>6, GoToTyped DEF UpdateVersion
<1>7. CASE SetValue(w) \/ Increment(w)
  BY <1>7 DEF SetValue, Increment
<1>8. CASE ShouldCompact(w)
  BY <1>8, GoToTyped DEF ShouldCompact, docvars
<1>9. CASE CompactRead(w)
  <2>1. task'[w].pc = "swap"
    BY <1>9 DEF CompactRead, TypeOK, At
  <2> QED BY <1>9, <2>1 DEF CompactRead, docvars
<1>10. CASE CompactSwap(w)
  <2>1. task'[w].pc # "inc" /\ UNCHANGED <<strategy, lww, writes>>
    BY <1>10, GoToTyped DEF CompactSwap
  <2>2. Content' = Content
    BY <1>10 DEF KeepsContent, vars, docvars, Content
  <2> QED BY <2>1, <2>2 DEF Content
<1>11. CASE CompactReset(w)
  BY <1>11, GoToTyped DEF CompactReset
<1>12. CASE CompactCount(w)
  BY <1>12, GoToTyped DEF CompactCount
<1> QED BY <1>2, <1>3, <1>4, <1>5, <1>6, <1>7, <1>8, <1>9, <1>10, <1>11, <1>12 DEF Work

\* Whatever version was read, the text there is now includes what it counts.
LEMMA SeenIsCovered ==
    ASSUME PathInv, CoverInv
    PROVE  /\ ydoc.text \in Nat
           /\ \A w \in Workers : seen[w] \in Nat /\ ydoc.text >= seen[w] - 1
<1>1. Cardinality(Unversioned) \in Nat
  BY UnversionedFinite
<1>2. version \in Nat /\ writes \in Nat /\ ydoc.text = writes /\ ydoc.text \in Nat /\ lww.count = 0
  BY DEF PathInv, TypeOK, CoverInv
<1>3. version <= 1 + writes
  BY <1>1, <1>2 DEF PathInv, VersionCountsWrites
<1>4. \A w \in Workers : seen[w] \in Nat /\ seen[w] <= version
  BY DEF PathInv
<1> QED BY <1>2, <1>3, <1>4

LEMMA StepCover ==
    ASSUME "INC" \notin Ops
    PROVE  PathInv /\ CoverInv /\ [PNext]_allvars /\ [KeepsContent]_vars => CoverInv'
<1> SUFFICES ASSUME PathInv, CoverInv, [PNext]_allvars, [KeepsContent]_vars
             PROVE  CoverInv'
  OBVIOUS
<1> DEFINE DocCounts == /\ strategy = "crdt-text" /\ ydoc.text = writes /\ lww.count = 0
                        /\ \A w \in Workers : task[w].pc # "inc"
           Covered == \A s \in spawned : s.version \in Nat /\ s.text \in Nat /\ s.text >= s.version - 1
<1>0. TypeOK /\ DocCounts /\ Covered /\ RowCoversItsVersion /\ DeltasCoverTheirVersion
  BY DEF PathInv, CoverInv
<1>1. ASSUME DocCounts', UNCHANGED <<spawned, row, deltas>> PROVE CoverInv'
  BY <1>0, <1>1 DEF CoverInv, RowCoversItsVersion, DeltasCoverTheirVersion
<1>2. ASSUME UNCHANGED vars PROVE DocCounts'
  BY <1>0, <1>2 DEF vars, docvars
<1>3. ASSUME NEW w \in Workers, Work(w), UNCHANGED pvars PROVE CoverInv'
  <2>1. DocCounts'
    BY <1>0, <1>3, TextCounts
  <2> QED BY <1>1, <1>3, <2>1 DEF pvars
<1>4. ASSUME NEW w \in Workers, PersistMeta(w) \/ PublishVersion(w) PROVE CoverInv'
  BY <1>1, <1>2, <1>4 DEF PersistMeta, PublishVersion
<1>5. ASSUME NEW w \in Workers, PersistSpawn(w) PROVE CoverInv'
  <2>1. /\ UNCHANGED vars /\ UNCHANGED <<row, deltas>>
        /\ \E no \in 1..MaxCommands : spawned' = spawned \cup {Image(no, seen[w])}
    BY <1>5 DEF PersistSpawn
  <2>2. ydoc.text \in Nat /\ seen[w] \in Nat /\ ydoc.text >= seen[w] - 1
    BY SeenIsCovered
  <2>3. ASSUME NEW no \in 1..MaxCommands
        PROVE  LET s == Image(no, seen[w]) IN
               s.version \in Nat /\ s.text \in Nat /\ s.text >= s.version - 1
    BY <2>2 DEF Image
  <2>4. Covered'
    BY <1>0, <2>1, <2>3
  <2> QED BY <1>0, <1>2, <2>1, <2>4 DEF CoverInv, RowCoversItsVersion, DeltasCoverTheirVersion
<1>6. ASSUME NEW w \in Workers, PublishSend(w) PROVE CoverInv'
  <2> DEFINE d == [version |-> seen[w], text |-> ydoc.text, by |-> w, life |-> restarts]
             L == Len(deltas)
  <2>1. UNCHANGED vars /\ UNCHANGED <<spawned, row>> /\ deltas' = Append(deltas, d)
    BY <1>6 DEF PublishSend
  <2>2. d.text >= d.version - 1
    BY SeenIsCovered
  <2> HIDE DEF d
  <2>3. /\ L \in Nat /\ DOMAIN deltas = 1..L /\ DOMAIN deltas' = 1..(L + 1)
        /\ \A i \in 1..L : deltas'[i] = deltas[i]
        /\ deltas'[L + 1] = d
    BY <2>1 DEF PathInv
  <2>4. DeltasCoverTheirVersion'
    BY <1>0, <2>2, <2>3 DEF DeltasCoverTheirVersion
  <2> QED BY <1>0, <1>2, <2>1, <2>4 DEF CoverInv, RowCoversItsVersion
<1>7. ASSUME NEW w \in Workers, Answer(w) PROVE CoverInv'
  <2>1. /\ UNCHANGED <<spawned, row, deltas>> /\ GoTo(w, "idle")
        /\ UNCHANGED <<docvars, issued, writes>>
    BY <1>7 DEF Answer, Reply
  <2>2. task'[w].pc = "idle" /\ \A v \in Workers \ {w} : task'[v] = task[v]
    BY <1>0, <2>1, GoToTyped DEF Pcs
  <2>3. DocCounts'
    BY <1>0, <2>1, <2>2 DEF docvars
  <2> QED BY <1>1, <2>1, <2>3
<1>8. ASSUME NEW s \in spawned, Store(s) PROVE CoverInv'
  <2>1. /\ UNCHANGED vars /\ UNCHANGED deltas /\ spawned' = spawned \ {s}
        /\ row' = s \/ row' = row
    BY <1>8 DEF Store
  <2>2. RowCoversItsVersion'
    BY <1>0, <2>1 DEF RowCoversItsVersion
  <2> QED BY <1>0, <1>2, <2>1, <2>2 DEF CoverInv, DeltasCoverTheirVersion
<1>9. CASE Restart
  <2>1. \A w \in Workers : task'[w].pc = "idle"
    BY <1>0, <1>9, RestartIs
  <2>2. /\ strategy' = strategy /\ ydoc'.text = 0 /\ writes' = 0 /\ lww'.count = 0
        /\ spawned' = {} /\ UNCHANGED <<row, deltas>>
    BY <1>9 DEF Restart
  <2> QED BY <1>0, <2>1, <2>2 DEF CoverInv, RowCoversItsVersion, DeltasCoverTheirVersion
<1>10. CASE UNCHANGED allvars
  BY <1>1, <1>2, <1>10 DEF allvars, pvars
<1> QED BY <1>3, <1>4, <1>5, <1>6, <1>7, <1>8, <1>9, <1>10 DEF PNext

\* A text document without INC, whose text no compaction takes back: nothing
\* else the write path does, in any order, lets an image be older than its
\* version.
LEMMA CoverInvariant ==
    ASSUME "INC" \notin Ops
    PROVE  PSpec /\ strategy = "crdt-text" /\ CompactionKeepsContent => []CoverInv
<1>1. PInit /\ strategy = "crdt-text" => PathInv /\ CoverInv
  <2>1. ASSUME PInit, strategy = "crdt-text" PROVE CoverInv
    BY <2>1 DEF PInit, Init, NoTask, At, CoverInv, RowCoversItsVersion, DeltasCoverTheirVersion
  <2> QED BY <2>1, PInitPath
<1>2. PathInv /\ CoverInv /\ [PNext]_allvars /\ [KeepsContent]_vars => (PathInv /\ CoverInv)'
  BY StepPath, StepCover
<1>3. CompactionKeepsContent => [][KeepsContent]_vars
  BY PTL DEF CompactionKeepsContent, KeepsContent
<1> QED BY <1>1, <1>2, <1>3, PTL DEF PSpec

\* What is in the database with a version includes every write that version
\* counts, although stores overtake each other, fail, or are cut off by a
\* restart.
THEOREM RowCovers ==
    ASSUME "INC" \notin Ops
    PROVE  PSpec /\ strategy = "crdt-text" /\ CompactionKeepsContent => []RowCoversItsVersion
<1>1. CoverInv => RowCoversItsVersion
  BY DEF CoverInv
<1> QED BY <1>1, CoverInvariant, PTL

\* And so does what subscribers are sent.
THEOREM DeltasCover ==
    ASSUME "INC" \notin Ops
    PROVE  PSpec /\ strategy = "crdt-text" /\ CompactionKeepsContent => []DeltasCoverTheirVersion
<1>1. CoverInv => DeltasCoverTheirVersion
  BY DEF CoverInv
<1> QED BY <1>1, CoverInvariant, PTL
=============================================================================
