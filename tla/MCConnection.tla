----------------------------- MODULE MCConnection -----------------------------
(* Connection for TLC.                                                     *)
EXTENDS Connection, FiniteSets

\* The mangled lines that were answered.
Mangled ==
    {i \in DOMAIN Messages :
        Messages[i].line = 0 /\ Messages[i].reply \notin {"TOO_LARGE", "DELTA"}}

\* Deltas are published to connections that deal with nothing but them: the
\* other commands and answers do not matter to their delivery.
DeltasApart ==
    published > 0 =>
        /\ transport # "binary"
        /\ \A i \in DOMAIN sent : sent[i] \in {"AUTH", "SUB", "UNSUB", "PING"}
        /\ \A i \in Mangled : Messages[i].reply = "OK"

\* A third line is sent only while at most one mangled line was answered.
FewMangled == Len(sent) > 2 => Cardinality(Mangled) <= 1
=============================================================================
