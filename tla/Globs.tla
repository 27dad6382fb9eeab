-------------------------------- MODULE Globs --------------------------------
(***************************************************************************)
(* The matching of document ids with patterns, of which the repository has *)
(* five: KEYS (manager.rs), MemoryStorage::list (memory.rs), the filter of *)
(* deltas (handler.rs), and the LIKE of SqliteStorage and PostgresStorage, *)
(* where `_` and `%` of a pattern are wildcards; SQLite looks at no case,  *)
(* and PostgreSQL takes a backslash for an escape.  Strings are sequences  *)
(* of characters.                                                          *)
(***************************************************************************)
EXTENDS Naturals, Sequences, SequencesExt

\* KEYS and MemoryStorage::list: a star at the end, or else one at the start.
GlobMatches(key, pattern) ==
    \/ pattern = <<"*">>
    \/ /\ IsSuffix(<<"*">>, pattern)
       /\ IsPrefix(Front(pattern), key)
    \/ /\ ~IsSuffix(<<"*">>, pattern) /\ IsPrefix(<<"*">>, pattern)
       /\ IsSuffix(Tail(pattern), key)
    \/ key = pattern

\* Mutant: forwards what begins with the pattern, star or not.
SubscriptionMatchesPrefix(key, pattern) ==
    \/ pattern = <<"*">>
    \/ IsSuffix(<<"*">>, pattern) /\ IsPrefix(Front(pattern), key)
    \/ IsPrefix(pattern, key)

\* The deltas a connection forwards: no star at the start.
SubscriptionMatches(key, pattern) ==
    \/ pattern = <<"*">>
    \/ IsSuffix(<<"*">>, pattern) /\ IsPrefix(Front(pattern), key)
    \/ key = pattern

\* The escape character of PostgreSQL's LIKE; SQLite's has none.
Backslash == "\\"

\* The places of a pattern where a character of `escape` escapes the next one:
\* the first, third, ... of such characters in a row.
Escapes(pattern, escape) ==
    {j \in DOMAIN pattern :
        \E i \in 1..j :
            /\ \A k \in i..j : pattern[k] \in escape
            /\ i = 1 \/ pattern[i - 1] \notin escape
            /\ (j - i) % 2 = 0}

\* LIKE, with characters compared after `fold`: at[j] is where in the key the
\* match of the j-th character of the pattern begins.  An escape matches
\* nothing, what follows it matches itself, and it may not be the last.
Like(key, pattern, fold, escape) ==
    LET esc == Escapes(pattern, escape)
        Wild(j, c) == pattern[j] = c /\ j - 1 \notin esc
    IN  /\ Len(pattern) \notin esc
        /\ \E at \in [1..Len(pattern) + 1 -> 1..Len(key) + 1] :
              /\ at[1] = 1 /\ at[Len(pattern) + 1] = Len(key) + 1
              /\ \A j \in 1..Len(pattern) :
                    IF j \in esc THEN at[j + 1] = at[j]
                    ELSE IF Wild(j, "%") THEN at[j] <= at[j + 1]
                    ELSE /\ at[j + 1] = at[j] + 1
                         /\ Wild(j, "_") \/ fold[pattern[j]] = fold[key[at[j]]]

\* trim_end_matches('*') and trim_start_matches('*').
Kept(s) == {i \in DOMAIN s : s[i] # "*"}

TrimEnd(s) ==
    SubSeq(s, 1, IF Kept(s) = {} THEN 0
                 ELSE CHOOSE i \in Kept(s) : \A j \in Kept(s) : j <= i)
TrimStart(s) ==
    SubSeq(s, IF Kept(s) = {} THEN Len(s) + 1
              ELSE CHOOSE i \in Kept(s) : \A j \in Kept(s) : i <= j, Len(s))

LikeMatches(key, pattern, fold, escape) ==
    CASE IsSuffix(<<"*">>, pattern)
           -> Like(key, TrimEnd(pattern) \o <<"%">>, fold, escape)
      [] ~IsSuffix(<<"*">>, pattern) /\ IsPrefix(<<"*">>, pattern)
           -> Like(key, <<"%">> \o TrimStart(pattern), fold, escape)
      [] OTHER -> key = pattern

SqliteMatches(key, pattern, lower) == LikeMatches(key, pattern, lower, {})
PostgresMatches(key, pattern) ==
    LikeMatches(key, pattern,
                [c \in Range(key) \cup Range(pattern) \cup {"%"} |-> c], {Backslash})

\* A text in lower case.
Folded(s, lower) == [i \in DOMAIN s |-> lower[s[i]]]

\* A pattern means the same to KEYS, to the three storages and to a
\* subscription, but that
\*   - `_` and `%` are wildcards of SQL, where the others have only the star;
\*   - SQL drops every star at the end, or else the start, the others one;
\*   - SQLite does not tell upper from lower case before or after the star;
\*   - PostgreSQL takes a backslash for an escape;
\*   - a subscription does not know a star at the start
\* (manager.rs, memory.rs, sqlite.rs, postgres.rs and handler.rs each have a
\* matcher of their own).
Agree(key, pattern, lower) ==
    LET inner == TrimStart(TrimEnd(pattern))
        plain == /\ ~Contains(inner, "_") /\ ~Contains(inner, "%")
                 /\ ~IsSuffix(<<"*", "*">>, pattern) /\ ~IsPrefix(<<"*", "*">>, pattern)
        glob == GlobMatches(key, pattern)
        sqlite == SqliteMatches(key, pattern, lower)
        postgres == PostgresMatches(key, pattern)
        deltas == SubscriptionMatches(key, pattern)
    IN  /\ deltas => glob
        /\ glob => deltas \/ (IsPrefix(<<"*">>, pattern) /\ ~IsSuffix(<<"*">>, pattern))
        /\ glob => sqlite /\ (postgres \/ Contains(key, Backslash))
        /\ plain /\ sqlite => GlobMatches(Folded(key, lower), Folded(pattern, lower))
        /\ ~Contains(pattern, Backslash) =>
              /\ postgres => sqlite
              /\ plain /\ postgres => glob
=============================================================================
