---------------------------- MODULE BackendsProofs ----------------------------
(***************************************************************************)
(* The three storages implement the trait, for every set of callers, ids,  *)
(* rows and patterns: module Backends refines module Storage.              *)
(***************************************************************************)
EXTENDS Backends, SequenceTheorems, FiniteSetTheorems, FunctionTheorems,
        NaturalsInduction, WellFoundedInduction, TLAPS

-----------------------------------------------------------------------------
(***************************************************************************)
(* Patterns: what KEYS and the memory storage match, LIKE matches.         *)
(***************************************************************************)
\* Every non-empty set of numbers has a least one.
LEMMA LeastNat ==
    ASSUME NEW T \in SUBSET Nat, T # {}
    PROVE  \E x \in T : \A y \in T : x <= y
<1>1. \E R : IsWellFoundedOn(R, Nat) /\ \A x, y \in Nat : <<y, x>> \in R <=> y < x
  <2>1. \A x, y \in Nat : <<y, x>> \in OpToRel(<, Nat) <=> y < x
    BY DEF OpToRel
  <2> QED BY <2>1, NatLessThanWellFounded
<1>2. PICK R : IsWellFoundedOn(R, Nat) /\ \A x, y \in Nat : <<y, x>> \in R <=> y < x
  BY <1>1
<1>3. PICK x \in T : \A y \in T : ~(<<y, x>> \in R)
  BY <1>2, WFMin
<1>4. ASSUME NEW y \in T PROVE x <= y
  <2>1. x \in Nat /\ y \in Nat
    OBVIOUS
  <2>2. ~(y < x)
    BY <2>1, <1>2, <1>3, Zenon
  <2> QED BY <2>1, <2>2
<1> QED BY <1>4

\* ... and a greatest one, if it is bounded.
LEMMA GreatestNat ==
    ASSUME NEW n \in Nat, NEW T \in SUBSET (0..n), T # {}
    PROVE  \E x \in T : \A y \in T : y <= x
<1> DEFINE U == {n - y : y \in T}
<1>1. U \in SUBSET Nat /\ U # {}
  <2>1. \A y \in T : y \in 0..n /\ n - y \in Nat
    OBVIOUS
  <2>2. PICK t \in T : TRUE
    OBVIOUS
  <2>3. n - t \in U
    OBVIOUS
  <2> QED BY <2>1, <2>3
<1>2. PICK u \in U : \A v \in U : u <= v
  BY <1>1, LeastNat
<1>3. PICK x \in T : u = n - x
  OBVIOUS
<1>4. ASSUME NEW y \in T PROVE y <= x
  <2>1. n - y \in U
    OBVIOUS
  <2> QED BY <1>2, <1>3, <2>1
<1> QED BY <1>4

\* trim_end_matches('*') keeps a prefix, which ends before the stars at the end.
LEMMA TrimEndKeeps ==
    ASSUME NEW S, NEW s \in Seq(S)
    PROVE  \E n \in 0..Len(s) : /\ TrimEnd(s) = SubSeq(s, 1, n)
                                /\ \A i \in (n + 1)..Len(s) : s[i] = "*"
                                /\ n = 0 \/ s[n] # "*"
<1> DEFINE last == CHOOSE i \in Kept(s) : \A j \in Kept(s) : j <= i
<1>1. Kept(s) \in SUBSET (1..Len(s)) /\ \A i \in 1..Len(s) : i \in Kept(s) <=> s[i] # "*"
  BY DEF Kept
<1>2. CASE Kept(s) = {}
  <2>1. TrimEnd(s) = SubSeq(s, 1, 0)
    BY <1>2 DEF TrimEnd
  <2> QED BY <2>1, <1>1, <1>2
<1>3. CASE Kept(s) # {}
  <2>1. \E i \in Kept(s) : \A j \in Kept(s) : j <= i
    <3>1. Len(s) \in Nat /\ Kept(s) \in SUBSET (0..Len(s))
      BY <1>1
    <3> QED BY <3>1, <1>3, GreatestNat
  <2>2. last \in Kept(s) /\ \A j \in Kept(s) : j <= last
    BY <2>1
  <2>3. TrimEnd(s) = SubSeq(s, 1, last)
    BY <1>3 DEF TrimEnd
  <2> HIDE DEF last
  <2>4. \A i \in (last + 1)..Len(s) : s[i] = "*"
    BY <2>2, <1>1
  <2> QED BY <2>2, <2>3, <2>4, <1>1
<1> QED BY <1>2, <1>3

\* trim_start_matches('*') keeps a suffix.
LEMMA TrimStartKeeps ==
    ASSUME NEW S, NEW s \in Seq(S)
    PROVE  \E n \in 1..(Len(s) + 1) : /\ TrimStart(s) = SubSeq(s, n, Len(s))
                                      /\ \A i \in 1..(n - 1) : s[i] = "*"
                                      /\ n = Len(s) + 1 \/ s[n] # "*"
<1> DEFINE first == CHOOSE i \in Kept(s) : \A j \in Kept(s) : i <= j
<1>1. Kept(s) \in SUBSET (1..Len(s)) /\ \A i \in 1..Len(s) : i \in Kept(s) <=> s[i] # "*"
  BY DEF Kept
<1>2. CASE Kept(s) = {}
  <2>1. TrimStart(s) = SubSeq(s, Len(s) + 1, Len(s))
    BY <1>2 DEF TrimStart
  <2> QED BY <2>1, <1>1, <1>2
<1>3. CASE Kept(s) # {}
  <2>1. \E i \in Kept(s) : \A j \in Kept(s) : i <= j
    BY <1>1, <1>3, LeastNat
  <2>2. first \in Kept(s) /\ \A j \in Kept(s) : first <= j
    BY <2>1
  <2>3. TrimStart(s) = SubSeq(s, first, Len(s))
    BY <1>3 DEF TrimStart
  <2> HIDE DEF first
  <2>4. \A i \in 1..(first - 1) : s[i] = "*"
    BY <2>2, <1>1
  <2> QED BY <2>2, <2>3, <2>4, <1>1
<1> QED BY <1>2, <1>3

\* LIKE where nothing is escaped.
Unescaped(key, q, fold) ==
    \E at \in [1..Len(q) + 1 -> 1..Len(key) + 1] :
        /\ at[1] = 1 /\ at[Len(q) + 1] = Len(key) + 1
        /\ \A j \in 1..Len(q) :
              IF q[j] = "%" THEN at[j] <= at[j + 1]
              ELSE /\ at[j + 1] = at[j] + 1
                   /\ q[j] = "_" \/ fold[q[j]] = fold[key[at[j]]]

\* A text of these characters is one of more characters, and so with a `%`.
LEMMA Wider ==
    ASSUME NEW S, NEW T, S \subseteq T, NEW s \in Seq(S)
    PROVE  s \in Seq(T)
<1>1. /\ s = [i \in 1..Len(s) |-> s[i]] /\ Len(s) \in Nat
      /\ \A i \in 1..Len(s) : s[i] \in S
  OBVIOUS
<1>2. [i \in 1..Len(s) |-> s[i]] \in Seq(T)
  BY <1>1
<1> QED BY <1>1, <1>2

LEMMA PercentAfter ==
    ASSUME NEW S, NEW f \in Seq(S)
    PROVE  \E q \in Seq(S \cup {"%"}) :
              /\ q = f \o <<"%">> /\ Len(q) = Len(f) + 1 /\ q[Len(f) + 1] = "%"
              /\ \A i \in 1..Len(f) : q[i] = f[i]
<1>T. PICK T : T = S \cup {"%"}
  OBVIOUS
<1>1. PICK g \in Seq(T) : g = f
  BY <1>T, Wider
<1>2. g \o <<"%">> \in Seq(T)
  BY <1>T
<1>3. /\ Len(g \o <<"%">>) = Len(g) + 1 /\ (g \o <<"%">>)[Len(g) + 1] = "%"
      /\ \A i \in 1..Len(g) : (g \o <<"%">>)[i] = g[i]
  OBVIOUS
<1> QED BY <1>T, <1>1, <1>2, <1>3

LEMMA PercentBefore ==
    ASSUME NEW S, NEW f \in Seq(S)
    PROVE  \E q \in Seq(S \cup {"%"}) :
              /\ q = <<"%">> \o f /\ Len(q) = Len(f) + 1 /\ q[1] = "%"
              /\ \A i \in 1..Len(f) : q[i + 1] = f[i]
<1>T. PICK T : T = S \cup {"%"}
  OBVIOUS
<1>1. PICK g \in Seq(T) : g = f
  BY <1>T, Wider
<1>2. <<"%">> \o g \in Seq(T)
  BY <1>T
<1>3. /\ Len(<<"%">> \o g) = Len(g) + 1 /\ (<<"%">> \o g)[1] = "%"
      /\ \A i \in 1..Len(g) : (<<"%">> \o g)[i + 1] = g[i]
  OBVIOUS
<1> QED BY <1>T, <1>1, <1>2, <1>3

LEMMA LikeUnescaped ==
    ASSUME NEW S, NEW q \in Seq(S), NEW key, NEW fold, NEW escape,
           \A j \in 1..Len(q) : q[j] \notin escape
    PROVE  Like(key, q, fold, escape) <=> Unescaped(key, q, fold)
<1>1. Escapes(q, escape) = {}
  <2> SUFFICES ASSUME NEW j \in 1..Len(q), NEW i \in 1..j,
                      \A k \in i..j : q[k] \in escape
               PROVE  FALSE
    BY DEF Escapes
  <2>1. i \in i..j /\ i \in 1..Len(q)
    OBVIOUS
  <2> QED BY <2>1
<1> QED BY <1>1 DEF Like, Unescaped

\* A prefix and a `%` match, each character at its own place.
LEMMA PrefixLike ==
    ASSUME NEW S, NEW key \in Seq(S), NEW p \in Seq(S), NEW fold,
           Len(p) <= Len(key), \A i \in 1..Len(p) : p[i] = key[i]
    PROVE  Unescaped(key, p \o <<"%">>, fold)
<1> DEFINE q == p \o <<"%">>
           at == [j \in 1..Len(p) + 2 |-> IF j = Len(p) + 2 THEN Len(key) + 1 ELSE j]
<1>1. /\ Len(p) \in Nat /\ Len(key) \in Nat
      /\ Len(q) = Len(p) + 1 /\ q[Len(p) + 1] = "%"
      /\ \A i \in 1..Len(p) : q[i] = key[i]
  OBVIOUS
<1> HIDE DEF q
<1>2. at \in [1..Len(q) + 1 -> 1..Len(key) + 1]
  BY <1>1
<1>3. at[1] = 1 /\ at[Len(q) + 1] = Len(key) + 1
  BY <1>1
<1>4. ASSUME NEW j \in 1..Len(q)
      PROVE  IF q[j] = "%" THEN at[j] <= at[j + 1]
             ELSE at[j + 1] = at[j] + 1 /\ fold[q[j]] = fold[key[at[j]]]
  BY <1>1
<1>5. Unescaped(key, q, fold)
  BY <1>2, <1>3, <1>4 DEF Unescaped
<1> QED BY <1>5 DEF q

\* A `%` and a suffix match likewise.
LEMMA SuffixLike ==
    ASSUME NEW S, NEW key \in Seq(S), NEW p \in Seq(S), NEW fold,
           Len(p) <= Len(key), \A i \in 1..Len(p) : p[i] = key[Len(key) - Len(p) + i]
    PROVE  Unescaped(key, <<"%">> \o p, fold)
<1> DEFINE q == <<"%">> \o p
           at == [j \in 1..Len(p) + 2 |-> IF j = 1 THEN 1 ELSE Len(key) - Len(p) + j - 1]
<1>1. /\ Len(p) \in Nat /\ Len(key) \in Nat
      /\ Len(q) = Len(p) + 1 /\ q[1] = "%"
      /\ \A i \in 2..Len(q) : q[i] = key[Len(key) - Len(p) + i - 1]
  <2>1. Len(q) = Len(p) + 1 /\ q[1] = "%"
    OBVIOUS
  <2>2. ASSUME NEW i \in 2..Len(q) PROVE q[i] = p[i - 1]
    BY <2>2, <2>1
  <2> QED BY <2>1, <2>2
<1> HIDE DEF q
<1>2. at \in [1..Len(q) + 1 -> 1..Len(key) + 1]
  BY <1>1
<1>3. at[1] = 1 /\ at[Len(q) + 1] = Len(key) + 1
  BY <1>1
<1>4. ASSUME NEW j \in 1..Len(q)
      PROVE  IF q[j] = "%" THEN at[j] <= at[j + 1]
             ELSE at[j + 1] = at[j] + 1 /\ fold[q[j]] = fold[key[at[j]]]
  BY <1>1
<1>5. Unescaped(key, q, fold)
  BY <1>2, <1>3, <1>4 DEF Unescaped
<1> QED BY <1>5 DEF q

LEMMA EndsInStar ==
    ASSUME NEW S, NEW p \in Seq(S)
    PROVE  IsSuffix(<<"*">>, p) <=> Len(p) >= 1 /\ p[Len(p)] = "*"
<1>1. /\ Reverse(<<"*">>) = <<"*">> /\ Len(p) \in Nat
      /\ Reverse(p) \in Seq(S) /\ Len(Reverse(p)) = Len(p)
      /\ Len(p) >= 1 => Reverse(p)[1] = p[Len(p)]
  BY DEF Reverse
<1> QED BY <1>1 DEF IsSuffix, IsPrefix

LEMMA StartsWithStar ==
    ASSUME NEW S, NEW p \in Seq(S)
    PROVE  IsPrefix(<<"*">>, p) <=> Len(p) >= 1 /\ p[1] = "*"
  BY DEF IsPrefix

LEMMA PrefixElements ==
    ASSUME NEW S, NEW p \in Seq(S), NEW key \in Seq(S), IsPrefix(p, key)
    PROVE  Len(p) <= Len(key) /\ \A i \in 1..Len(p) : p[i] = key[i]
<1>1. SubSeq(p, 1, Len(p)) = p /\ Len(p) <= Len(key) /\ Len(p) \in Nat /\ Len(key) \in Nat
  BY DEF IsPrefix
<1>2. \A i \in 1..Len(p) : SubSeq(key, 1, Len(p))[i] = key[i]
  BY <1>1
<1> QED BY <1>1, <1>2 DEF IsPrefix

LEMMA SuffixElements ==
    ASSUME NEW S, NEW p \in Seq(S), NEW key \in Seq(S), IsSuffix(p, key)
    PROVE  Len(p) <= Len(key) /\ \A i \in 1..Len(p) : p[i] = key[Len(key) - Len(p) + i]
<1>1. /\ Reverse(p) \in Seq(S) /\ Len(Reverse(p)) = Len(p) /\ Len(p) \in Nat
      /\ Reverse(key) \in Seq(S) /\ Len(Reverse(key)) = Len(key) /\ Len(key) \in Nat
      /\ \A i \in 1..Len(p) : Reverse(p)[i] = p[Len(p) - i + 1]
      /\ \A i \in 1..Len(key) : Reverse(key)[i] = key[Len(key) - i + 1]
  BY DEF Reverse
<1>2. Len(p) <= Len(key) /\ \A i \in 1..Len(p) : Reverse(p)[i] = Reverse(key)[i]
  BY <1>1, PrefixElements DEF IsSuffix
<1>3. ASSUME NEW i \in 1..Len(p) PROVE p[i] = key[Len(key) - Len(p) + i]
  <2> DEFINE j == Len(p) - i + 1
  <2>1. /\ j \in 1..Len(p) /\ j \in 1..Len(key)
        /\ Len(p) - j + 1 = i /\ Len(key) - j + 1 = Len(key) - Len(p) + i
    BY <1>1, <1>2
  <2> HIDE DEF j
  <2>2. Reverse(p)[j] = p[Len(p) - j + 1]
    BY <1>1, <2>1
  <2>3. Reverse(key)[j] = key[Len(key) - j + 1]
    BY <1>1, <2>1
  <2>4. Reverse(p)[j] = Reverse(key)[j]
    BY <1>2, <2>1
  <2> QED BY <2>1, <2>2, <2>3, <2>4
<1> QED BY <1>2, <1>3

LEMMA FrontElements ==
    ASSUME NEW S, NEW p \in Seq(S), Len(p) >= 1
    PROVE  /\ Front(p) \in Seq(S) /\ Len(Front(p)) = Len(p) - 1
           /\ \A i \in 1..(Len(p) - 1) : Front(p)[i] = p[i]
<1> DEFINE n == Len(p) - 1
<1>1. n \in Int /\ n >= 0 /\ \A i \in 1..n : p[i] \in S
  OBVIOUS
<1>2. Front(p) = SubSeq(p, 1, n)
  BY DEF Front
<1> HIDE DEF n
<1>3. /\ SubSeq(p, 1, n) \in Seq(S) /\ Len(SubSeq(p, 1, n)) = n
      /\ \A i \in 1..n : SubSeq(p, 1, n)[i] = p[i]
  BY <1>1
<1> QED BY <1>2, <1>3 DEF n

\* The storages on SQL list whatever the memory storage lists, if the key has
\* no escape in it.
LEMMA GlobIsLike ==
    ASSUME NEW S, NEW key \in Seq(S), NEW pattern \in Seq(S), NEW fold, NEW escape,
           "%" \notin escape, \A i \in 1..Len(key) : key[i] \notin escape,
           GlobMatches(key, pattern)
    PROVE  LikeMatches(key, pattern, fold, escape)
<1>0. Len(pattern) \in Nat /\ Len(key) \in Nat
  OBVIOUS
<1>1. CASE IsSuffix(<<"*">>, pattern)
  <2>1. Len(pattern) >= 1 /\ pattern[Len(pattern)] = "*"
    BY <1>1, EndsInStar
  <2>2. PICK n \in 0..Len(pattern) : /\ TrimEnd(pattern) = SubSeq(pattern, 1, n)
                                     /\ n = 0 \/ pattern[n] # "*"
    BY TrimEndKeeps
  <2>3. n <= Len(pattern) - 1
    BY <2>1, <2>2, <1>0
  <2>4. /\ TrimEnd(pattern) \in Seq(S) /\ Len(TrimEnd(pattern)) = n
        /\ \A i \in 1..n : TrimEnd(pattern)[i] = pattern[i]
    BY <2>2, <1>0
  <2>5. n <= Len(key) /\ \A i \in 1..n : pattern[i] = key[i]
    <3>1. CASE pattern = <<"*">>
      BY <2>3, <3>1, <1>0
    <3>2. CASE IsPrefix(Front(pattern), key)
      <4>1. /\ Front(pattern) \in Seq(S) /\ Len(Front(pattern)) = Len(pattern) - 1
            /\ \A i \in 1..(Len(pattern) - 1) : Front(pattern)[i] = pattern[i]
        BY <2>1, FrontElements
      <4>2. Len(pattern) - 1 <= Len(key) /\ \A i \in 1..(Len(pattern) - 1) : Front(pattern)[i] = key[i]
        BY <3>2, <4>1, PrefixElements
      <4> QED BY <4>1, <4>2, <2>3, <1>0
    <3>3. CASE key = pattern
      BY <2>3, <3>3, <1>0
    <3> QED BY <1>1, <3>1, <3>2, <3>3 DEF GlobMatches
  <2>f. PICK f \in Seq(S) : /\ f = TrimEnd(pattern) /\ Len(f) = n
                            /\ \A i \in 1..n : f[i] = key[i]
    BY <2>4, <2>5
  <2>q. PICK q \in Seq(S \cup {"%"}) :
           /\ q = f \o <<"%">> /\ Len(q) = Len(f) + 1 /\ q[Len(f) + 1] = "%"
           /\ \A i \in 1..Len(f) : q[i] = f[i]
    BY PercentAfter, Zenon
  <2>6. Unescaped(key, q, fold)
    BY <2>5, <2>f, <2>q, PrefixLike
  <2>7. ASSUME NEW j \in 1..Len(q) PROVE q[j] \notin escape
    <3>1. Len(q) = n + 1 /\ q[n + 1] = "%" /\ \A i \in 1..n : q[i] = key[i]
      BY <2>f, <2>q
    <3> QED BY <3>1, <2>5
  <2>8. Like(key, q, fold, escape)
    BY <2>6, <2>7, LikeUnescaped
  <2> QED BY <1>1, <2>8, <2>f, <2>q DEF LikeMatches
<1>2. CASE ~IsSuffix(<<"*">>, pattern) /\ IsPrefix(<<"*">>, pattern)
  <2>1. Len(pattern) >= 1 /\ pattern[1] = "*" /\ pattern[Len(pattern)] # "*"
    BY <1>2, EndsInStar, StartsWithStar
  <2>2. PICK n \in 1..(Len(pattern) + 1) :
               /\ TrimStart(pattern) = SubSeq(pattern, n, Len(pattern))
               /\ n = Len(pattern) + 1 \/ pattern[n] # "*"
               /\ \A i \in 1..(n - 1) : pattern[i] = "*"
    BY TrimStartKeeps
  <2>3. n >= 2 /\ n <= Len(pattern)
    BY <2>1, <2>2, <1>0
  <2> DEFINE m == Len(pattern) - n + 1
  <2>4. /\ TrimStart(pattern) \in Seq(S) /\ Len(TrimStart(pattern)) = m
        /\ \A i \in 1..m : TrimStart(pattern)[i] = pattern[n + i - 1]
    BY <2>2, <2>3, <1>0
  <2>5. /\ m <= Len(key)
        /\ \A i \in 1..m : pattern[n + i - 1] = key[Len(key) - m + i]
    <3>1. CASE IsSuffix(Tail(pattern), key)
      <4>1. /\ Tail(pattern) \in Seq(S) /\ Len(Tail(pattern)) = Len(pattern) - 1
            /\ \A i \in 1..(Len(pattern) - 1) : Tail(pattern)[i] = pattern[i + 1]
        BY <2>1, <1>0
      <4>2. /\ Len(pattern) - 1 <= Len(key)
            /\ \A i \in 1..(Len(pattern) - 1) :
                  Tail(pattern)[i] = key[Len(key) - (Len(pattern) - 1) + i]
        <5>1. /\ Len(Tail(pattern)) <= Len(key)
              /\ \A i \in 1..Len(Tail(pattern)) :
                    Tail(pattern)[i] = key[Len(key) - Len(Tail(pattern)) + i]
          BY <3>1, <4>1, SuffixElements
        <5> QED BY <4>1, <5>1
      <4>3. ASSUME NEW i \in 1..m PROVE pattern[n + i - 1] = key[Len(key) - m + i]
        <5>1. n + i - 2 \in 1..(Len(pattern) - 1) /\ (n + i - 2) + 1 = n + i - 1
          BY <2>3, <1>0
        <5>2. Len(key) - (Len(pattern) - 1) + (n + i - 2) = Len(key) - m + i
          BY <2>3, <1>0
        <5> QED BY <4>1, <4>2, <5>1, <5>2
      <4> QED BY <4>2, <4>3, <2>3, <1>0
    <3>2. CASE key = pattern
      <4>1. ASSUME NEW i \in 1..m PROVE n + i - 1 = Len(key) - m + i
        BY <3>2, <2>3, <1>0
      <4> QED BY <4>1, <3>2, <2>3, <1>0
    <3> QED BY <1>2, <2>1, <3>1, <3>2 DEF GlobMatches
  <2> HIDE DEF m
  <2>f. PICK f \in Seq(S) : /\ f = TrimStart(pattern) /\ Len(f) = m
                            /\ \A i \in 1..m : f[i] = key[Len(key) - m + i]
    BY <2>4, <2>5
  <2>q. PICK q \in Seq(S \cup {"%"}) :
           /\ q = <<"%">> \o f /\ Len(q) = Len(f) + 1 /\ q[1] = "%"
           /\ \A i \in 1..Len(f) : q[i + 1] = f[i]
    BY PercentBefore, Zenon
  <2>6. Unescaped(key, q, fold)
    <3>1. Len(f) <= Len(key) /\ \A i \in 1..Len(f) : f[i] = key[Len(key) - Len(f) + i]
      BY <2>5, <2>f
    <3>2. Unescaped(key, <<"%">> \o f, fold)
      BY <3>1, SuffixLike
    <3> QED BY <3>2, <2>q
  <2>7. ASSUME NEW j \in 1..Len(q) PROVE q[j] \notin escape
    <3>1. Len(q) = m + 1 /\ q[1] = "%" /\ m \in Nat
      BY <2>f, <2>q
    <3>2. ASSUME j # 1 PROVE q[j] = key[Len(key) - m + (j - 1)]
      <4>1. j - 1 \in 1..m /\ (j - 1) + 1 = j
        BY <3>1, <3>2
      <4> QED BY <4>1, <2>f, <2>q
    <3>3. j # 1 => Len(key) - m + (j - 1) \in 1..Len(key)
      BY <3>1, <2>5, <1>0
    <3> QED BY <3>1, <3>2, <3>3
  <2>8. Like(key, q, fold, escape)
    BY <2>6, <2>7, LikeUnescaped
  <2> QED BY <1>2, <2>8, <2>f, <2>q DEF LikeMatches
<1>3. CASE ~IsSuffix(<<"*">>, pattern) /\ ~IsPrefix(<<"*">>, pattern)
  <2>1. pattern = <<"*">> => Len(pattern) = 1 /\ pattern[1] = "*"
    OBVIOUS
  <2>2. key = pattern
    BY <1>3, <2>1, StartsWithStar DEF GlobMatches
  <2> QED BY <1>3, <2>2 DEF LikeMatches
<1> QED BY <1>1, <1>2, <1>3
-----------------------------------------------------------------------------
(***************************************************************************)
(* Patterns, the other way round: where nothing is a wildcard of SQL, LIKE *)
(* matches nothing else.                                                   *)
(***************************************************************************)
\* A character that is no wildcard.
Literal(c) == c # "_" /\ c # "%"

\* What matches a prefix and a `%` begins with the prefix.
LEMMA LikePrefix ==
    ASSUME NEW S, NEW key \in Seq(S), NEW p \in Seq(S), NEW fold,
           \A i \in 1..Len(p) : Literal(p[i]), Unescaped(key, p \o <<"%">>, fold)
    PROVE  Len(p) <= Len(key) /\ \A i \in 1..Len(p) : fold[p[i]] = fold[key[i]]
<1>0. \A i \in 1..Len(p) : Literal(p[i])
  OBVIOUS
<1>q. PICK q : q = p \o <<"%">>
  OBVIOUS
<1>n. PICK n \in Nat, l \in Nat : n = Len(p) /\ l = Len(key)
  OBVIOUS
<1>1. Len(q) = n + 1 /\ q[n + 1] = "%" /\ \A i \in 1..n : q[i] = p[i]
  BY <1>q, <1>n
<1>2. PICK at \in [1..Len(q) + 1 -> 1..Len(key) + 1] :
         /\ at[1] = 1 /\ at[Len(q) + 1] = Len(key) + 1
         /\ \A j \in 1..Len(q) :
               /\ (q[j] = "%" => at[j] <= at[j + 1])
               /\ (Literal(q[j]) => at[j + 1] = at[j] + 1 /\ fold[q[j]] = fold[key[at[j]]])
  <2>1. Unescaped(key, q, fold)
    BY <1>q
  <2> QED BY <2>1, Zenon DEF Unescaped, Literal
<1>3. \A j \in 1..n : at[j + 1] = at[j] + 1 /\ fold[p[j]] = fold[key[at[j]]]
  BY <1>0, <1>1, <1>2, <1>n
<1>4. \A j \in 1..(n + 1) : at[j] = j
  <2> DEFINE T == {j \in 1..(n + 1) : at[j] # j}
  <2>1. SUFFICES ASSUME T # {} PROVE FALSE
    OBVIOUS
  <2>2. PICK x \in T : \A y \in T : x <= y
    <3>1. T \in SUBSET Nat
      OBVIOUS
    <3> QED BY <2>1, <3>1, LeastNat
  <2>3. x \in 1..(n + 1) /\ at[x] # x
    OBVIOUS
  <2>4. x - 1 \in 1..n
    BY <2>3, <1>2
  <2>5. at[x - 1] = x - 1
    <3>1. x - 1 \notin T
      BY <2>2, <2>3
    <3> QED BY <3>1, <2>4
  <2>6. at[(x - 1) + 1] = at[x - 1] + 1
    BY <1>3, <2>4
  <2> QED BY <2>3, <2>4, <2>5, <2>6
<1>5. n <= l
  <2>1. at[n + 1] <= at[(n + 1) + 1]
    BY <1>1, <1>2
  <2>2. at[n + 1] = n + 1
    BY <1>4
  <2>3. at[(n + 1) + 1] = l + 1
    BY <1>1, <1>2, <1>n
  <2> QED BY <2>1, <2>2, <2>3
<1>6. ASSUME NEW i \in 1..n PROVE fold[p[i]] = fold[key[i]]
  <2>1. at[i] = i /\ i \in 1..l
    BY <1>4, <1>5
  <2>2. fold[p[i]] = fold[key[i]]
    BY <1>3, <2>1
  <2> QED BY <2>1, <2>2
<1> QED BY <1>5, <1>6, <1>n

\* What matches a `%` and a suffix ends with the suffix.
LEMMA LikeSuffix ==
    ASSUME NEW S, NEW key \in Seq(S), NEW p \in Seq(S), NEW fold,
           \A i \in 1..Len(p) : Literal(p[i]), Unescaped(key, <<"%">> \o p, fold)
    PROVE  Len(p) <= Len(key) /\ \A i \in 1..Len(p) : fold[p[i]] = fold[key[Len(key) - Len(p) + i]]
<1>0. \A i \in 1..Len(p) : Literal(p[i])
  OBVIOUS
<1>q. PICK q : q = <<"%">> \o p
  OBVIOUS
<1>n. PICK n \in Nat, l \in Nat : n = Len(p) /\ l = Len(key)
  OBVIOUS
<1>1. Len(q) = n + 1 /\ \A i \in 1..n : q[i + 1] = p[i]
  BY <1>q, <1>n
<1>2. PICK at \in [1..Len(q) + 1 -> 1..Len(key) + 1] :
         /\ at[1] = 1 /\ at[Len(q) + 1] = Len(key) + 1
         /\ \A j \in 1..Len(q) :
               /\ (q[j] = "%" => at[j] <= at[j + 1])
               /\ (Literal(q[j]) => at[j + 1] = at[j] + 1 /\ fold[q[j]] = fold[key[at[j]]])
  <2>1. Unescaped(key, q, fold)
    BY <1>q
  <2> QED BY <2>1, Zenon DEF Unescaped, Literal
<1>3. ASSUME NEW j \in 1..n
      PROVE  at[j + 2] = at[j + 1] + 1 /\ fold[p[j]] = fold[key[at[j + 1]]]
  <2>1. j + 1 \in 1..(n + 1) /\ (j + 1) + 1 = j + 2
    OBVIOUS
  <2>2. q[j + 1] = p[j] /\ Literal(p[j]) /\ j + 1 \in 1..Len(q)
    BY <1>0, <1>1, <1>n
  <2> QED BY <1>2, <2>1, <2>2
<1>a. /\ \A j \in 1..(n + 2) : at[j] \in 1..(l + 1)
      /\ at[1] = 1 /\ at[n + 2] = l + 1
  <2>1. Len(q) + 1 = n + 2 /\ Len(key) + 1 = l + 1
    BY <1>1, <1>n
  <2>2. at \in [1..(n + 2) -> 1..(l + 1)] /\ at[1] = 1 /\ at[n + 2] = l + 1
    BY <1>2, <2>1, Zenon
  <2> QED BY <2>2
<1>4. \A j \in 2..(n + 2) : at[j] = l - n + j - 1
  <2> DEFINE T == {j \in 2..(n + 2) : at[j] # l - n + j - 1}
  <2>1. SUFFICES ASSUME T # {} PROVE FALSE
    OBVIOUS
  <2>2. PICK x \in T : \A y \in T : y <= x
    <3>1. n + 2 \in Nat /\ T \in SUBSET (0..(n + 2))
      OBVIOUS
    <3> QED BY <2>1, <3>1, GreatestNat
  <2>3. x \in 2..(n + 2) /\ at[x] # l - n + x - 1
    OBVIOUS
  <2>4. x - 1 \in 1..n /\ (x - 1) + 2 = x + 1 /\ (x - 1) + 1 = x
    BY <2>3, <1>a
  <2>5. at[x + 1] = l - n + (x + 1) - 1
    <3>1. x + 1 \notin T
      BY <2>2, <2>3
    <3> QED BY <3>1, <2>3, <2>4
  <2>6. at[x + 1] = at[x] + 1
    BY <1>3, <2>4
  <2>7. at[x] \in Nat
    BY <2>3, <1>a
  <2>8. x \in Nat
    BY <2>3
  <2> HIDE DEF T
  <2>9. at[x] + 1 = l - n + (x + 1) - 1
    BY <2>5, <2>6
  <2>y. PICK y \in Nat : y = at[x]
    BY <2>7
  <2>10. y = l - n + x - 1
    BY <2>8, <2>9, <2>y
  <2> QED BY <2>3, <2>y, <2>10
<1>5. n <= l
  <2>1. at[2] = l - n + 1 /\ at[2] \in 1..l + 1
    BY <1>a, <1>4
  <2> QED BY <2>1
<1>6. ASSUME NEW i \in 1..n PROVE fold[p[i]] = fold[key[l - n + i]]
  <2>1. at[i + 1] = l - n + i /\ l - n + i \in 1..l
    BY <1>4, <1>5
  <2>2. fold[p[i]] = fold[key[l - n + i]]
    BY <1>3, <2>1
  <2> QED BY <2>1, <2>2
<1> QED BY <1>5, <1>6, <1>n

LEMMA ElementsPrefix ==
    ASSUME NEW S, NEW p \in Seq(S), NEW key \in Seq(S),
           Len(p) <= Len(key), \A i \in 1..Len(p) : p[i] = key[i]
    PROVE  IsPrefix(p, key)
<1>1. /\ SubSeq(p, 1, Len(p)) \in Seq(S) /\ Len(SubSeq(p, 1, Len(p))) = Len(p)
      /\ SubSeq(key, 1, Len(p)) \in Seq(S) /\ Len(SubSeq(key, 1, Len(p))) = Len(p)
      /\ \A i \in 1..Len(p) : SubSeq(p, 1, Len(p))[i] = SubSeq(key, 1, Len(p))[i]
  OBVIOUS
<1>2. SubSeq(p, 1, Len(p)) = SubSeq(key, 1, Len(p))
  BY <1>1, SeqEqual
<1> QED BY <1>2 DEF IsPrefix

LEMMA ElementsSuffix ==
    ASSUME NEW S, NEW p \in Seq(S), NEW key \in Seq(S),
           Len(p) <= Len(key), \A i \in 1..Len(p) : p[i] = key[Len(key) - Len(p) + i]
    PROVE  IsSuffix(p, key)
<1>1. /\ Reverse(p) \in Seq(S) /\ Len(Reverse(p)) = Len(p) /\ Len(p) \in Nat
      /\ Reverse(key) \in Seq(S) /\ Len(Reverse(key)) = Len(key) /\ Len(key) \in Nat
      /\ \A i \in 1..Len(p) : Reverse(p)[i] = p[Len(p) - i + 1]
      /\ \A i \in 1..Len(key) : Reverse(key)[i] = key[Len(key) - i + 1]
  BY DEF Reverse
<1>2. ASSUME NEW i \in 1..Len(p) PROVE Reverse(p)[i] = Reverse(key)[i]
  <2>j. PICK j \in 1..Len(p) : j = Len(p) - i + 1
    BY <1>1
  <2>1. Reverse(p)[i] = p[j] /\ p[j] = key[Len(key) - Len(p) + j]
    BY <1>1, <2>j
  <2>2. i \in 1..Len(key) /\ Len(key) - i + 1 = Len(key) - Len(p) + j
    BY <1>1, <2>j
  <2>3. Reverse(key)[i] = key[Len(key) - Len(p) + j]
    BY <1>1, <2>2
  <2> QED BY <2>1, <2>3
<1>3. IsPrefix(Reverse(p), Reverse(key))
  BY <1>1, <1>2, ElementsPrefix
<1> QED BY <1>3 DEF IsSuffix

\* A text without two stars at an end.
LEMMA OneStar ==
    ASSUME NEW S, NEW p \in Seq(S), Len(p) >= 2
    PROVE  /\ ~IsSuffix(<<"*", "*">>, p) /\ p[Len(p)] = "*" => p[Len(p) - 1] # "*"
           /\ ~IsPrefix(<<"*", "*">>, p) /\ p[1] = "*" => p[2] # "*"
<1>1. <<"*", "*">> \in Seq(S \cup {"*"}) /\ Len(<<"*", "*">>) = 2 /\ p \in Seq(S \cup {"*"})
  OBVIOUS
<1>2. Len(p) \in Nat /\ \A i \in 1..2 : <<"*", "*">>[i] = "*"
  OBVIOUS
<1>3. ASSUME p[Len(p)] = "*", p[Len(p) - 1] = "*" PROVE IsSuffix(<<"*", "*">>, p)
  <2>1. ASSUME NEW i \in 1..2 PROVE p[Len(p) - 2 + i] = "*"
    <3>1. CASE i = 1
      <4>1. Len(p) - 2 + i = Len(p) - 1
        BY <3>1, <1>2
      <4> QED BY <4>1, <1>3
    <3>2. CASE i = 2
      <4>1. Len(p) - 2 + i = Len(p)
        BY <3>2, <1>2
      <4> QED BY <4>1, <1>3
    <3> QED BY <3>1, <3>2
  <2> QED BY <1>1, <1>2, <2>1, ElementsSuffix
<1>4. ASSUME p[1] = "*", p[2] = "*" PROVE IsPrefix(<<"*", "*">>, p)
  <2>1. \A i \in 1..2 : p[i] = "*"
    BY <1>4
  <2> QED BY <1>1, <1>2, <2>1, ElementsPrefix
<1> QED BY <1>3, <1>4

\* No wildcard of SQL in it.
Plain(s) == ~Contains(s, "_") /\ ~Contains(s, "%")

\* The stars at the start, and what follows them.
LEMMA InnerLiteral ==
    ASSUME NEW S, NEW q \in Seq(S), Plain(TrimStart(q))
    PROVE  \A i \in 1..Len(q) : Literal(q[i])
<1>1. PICK n \in 1..(Len(q) + 1) : /\ TrimStart(q) = SubSeq(q, n, Len(q))
                                   /\ \A i \in 1..(n - 1) : q[i] = "*"
  BY TrimStartKeeps
<1>2. ASSUME NEW i \in 1..Len(q) PROVE Literal(q[i])
  <2>1. CASE i < n
    <3>1. q[i] = "*"
      BY <1>1, <2>1
    <3>2. Literal("*")
      BY DEF Literal
    <3> QED BY <3>1, <3>2
  <2>2. CASE i >= n
    <3>1. /\ i - n + 1 \in 1..Len(SubSeq(q, n, Len(q)))
          /\ SubSeq(q, n, Len(q))[i - n + 1] = q[i]
      BY <2>2
    <3>2. i - n + 1 \in 1..Len(TrimStart(q)) /\ TrimStart(q)[i - n + 1] = q[i]
      BY <3>1, <1>1, Zenon
    <3> QED BY <3>2, Zenon DEF Contains, Literal, Plain
  <2> QED BY <2>1, <2>2
<1> QED BY <1>2

LEMMA FoldedElements ==
    ASSUME NEW S, NEW T, NEW s \in Seq(S), NEW fold, \A c \in S : fold[c] \in T
    PROVE  /\ Folded(s, fold) \in Seq(T) /\ Len(Folded(s, fold)) = Len(s)
           /\ \A i \in 1..Len(s) : Folded(s, fold)[i] = fold[s[i]]
<1>1. PICK n \in Nat : n = Len(s) /\ DOMAIN s = 1..n /\ \A i \in 1..n : s[i] \in S
  OBVIOUS
<1>2. Folded(s, fold) = [i \in 1..n |-> fold[s[i]]]
  BY <1>1 DEF Folded
<1>3. [i \in 1..n |-> fold[s[i]]] \in Seq(T)
  BY <1>1
<1> QED BY <1>1, <1>2, <1>3

\* Nothing is folded to or from the star.
KeepsStar(fold, S) == \A c \in S : fold[c] = "*" <=> c = "*"

\* A pattern with one star at most, and no wildcards and escapes of SQL,
\* matches with LIKE only what it matches, after folding.
LEMMA LikeIsGlob ==
    ASSUME NEW S, NEW key \in Seq(S), NEW pattern \in Seq(S), NEW fold, NEW escape,
           "%" \notin escape, \A i \in 1..Len(pattern) : pattern[i] \notin escape,
           Plain(TrimStart(TrimEnd(pattern))),
           ~IsSuffix(<<"*", "*">>, pattern), ~IsPrefix(<<"*", "*">>, pattern),
           KeepsStar(fold, S),
           LikeMatches(key, pattern, fold, escape)
    PROVE  GlobMatches(Folded(key, fold), Folded(pattern, fold))
<1>n. PICK n \in Nat : n = Len(pattern)
  OBVIOUS
<1>T. PICK T : \A c \in S : fold[c] \in T
  <2>1. \A c \in S : fold[c] \in {fold[d] : d \in S}
    OBVIOUS
  <2> QED BY <2>1
<1>K. PICK K \in Seq(T) : /\ K = Folded(key, fold) /\ Len(K) = Len(key)
                          /\ \A i \in 1..Len(key) : K[i] = fold[key[i]]
  BY <1>T, FoldedElements
<1>P. PICK P \in Seq(T) : /\ P = Folded(pattern, fold) /\ Len(P) = n
                          /\ \A i \in 1..n : P[i] = fold[pattern[i]]
  BY <1>n, <1>T, FoldedElements
<1>s. \A i \in 1..n : P[i] = "*" <=> pattern[i] = "*"
  <2>1. \A i \in 1..n : pattern[i] \in S
    BY <1>n
  <2> QED BY <2>1, <1>P DEF KeepsStar
<1>e. PICK e \in 0..n : /\ TrimEnd(pattern) = SubSeq(pattern, 1, e)
                        /\ \A i \in (e + 1)..n : pattern[i] = "*"
                        /\ e = 0 \/ pattern[e] # "*"
  BY <1>n, TrimEndKeeps
<1>t. /\ TrimEnd(pattern) \in Seq(S) /\ Len(TrimEnd(pattern)) = e
      /\ \A i \in 1..e : TrimEnd(pattern)[i] = pattern[i]
  BY <1>n, <1>e
<1>l. \A i \in 1..e : Literal(pattern[i])
  BY <1>t, InnerLiteral
<1>1. CASE IsSuffix(<<"*">>, pattern)
  <2>1. n >= 1 /\ pattern[n] = "*"
    BY <1>1, <1>n, EndsInStar
  <2>2. e = n - 1
    <3>1. n >= 2 => pattern[n - 1] # "*"
      BY <2>1, <1>n, OneStar
    <3>2. e # n
      BY <2>1, <1>e
    <3>3. ASSUME e < n - 1 PROVE FALSE
      <4>1. n - 1 \in (e + 1)..n /\ n >= 2
        BY <3>3, <1>n
      <4> QED BY <4>1, <3>1, <1>e
    <3> QED BY <3>2, <3>3
  <2>f. PICK f \in Seq(S) : f = TrimEnd(pattern)
    BY <1>t
  <2>3. Len(f) = e /\ \A i \in 1..e : Literal(f[i]) /\ f[i] = pattern[i]
    BY <1>l, <1>t, <2>f
  <2>q. PICK q \in Seq(S \cup {"%"}) :
           /\ q = f \o <<"%">> /\ Len(q) = Len(f) + 1 /\ q[Len(f) + 1] = "%"
           /\ \A i \in 1..Len(f) : q[i] = f[i]
    BY PercentAfter, Zenon
  <2>4. Like(key, q, fold, escape)
    BY <1>1, <2>f, <2>q DEF LikeMatches
  <2>5. ASSUME NEW j \in 1..Len(q) PROVE q[j] \notin escape
    <3>1. Len(q) = e + 1 /\ q[e + 1] = "%" /\ \A i \in 1..e : q[i] = pattern[i]
      BY <2>3, <2>q
    <3> QED BY <3>1, <1>n
  <2>6. Unescaped(key, f \o <<"%">>, fold)
    BY <2>4, <2>5, <2>q, LikeUnescaped
  <2>7. e <= Len(key) /\ \A i \in 1..e : fold[pattern[i]] = fold[key[i]]
    <3>1. Len(f) <= Len(key) /\ \A i \in 1..Len(f) : fold[f[i]] = fold[key[i]]
      <4>1. \A i \in 1..Len(f) : Literal(f[i])
        BY <2>3
      <4> QED BY <4>1, <2>6, LikePrefix
    <3> QED BY <3>1, <2>3
  <2>8. /\ Front(P) \in Seq(T) /\ Len(Front(P)) = e
        /\ \A i \in 1..e : Front(P)[i] = P[i]
    BY <2>1, <2>2, <1>P, FrontElements
  <2>9. ASSUME NEW i \in 1..e PROVE Front(P)[i] = K[i]
    <3>1. i \in 1..n /\ i \in 1..Len(key)
      BY <2>7
    <3>2. P[i] = fold[pattern[i]] /\ K[i] = fold[key[i]]
      BY <3>1, <1>K, <1>P
    <3>3. fold[pattern[i]] = fold[key[i]] /\ Front(P)[i] = P[i]
      BY <2>7, <2>8
    <3> QED BY <3>2, <3>3
  <2>10. IsPrefix(Front(P), K)
    BY <2>7, <2>8, <2>9, <1>K, ElementsPrefix
  <2>11. IsSuffix(<<"*">>, P)
    BY <2>1, <1>s, <1>P, EndsInStar
  <2> QED BY <2>10, <2>11, <1>K, <1>P DEF GlobMatches
<1>2. CASE ~IsSuffix(<<"*">>, pattern) /\ IsPrefix(<<"*">>, pattern)
  <2>1. n >= 1 /\ pattern[1] = "*" /\ pattern[n] # "*"
    BY <1>2, <1>n, EndsInStar, StartsWithStar
  <2>2. n >= 2 /\ pattern[2] # "*"
    <3>1. n # 1
      BY <2>1
    <3> QED BY <3>1, <2>1, <1>n, OneStar
  <2>3. e = n
    BY <2>1, <1>e
  <2>4. PICK m \in 1..(n + 1) : /\ TrimStart(pattern) = SubSeq(pattern, m, n)
                                /\ \A i \in 1..(m - 1) : pattern[i] = "*"
                                /\ m = n + 1 \/ pattern[m] # "*"
    BY <1>n, TrimStartKeeps
  <2>5. m = 2
    <3>1. m # 1
      BY <2>1, <2>4
    <3>2. ASSUME m > 2 PROVE FALSE
      <4>1. 2 \in 1..(m - 1)
        BY <3>2
      <4> QED BY <4>1, <2>2, <2>4
    <3> QED BY <3>1, <3>2
  <2>6. /\ SubSeq(pattern, 2, n) \in Seq(S) /\ Len(SubSeq(pattern, 2, n)) = n - 1
        /\ \A i \in 1..(n - 1) : SubSeq(pattern, 2, n)[i] = pattern[i + 1]
    BY <2>2, <1>n
  <2>f. PICK f \in Seq(S) : f = TrimStart(pattern)
    BY <2>4, <2>5, <2>6
  <2>7. Len(f) = n - 1 /\ \A i \in 1..Len(f) : Literal(f[i]) /\ f[i] = pattern[i + 1]
    BY <1>l, <2>3, <2>4, <2>5, <2>6, <2>f
  <2>q. PICK q \in Seq(S \cup {"%"}) :
           /\ q = <<"%">> \o f /\ Len(q) = Len(f) + 1 /\ q[1] = "%"
           /\ \A i \in 1..Len(f) : q[i + 1] = f[i]
    BY PercentBefore, Zenon
  <2>8. Like(key, q, fold, escape)
    BY <1>2, <2>f, <2>q DEF LikeMatches
  <2>9. ASSUME NEW j \in 1..Len(q) PROVE q[j] \notin escape
    <3>1. Len(q) = n /\ q[1] = "%"
      BY <2>2, <2>7, <2>q
    <3>2. ASSUME j # 1 PROVE q[j] = pattern[j]
      <4>1. j - 1 \in 1..Len(f) /\ (j - 1) + 1 = j /\ q[j] = f[j - 1]
        BY <3>1, <3>2, <2>2, <2>7, <2>q
      <4> QED BY <4>1, <2>7
    <3>3. j \in 1..Len(pattern)
      BY <3>1, <1>n
    <3> QED BY <3>1, <3>2, <3>3
  <2>10. Unescaped(key, <<"%">> \o f, fold)
    BY <2>8, <2>9, <2>q, LikeUnescaped
  <2>11. /\ Len(f) <= Len(key)
         /\ \A i \in 1..Len(f) : fold[f[i]] = fold[key[Len(key) - Len(f) + i]]
    <3>1. \A i \in 1..Len(f) : Literal(f[i])
      BY <2>7
    <3> QED BY <3>1, <2>10, LikeSuffix
  <2>12. /\ Tail(P) \in Seq(T) /\ Len(Tail(P)) = n - 1
         /\ \A i \in 1..(n - 1) : Tail(P)[i] = P[i + 1]
    BY <2>2, <1>P
  <2>13. ASSUME NEW i \in 1..(n - 1) PROVE Tail(P)[i] = K[Len(K) - (n - 1) + i]
    <3>1. i \in 1..Len(f) /\ i + 1 \in 1..n /\ Len(key) - (n - 1) + i \in 1..Len(key)
      BY <2>7, <2>11
    <3>2. P[i + 1] = fold[pattern[i + 1]] /\ f[i] = pattern[i + 1]
      BY <3>1, <1>P, <2>7
    <3>3. fold[f[i]] = fold[key[Len(key) - (n - 1) + i]]
      BY <3>1, <2>7, <2>11
    <3>4. K[Len(key) - (n - 1) + i] = fold[key[Len(key) - (n - 1) + i]]
      BY <3>1, <1>K
    <3> QED BY <3>2, <3>3, <3>4, <2>12, <1>K
  <2>14. IsSuffix(Tail(P), K)
    BY <2>7, <2>11, <2>12, <2>13, <1>K, ElementsSuffix
  <2>15. ~IsSuffix(<<"*">>, P) /\ IsPrefix(<<"*">>, P)
    <3>1. P[1] = "*" /\ P[n] # "*" /\ Len(P) = n
      BY <2>1, <1>s, <1>P
    <3>2. IsSuffix(<<"*">>, P) <=> Len(P) >= 1 /\ P[Len(P)] = "*"
      BY EndsInStar
    <3>3. IsPrefix(<<"*">>, P) <=> Len(P) >= 1 /\ P[1] = "*"
      BY StartsWithStar
    <3> QED BY <2>1, <3>1, <3>2, <3>3
  <2> QED BY <2>14, <2>15, <1>K, <1>P DEF GlobMatches
<1>3. CASE ~IsSuffix(<<"*">>, pattern) /\ ~IsPrefix(<<"*">>, pattern)
  BY <1>3 DEF LikeMatches, GlobMatches
<1> QED BY <1>1, <1>2, <1>3

\* What is the same without folding is the same when folded.
LEMMA LikeFolds ==
    ASSUME NEW S, NEW key \in Seq(S), NEW q \in Seq(S \cup {"%"}), NEW exact, NEW lower,
           \A i \in 1..Len(q) : \A j \in 1..Len(key) :
              q[i] # "%" /\ exact[q[i]] = exact[key[j]] => q[i] = key[j],
           Unescaped(key, q, exact)
    PROVE  Unescaped(key, q, lower)
<1>1. PICK at \in [1..Len(q) + 1 -> 1..Len(key) + 1] :
         /\ at[1] = 1 /\ at[Len(q) + 1] = Len(key) + 1
         /\ \A j \in 1..Len(q) :
               IF q[j] = "%" THEN at[j] <= at[j + 1]
               ELSE /\ at[j + 1] = at[j] + 1
                    /\ q[j] = "_" \/ exact[q[j]] = exact[key[at[j]]]
  BY DEF Unescaped
<1>2. ASSUME NEW j \in 1..Len(q), q[j] # "%", exact[q[j]] = exact[key[at[j]]]
      PROVE  lower[q[j]] = lower[key[at[j]]]
  <2>1. j \in 1..(Len(q) + 1) /\ j + 1 \in 1..(Len(q) + 1)
    OBVIOUS
  <2>n. Len(key) \in Nat
    OBVIOUS
  <2>2. /\ at[j] \in 1..(Len(key) + 1) /\ at[j + 1] \in 1..(Len(key) + 1)
        /\ at[j + 1] = at[j] + 1 /\ Len(key) \in Nat
    BY <1>1, <1>2, <2>1, <2>n, Zenon
  <2>3. at[j] \in 1..Len(key)
    BY <2>2
  <2>4. q[j] = key[at[j]]
    BY <1>2, <2>3
  <2> QED BY <2>4
<1> QED BY <1>1, <1>2 DEF Unescaped

\* Nothing is escaped where the pattern has no backslash, and then SQLite
\* matches what PostgreSQL does.
LEMMA PostgresIsSqlite ==
    ASSUME NEW S, NEW key \in Seq(S), NEW pattern \in Seq(S), NEW lower,
           ~Contains(pattern, Backslash), PostgresMatches(key, pattern)
    PROVE  SqliteMatches(key, pattern, lower)
<1>x. PICK exact : exact = [c \in Range(key) \cup Range(pattern) \cup {"%"} |-> c]
  OBVIOUS
<1>m. LikeMatches(key, pattern, exact, {Backslash})
  BY <1>x DEF PostgresMatches
<1>b. "%" # Backslash /\ \A i \in 1..Len(pattern) : pattern[i] # Backslash
  BY DEF Contains, Backslash
<1>1. ASSUME NEW q \in Seq(S \cup {"%"}), Like(key, q, exact, {Backslash}),
             \A j \in 1..Len(q) : q[j] = "%" \/ \E i \in 1..Len(pattern) : q[j] = pattern[i]
      PROVE  Like(key, q, lower, {})
  <2>1. \A j \in 1..Len(q) : q[j] \notin {Backslash} /\ q[j] \notin {}
    BY <1>1, <1>b
  <2>2. Unescaped(key, q, exact)
    BY <1>1, <2>1, LikeUnescaped
  <2>3. ASSUME NEW i \in 1..Len(q), NEW j \in 1..Len(key), q[i] # "%", exact[q[i]] = exact[key[j]]
        PROVE  q[i] = key[j]
    <3>1. q[i] \in Range(pattern) /\ key[j] \in Range(key)
      BY <1>1, <2>3 DEF Range
    <3>2. exact[q[i]] = q[i] /\ exact[key[j]] = key[j]
      BY <3>1, <1>x
    <3> QED BY <2>3, <3>2
  <2>4. Unescaped(key, q, lower)
    BY <2>2, <2>3, LikeFolds
  <2> QED BY <2>1, <2>4, LikeUnescaped
<1>2. CASE IsSuffix(<<"*">>, pattern)
  <2>n. PICK n \in 0..Len(pattern) : TrimEnd(pattern) = SubSeq(pattern, 1, n)
    BY TrimEndKeeps
  <2>f. PICK f \in Seq(S) : /\ f = TrimEnd(pattern) /\ Len(f) = n
                            /\ \A i \in 1..n : f[i] = pattern[i]
    <3>1. /\ SubSeq(pattern, 1, n) \in Seq(S) /\ Len(SubSeq(pattern, 1, n)) = n
          /\ \A i \in 1..n : SubSeq(pattern, 1, n)[i] = pattern[i]
      OBVIOUS
    <3> QED BY <3>1, <2>n
  <2>q. PICK q \in Seq(S \cup {"%"}) :
           /\ q = f \o <<"%">> /\ Len(q) = Len(f) + 1 /\ q[Len(f) + 1] = "%"
           /\ \A i \in 1..Len(f) : q[i] = f[i]
    BY PercentAfter, Zenon
  <2>1. ASSUME NEW j \in 1..Len(q)
        PROVE  q[j] = "%" \/ \E i \in 1..Len(pattern) : q[j] = pattern[i]
    <3>1. Len(q) = n + 1 /\ q[n + 1] = "%" /\ \A i \in 1..n : q[i] = pattern[i]
      BY <2>f, <2>q
    <3> QED BY <3>1
  <2>2. Like(key, q, exact, {Backslash})
    BY <1>m, <1>2, <2>f, <2>q DEF LikeMatches
  <2>3. Like(key, q, lower, {})
    BY <1>1, <2>1, <2>2
  <2> QED BY <1>2, <2>3, <2>f, <2>q DEF SqliteMatches, LikeMatches
<1>3. CASE ~IsSuffix(<<"*">>, pattern) /\ IsPrefix(<<"*">>, pattern)
  <2>n. PICK n \in 1..(Len(pattern) + 1) : TrimStart(pattern) = SubSeq(pattern, n, Len(pattern))
    BY TrimStartKeeps
  <2>f. PICK f \in Seq(S) : f = TrimStart(pattern)
    <3>1. SubSeq(pattern, n, Len(pattern)) \in Seq(S)
      OBVIOUS
    <3> QED BY <3>1, <2>n
  <2>g. \A j \in 1..Len(f) : \E i \in 1..Len(pattern) : f[j] = pattern[i]
    <3>1. Len(f) = Len(pattern) - n + 1 /\ \A j \in 1..Len(f) : f[j] = pattern[n + j - 1]
      BY <2>n, <2>f
    <3>2. \A j \in 1..Len(f) : n + j - 1 \in 1..Len(pattern)
      BY <3>1
    <3> QED BY <3>1, <3>2
  <2>q. PICK q \in Seq(S \cup {"%"}) :
           /\ q = <<"%">> \o f /\ Len(q) = Len(f) + 1 /\ q[1] = "%"
           /\ \A i \in 1..Len(f) : q[i + 1] = f[i]
    BY PercentBefore, Zenon
  <2>1. ASSUME NEW j \in 1..Len(q)
        PROVE  q[j] = "%" \/ \E i \in 1..Len(pattern) : q[j] = pattern[i]
    <3>1. ASSUME j # 1 PROVE j - 1 \in 1..Len(f) /\ (j - 1) + 1 = j
      BY <3>1, <2>q
    <3> QED BY <3>1, <2>g, <2>q
  <2>2. Like(key, q, exact, {Backslash})
    BY <1>m, <1>3, <2>f, <2>q DEF LikeMatches
  <2>3. Like(key, q, lower, {})
    BY <1>1, <2>1, <2>2
  <2> QED BY <1>3, <2>3, <2>f, <2>q DEF SqliteMatches, LikeMatches
<1>4. CASE ~IsSuffix(<<"*">>, pattern) /\ ~IsPrefix(<<"*">>, pattern)
  BY <1>m, <1>4 DEF SqliteMatches, LikeMatches
<1> QED BY <1>2, <1>3, <1>4

\* A text whose characters stand for themselves.
LEMMA FoldedExact ==
    ASSUME NEW S, NEW s \in Seq(S), NEW fold, \A i \in 1..Len(s) : fold[s[i]] = s[i]
    PROVE  Folded(s, fold) = s
<1>1. s = [i \in 1..Len(s) |-> s[i]] /\ DOMAIN s = 1..Len(s)
  OBVIOUS
<1> QED BY <1>1 DEF Folded

\* Whatever the pattern and the key, of any characters and any length, and
\* whatever characters SQLite takes for the same, but that the star is only
\* itself: the five matchers of the repository agree up to what each adds
\* (manager.rs, memory.rs, sqlite.rs, postgres.rs, handler.rs).
THEOREM MatchersAgree ==
    ASSUME NEW S, NEW key \in Seq(S), NEW pattern \in Seq(S), NEW lower,
           \A c \in S : lower[c] = "*" <=> c = "*"
    PROVE  Agree(key, pattern, lower)
<1>x. PICK exact : exact = [c \in Range(key) \cup Range(pattern) \cup {"%"} |-> c]
  OBVIOUS
<1>y. /\ \A i \in 1..Len(key) : exact[key[i]] = key[i]
      /\ \A i \in 1..Len(pattern) : exact[pattern[i]] = pattern[i]
  <2>1. /\ \A i \in 1..Len(key) : key[i] \in Range(key)
        /\ \A i \in 1..Len(pattern) : pattern[i] \in Range(pattern)
    BY DEF Range
  <2> QED BY <1>x, <2>1
<1>b. "%" # Backslash
  BY DEF Backslash
<1>1. SubscriptionMatches(key, pattern) => GlobMatches(key, pattern)
  BY DEF SubscriptionMatches, GlobMatches
<1>2. GlobMatches(key, pattern) =>
        \/ SubscriptionMatches(key, pattern)
        \/ IsPrefix(<<"*">>, pattern) /\ ~IsSuffix(<<"*">>, pattern)
  BY DEF SubscriptionMatches, GlobMatches
<1>3. GlobMatches(key, pattern) => SqliteMatches(key, pattern, lower)
  BY GlobIsLike DEF SqliteMatches
<1>4. ASSUME GlobMatches(key, pattern), ~Contains(key, Backslash)
      PROVE  PostgresMatches(key, pattern)
  <2>1. \A i \in 1..Len(key) : key[i] \notin {Backslash}
    BY <1>4 DEF Contains
  <2>2. LikeMatches(key, pattern, exact, {Backslash})
    BY <1>4, <1>b, <2>1, GlobIsLike
  <2> QED BY <2>2, <1>x DEF PostgresMatches
<1>5. ASSUME Plain(TrimStart(TrimEnd(pattern))),
             ~IsSuffix(<<"*", "*">>, pattern), ~IsPrefix(<<"*", "*">>, pattern),
             SqliteMatches(key, pattern, lower)
      PROVE  GlobMatches(Folded(key, lower), Folded(pattern, lower))
  BY <1>5, LikeIsGlob DEF SqliteMatches, KeepsStar
<1>6. ASSUME ~Contains(pattern, Backslash), PostgresMatches(key, pattern)
      PROVE  SqliteMatches(key, pattern, lower)
  BY <1>6, PostgresIsSqlite
<1>7. ASSUME Plain(TrimStart(TrimEnd(pattern))),
             ~IsSuffix(<<"*", "*">>, pattern), ~IsPrefix(<<"*", "*">>, pattern),
             ~Contains(pattern, Backslash), PostgresMatches(key, pattern)
      PROVE  GlobMatches(key, pattern)
  <2>1. \A i \in 1..Len(pattern) : pattern[i] \notin {Backslash}
    BY <1>7 DEF Contains
  <2>2. LikeMatches(key, pattern, exact, {Backslash})
    BY <1>7, <1>x DEF PostgresMatches
  <2>R. PICK R : R = Range(key) \cup Range(pattern)
    OBVIOUS
  <2>3. key \in Seq(R) /\ pattern \in Seq(R) /\ \A c \in R : exact[c] = c
    <3>1. \A i \in 1..Len(key) : key[i] \in R
      BY <2>R DEF Range
    <3>2. \A i \in 1..Len(pattern) : pattern[i] \in R
      BY <2>R DEF Range
    <3>3. key = [i \in 1..Len(key) |-> key[i]] /\ pattern = [i \in 1..Len(pattern) |-> pattern[i]]
      OBVIOUS
    <3>4. Len(key) \in Nat /\ Len(pattern) \in Nat
      OBVIOUS
    <3>5. key \in Seq(R)
      BY <3>1, <3>3, <3>4
    <3>6. pattern \in Seq(R)
      BY <3>2, <3>3, <3>4
    <3>7. \A c \in R : exact[c] = c
      BY <2>R, <1>x
    <3> QED BY <3>5, <3>6, <3>7
  <2>4. GlobMatches(Folded(key, exact), Folded(pattern, exact))
    <3>1. KeepsStar(exact, R)
      BY <2>3 DEF KeepsStar
    <3> QED BY <1>7, <1>b, <2>1, <2>2, <2>3, <3>1, LikeIsGlob
  <2>5. Folded(key, exact) = key /\ Folded(pattern, exact) = pattern
    BY <1>y, FoldedExact
  <2> QED BY <2>4, <2>5
<1> QED BY <1>1, <1>2, <1>3, <1>4, <1>5, <1>6, <1>7, Zenon DEF Agree, Plain
-----------------------------------------------------------------------------
\* Every backend lists what the memory storage lists, and nothing the storages
\* on SQL both do not.
LEMMA ListingsBetween ==
    ASSUME NEW b \in Kinds, NEW p \in Patterns
    PROVE  Must[p] \subseteq Matched[b][p] /\ Matched[b][p] \subseteq May[p]
<1>1. \A a \in Kinds : Matched[a][p] = {k \in Ids : MatchesIn(a, k, p)}
  BY DEF Matched
<1>2. "memory" \in Kinds /\ "sqlite" \in Kinds /\ "postgres" \in Kinds
  BY DEF Kinds
<1>3. ASSUME NEW k \in Ids
      PROVE  MatchesIn("memory", k, p) =>
               MatchesIn("sqlite", k, p) /\ MatchesIn("postgres", k, p)
  <2>1. k \in Seq(DOMAIN Lower) /\ p \in Seq(DOMAIN Lower)
    BY CharAssumption
  <2>2. \A i \in 1..Len(k) : k[i] \notin {Backslash}
    BY CharAssumption DEF Contains
  <2>3. "%" # Backslash
    BY DEF Backslash
  <2>4. GlobMatches(k, p) => SqliteMatches(k, p, Lower) /\ PostgresMatches(k, p)
    BY <2>1, <2>2, <2>3, GlobIsLike DEF SqliteMatches, PostgresMatches
  <2> QED BY <2>4 DEF MatchesIn
<1>4. Must[p] \subseteq Matched["sqlite"][p] /\ Must[p] \subseteq Matched["postgres"][p]
  BY <1>1, <1>2, <1>3 DEF Must
<1>5. May[p] = Matched["sqlite"][p] \cup Matched["postgres"][p]
  BY DEF May
<1> QED BY <1>4, <1>5 DEF Kinds, Must
-----------------------------------------------------------------------------
(***************************************************************************)
(* The invariant the refinement needs: types, and what the place a call is *)
(* at says about the call.                                                 *)
(***************************************************************************)
NoOp == [do |-> "none"]

TaskRecord == [op : Contract!Operations \cup {NoOp}, todo : SUBSET Ids, found : SUBSET Ids,
               answer : {Pending, "ok", "found", "missing", "failed", NoRow} \cup Rows,
               at : {"idle", "start", "add", "insert", "sub", "size", "done"},
               row : Rows \cup {NoRow}, size : Nat]

Sound(t) ==
    /\ t.at = "idle" => t = Idle
    /\ t.op.do = "none" => t.at = "idle"
    /\ t.at \in {"start", "add", "insert", "size"} => t.answer = Pending
    /\ t.at \in {"sub", "done"} => t.answer # Pending
    /\ t.at \in {"add", "insert"} => backend = "memory" /\ t.op.do = "store"
    /\ t.at = "sub" => backend = "memory" /\ t.op.do = "delete" /\ t.row \in Rows
    /\ t.at = "size" => t.op.do = "stats" /\ t.todo = {}

TypeOK ==
    /\ backend \in Kinds
    /\ table \in [Ids -> Rows \cup {NoRow}]
    /\ total \in Nat
    /\ task \in [Callers -> TaskRecord]
    /\ overlapped \in BOOLEAN
    /\ IsFiniteSet(Bytes)

IInv == TypeOK /\ \A c \in Callers : Sound(task[c])

LEMMA OpFields ==
    ASSUME NEW op \in Contract!Operations \cup {NoOp}
    PROVE  /\ op.do \in {"store", "load", "delete", "exists", "list", "stats", "none"}
           /\ op.do = "none" <=> op = NoOp
           /\ op.do \in {"store", "load", "delete", "exists"} => op.id \in Ids
           /\ op.do = "store" => op.row \in Rows
           /\ op.do = "list" => op.pattern \in Patterns
  BY DEF Contract!Operations, NoOp

LEMMA IdleTyped == Idle \in TaskRecord /\ Sound(Idle)
  BY DEF Idle, AtStep, Contract!NoCall, TaskRecord, NoOp, Sound, Pending, Contract!Pending

\* The numbers 1..n, each with the same mark, are n elements.
LEMMA Column ==
    ASSUME NEW x, NEW n \in Nat
    PROVE  IsFiniteSet({x} \X (1..n)) /\ Cardinality({x} \X (1..n)) = n
<1> DEFINE f == [i \in 1..n |-> <<x, i>>]
<1>1. f \in [1..n -> {x} \X (1..n)]
  OBVIOUS
<1>2. \A i, j \in 1..n : f[i] = f[j] => i = j
  OBVIOUS
<1>3. \A p \in {x} \X (1..n) : \E i \in 1..n : f[i] = p
  OBVIOUS
<1> HIDE DEF f
<1>4. f \in Bijection(1..n, {x} \X (1..n))
  BY <1>1, <1>2, <1>3, Fun_IsBij
<1>5. ExistsBijection(1..n, {x} \X (1..n))
  BY <1>4 DEF ExistsBijection
<1> QED BY <1>5, FS_NatBijection, FS_CountingElements

LEMMA CardinalityDisjoint ==
    ASSUME NEW S, NEW T, IsFiniteSet(S), IsFiniteSet(T), S \cap T = {}
    PROVE  IsFiniteSet(S \cup T) /\ Cardinality(S \cup T) = Cardinality(S) + Cardinality(T)
<1>1. /\ IsFiniteSet(S \cup T)
      /\ Cardinality(S \cup T) = Cardinality(S) + Cardinality(T) - Cardinality(S \cap T)
  BY FS_Union
<1>2. Cardinality(S \cap T) = 0 /\ Cardinality(S) \in Nat /\ Cardinality(T) \in Nat
  BY FS_EmptySet, FS_CardinalityType
<1> QED BY <1>1, <1>2

LEMMA CardinalityWithout ==
    ASSUME NEW S, NEW T, IsFiniteSet(S), T \subseteq S
    PROVE  IsFiniteSet(S \ T) /\ Cardinality(S \ T) = Cardinality(S) - Cardinality(T)
<1>1. S \cap T = T
  OBVIOUS
<1>2. IsFiniteSet(S \ T) /\ Cardinality(S \ T) = Cardinality(S) - Cardinality(S \cap T)
  BY FS_Difference
<1> QED BY <1>1, <1>2

LEMMA SizeTyped == \A r \in Rows \cup {NoRow} : SizeOf(r) \in Nat
  BY SizeAssumption DEF SizeOf

\* Columns of different heights: one that changes changes the sum of them.
Columns(S, f) == UNION {{k} \X (1..f[k]) : k \in S}

LEMMA ColumnsChange ==
    ASSUME NEW S, NEW f \in [S -> Nat], IsFiniteSet(Columns(S, f)),
           NEW k \in S, NEW g \in [S -> Nat], \A j \in S \ {k} : g[j] = f[j]
    PROVE  /\ IsFiniteSet(Columns(S, g))
           /\ Cardinality(Columns(S, g)) = Cardinality(Columns(S, f)) - f[k] + g[k]
<1> DEFINE All == Columns(S, f)
           Old == {k} \X (1..f[k])
           New == {k} \X (1..g[k])
           Rest == All \ Old
<1>1. /\ IsFiniteSet(Old) /\ Cardinality(Old) = f[k]
      /\ IsFiniteSet(New) /\ Cardinality(New) = g[k]
  BY Column
<1>2. \A p : p \in All <=> \E j \in S : p \in {j} \X (1..f[j])
  BY DEF Columns
<1>3. \A p : p \in Columns(S, g) <=> \E j \in S : p \in {j} \X (1..g[j])
  BY DEF Columns
<1>4. \A j \in S : j # k => g[j] = f[j]
  OBVIOUS
<1> HIDE DEF All
<1>5. Old \subseteq All
  BY <1>2
<1>6. \A p \in Rest : p \notin New
  <2> SUFFICES ASSUME NEW p \in Rest, p \in New PROVE FALSE
    OBVIOUS
  <2>1. PICK j \in S : p \in {j} \X (1..f[j])
    BY <1>2
  <2>2. j = k
    BY <2>1
  <2> QED BY <2>1, <2>2
<1>7. Columns(S, g) = Rest \cup New
  <2>1. ASSUME NEW p \in Columns(S, g) PROVE p \in Rest \cup New
    <3>1. PICK j \in S : p \in {j} \X (1..g[j])
      BY <1>3
    <3>2. CASE j = k
      BY <3>1, <3>2, <1>4
    <3>3. CASE j # k
      BY <3>1, <3>3, <1>4, <1>2
    <3> QED BY <3>2, <3>3
  <2>2. ASSUME NEW p \in New PROVE p \in Columns(S, g)
    BY <1>3, <1>4
  <2>3. ASSUME NEW p \in Rest PROVE p \in Columns(S, g)
    <3>1. PICK j \in S : p \in {j} \X (1..f[j])
      BY <1>2
    <3>2. j # k
      BY <3>1
    <3> QED BY <3>1, <3>2, <1>3, <1>4
  <2> QED BY <2>1, <2>2, <2>3
<1>8. IsFiniteSet(Rest) /\ Cardinality(Rest) = Cardinality(All) - Cardinality(Old)
  BY <1>5, CardinalityWithout DEF All
<1>9. /\ IsFiniteSet(Rest \cup New)
      /\ Cardinality(Rest \cup New) = Cardinality(Rest) + Cardinality(New)
  <2>1. Rest \cap New = {}
    BY <1>6
  <2> HIDE DEF Rest, New
  <2> QED BY <1>1, <1>8, <2>1, CardinalityDisjoint
<1>10. Cardinality(All) \in Nat
  BY FS_CardinalityType DEF All
<1> HIDE DEF Old, New, Rest
<1>11. /\ IsFiniteSet(Columns(S, g))
       /\ Cardinality(Columns(S, g)) = Cardinality(All) - f[k] + g[k]
  BY <1>1, <1>7, <1>8, <1>9, <1>10
<1> QED BY <1>11 DEF All

LEMMA NoColumns ==
    ASSUME NEW S, NEW f \in [S -> Nat], \A k \in S : f[k] = 0
    PROVE  IsFiniteSet(Columns(S, f)) /\ Cardinality(Columns(S, f)) = 0
<1>1. Columns(S, f) = {}
  BY DEF Columns
<1> QED BY <1>1, FS_EmptySet

\* The table grows and shrinks by the sizes of the rows that come and go.
LEMMA BytesChange ==
    ASSUME table \in [Ids -> Rows \cup {NoRow}], IsFiniteSet(Bytes),
           NEW k \in Ids, NEW r \in Rows \cup {NoRow}, table' = [table EXCEPT ![k] = r]
    PROVE  IsFiniteSet(Bytes') /\ TableSize' = TableSize - SizeOf(table[k]) + SizeOf(r)
<1> DEFINE f == [j \in Ids |-> SizeOf(table[j])]
           g == [j \in Ids |-> SizeOf(table'[j])]
<1>1. f \in [Ids -> Nat] /\ SizeOf(r) \in Nat /\ f[k] = SizeOf(table[k])
  BY SizeTyped
<1>2. g \in [Ids -> Nat] /\ g[k] = SizeOf(r) /\ \A j \in Ids \ {k} : g[j] = f[j]
  BY SizeTyped
<1>3. Bytes = Columns(Ids, f) /\ Bytes' = Columns(Ids, g)
  BY DEF Bytes, Columns, SizeOf
<1> HIDE DEF f, g
<1>4. /\ IsFiniteSet(Columns(Ids, g))
      /\ Cardinality(Columns(Ids, g)) = Cardinality(Columns(Ids, f)) - f[k] + g[k]
  <2>1. IsFiniteSet(Columns(Ids, f))
    BY <1>3
  <2> QED BY <1>1, <1>2, <2>1, ColumnsChange
<1>5. TableSize = Cardinality(Columns(Ids, f)) /\ TableSize' = Cardinality(Columns(Ids, g))
  BY <1>3 DEF TableSize
<1> QED BY <1>1, <1>2, <1>3, <1>4, <1>5
-----------------------------------------------------------------------------
\* What one caller's record becomes, and what its call looks like.
Shown(t) == [op |-> t.op, todo |-> t.todo, found |-> t.found, answer |-> t.answer]

LEMMA Becomes ==
    ASSUME IInv, backend' = backend, NEW c \in Callers, NEW t \in TaskRecord,
           task' = [task EXCEPT ![c] = t], Sound(t)
    PROVE  /\ task' \in [Callers -> TaskRecord]
           /\ \A d \in Callers : Sound(task[d])'
           /\ Calls' = [Calls EXCEPT ![c] = Shown(t)]
<1>1. task' \in [Callers -> TaskRecord] /\ \A d \in Callers : task'[d] = IF d = c THEN t ELSE task[d]
  BY DEF IInv, TypeOK
<1>2. ASSUME NEW d \in Callers PROVE Sound(task[d])'
  <2>1. Sound(task'[d])
    BY <1>1 DEF IInv
  <2> QED BY <2>1 DEF Sound
<1>3. Calls' = [Calls EXCEPT ![c] = Shown(t)]
  BY <1>1 DEF Calls, Shown
<1> QED BY <1>1, <1>2, <1>3

LEMMA CallsAre ==
    ASSUME IInv, NEW c \in Callers
    PROVE  /\ Calls[c] = Shown(task[c])
           /\ Calls[c].op = task[c].op /\ Calls[c].todo = task[c].todo
           /\ Calls[c].found = task[c].found /\ Calls[c].answer = task[c].answer
           /\ task[c] \in TaskRecord /\ Sound(task[c])
  BY DEF IInv, TypeOK, Calls, Shown

LEMMA InitIInv == Init => IInv
<1> SUFFICES ASSUME Init PROVE IInv
  OBVIOUS
<1>1. Bytes = {}
  BY DEF Init, Bytes, SizeOf
<1>2. IsFiniteSet(Bytes)
  BY <1>1, FS_EmptySet
<1>3. task \in [Callers -> TaskRecord] /\ \A c \in Callers : Sound(task[c])
  BY IdleTyped DEF Init
<1> QED BY <1>2, <1>3 DEF Init, IInv, TypeOK

LEMMA InitMaps == Init => Contract!Init
  BY DEF Init, Contract!Init, Calls, Idle, AtStep, Contract!NoCall

LEMMA WrapTyped == \A n \in Int : Wrap(n) \in Nat
  BY SizeAssumption DEF Wrap

\* A step that changes one caller's record, and at most one row.
LEMMA StepOf ==
    ASSUME IInv, NEW c \in Callers, NEW t \in TaskRecord, Sound(t),
           task' = [task EXCEPT ![c] = t],
           backend' = backend, total' \in Nat, overlapped' \in BOOLEAN,
           \/ table' = table
           \/ \E k \in Ids, r \in Rows \cup {NoRow} : table' = [table EXCEPT ![k] = r]
    PROVE  IInv' /\ Calls' = [Calls EXCEPT ![c] = Shown(t)]
<1>1. /\ task' \in [Callers -> TaskRecord]
      /\ \A d \in Callers : Sound(task[d])'
      /\ Calls' = [Calls EXCEPT ![c] = Shown(t)]
  BY Becomes
<1>2. table' \in [Ids -> Rows \cup {NoRow}] /\ IsFiniteSet(Bytes')
  <2>1. CASE table' = table
    BY <2>1 DEF IInv, TypeOK, Bytes
  <2>2. ASSUME NEW k \in Ids, NEW r \in Rows \cup {NoRow}, table' = [table EXCEPT ![k] = r]
        PROVE  table' \in [Ids -> Rows \cup {NoRow}] /\ IsFiniteSet(Bytes')
    BY <2>2, BytesChange DEF IInv, TypeOK
  <2> QED BY <2>1, <2>2
<1>3. backend' \in Kinds
  BY DEF IInv, TypeOK
<1> QED BY <1>1, <1>2, <1>3 DEF IInv, TypeOK

\* The rows and the calls, as the trait sees them.
Seen == <<table, Calls>>

\* A step the callers cannot see.
LEMMA Hidden ==
    ASSUME IInv, NEW c \in Callers, NEW t, Shown(t) = Shown(task[c]),
           Calls' = [Calls EXCEPT ![c] = Shown(t)], table' = table
    PROVE  UNCHANGED Seen
<1>1. Calls[c] = Shown(t) /\ Calls' = Calls
  BY CallsAre DEF Calls
<1> QED BY <1>1 DEF Seen

Steps == IInv' /\ [Contract!Step]_Seen

LEMMA BeginSteps ==
    ASSUME IInv, NEW c \in Callers, NEW op \in Contract!Operations, Begin(c, op)
    PROVE  Steps
<1> DEFINE t == Task(op)
<1>1. /\ t \in TaskRecord /\ Sound(t)
      /\ Shown(t) = Contract!Call(op) /\ Shown(Idle) = Contract!NoCall
  <2>1. t = [op |-> op, todo |-> IF Contract!Scans(op) THEN Ids ELSE {}, found |-> {},
             answer |-> Pending, at |-> "start", row |-> NoRow, size |-> 0]
    BY DEF Task, AtStep, Contract!Call, Pending
  <2>2. op.do # "none"
    BY DEF Contract!Operations
  <2>3. t \in TaskRecord
    BY <2>1 DEF TaskRecord
  <2>4. Sound(t)
    BY <2>1, <2>2 DEF Sound
  <2>5. Shown(t) = Contract!Call(op) /\ Shown(Idle) = Contract!NoCall
    BY <2>1 DEF Idle, AtStep, Contract!Call, Contract!NoCall, Shown, Pending
  <2> QED BY <2>3, <2>4, <2>5
<1>2. total' \in Nat /\ overlapped' \in BOOLEAN
  BY DEF Begin, IInv, TypeOK
<1>3. IInv' /\ Calls' = [Calls EXCEPT ![c] = Shown(t)]
  BY <1>1, <1>2, StepOf DEF Begin
<1>4. Calls[c] = Contract!NoCall
  BY <1>1, CallsAre DEF Begin
<1>5. Contract!Begin(c, op)
  BY <1>1, <1>3, <1>4 DEF Contract!Begin, Begin
<1> QED BY <1>3, <1>5 DEF Steps, Contract!Step

LEMMA ReturnSteps ==
    ASSUME IInv, NEW c \in Callers, Return(c)
    PROVE  Steps
<1>1. Shown(Idle) = Contract!NoCall
  BY DEF Idle, AtStep, Contract!NoCall, Shown
<1>2. total' \in Nat /\ overlapped' \in BOOLEAN
  BY DEF Return, IInv, TypeOK
<1>3. IInv' /\ Calls' = [Calls EXCEPT ![c] = Contract!NoCall]
  BY <1>1, <1>2, IdleTyped, StepOf DEF Return
<1>4. Calls[c].answer # Contract!Pending
  <2>1. task[c].answer # Pending
    BY CallsAre DEF Return, Sound
  <2>2. Calls[c].answer = task[c].answer
    BY CallsAre
  <2> QED BY <2>1, <2>2 DEF Pending
<1>5. Contract!Return(c)
  BY <1>3, <1>4 DEF Contract!Return, Return
<1> QED BY <1>3, <1>5 DEF Steps, Contract!Step

LEMMA MemoryStoreSubSteps ==
    ASSUME IInv, NEW c \in Callers, MemoryStoreSub(c)
    PROVE  Steps
<1> DEFINE t == [task[c] EXCEPT !.at = "add"]
<1>1. task[c] \in TaskRecord /\ Sound(task[c]) /\ task[c].at = "start" /\ task[c].op.do = "store"
  BY CallsAre DEF MemoryStoreSub, At
<1>2. t \in TaskRecord /\ Sound(t) /\ Shown(t) = Shown(task[c])
  BY <1>1 DEF TaskRecord, Sound, Shown, MemoryStoreSub
<1>3. total' \in Nat /\ overlapped' \in BOOLEAN
  <2>1. Id(c) \in Ids
    BY <1>1, OpFields DEF Id, TaskRecord
  <2>2. table[Id(c)] \in Rows \cup {NoRow}
    BY <2>1 DEF IInv, TypeOK
  <2>3. total - SizeOf(table[Id(c)]) \in Int
    BY <2>2, SizeTyped DEF IInv, TypeOK
  <2> QED BY <2>3, WrapTyped DEF MemoryStoreSub, IInv, TypeOK
<1>4. IInv' /\ Calls' = [Calls EXCEPT ![c] = Shown(t)]
  BY <1>2, <1>3, StepOf DEF MemoryStoreSub, Goto
<1>5. UNCHANGED Seen
  BY <1>2, <1>4, Hidden DEF MemoryStoreSub
<1> QED BY <1>4, <1>5 DEF Steps

LEMMA MemoryStoreAddSteps ==
    ASSUME IInv, NEW c \in Callers, MemoryStoreAdd(c)
    PROVE  Steps
<1> DEFINE t == [task[c] EXCEPT !.at = "insert"]
<1>1. task[c] \in TaskRecord /\ Sound(task[c]) /\ task[c].at = "add" /\ task[c].op.do = "store"
  BY CallsAre DEF MemoryStoreAdd, At
<1>2. t \in TaskRecord /\ Sound(t) /\ Shown(t) = Shown(task[c])
  BY <1>1 DEF TaskRecord, Sound, Shown
<1>3. total' \in Nat /\ overlapped' \in BOOLEAN
  <2>1. task[c].op.row \in Rows
    BY <1>1, OpFields DEF TaskRecord
  <2>2. total + RowSize[task[c].op.row] \in Int
    BY <2>1, SizeAssumption DEF IInv, TypeOK
  <2> QED BY <2>2, WrapTyped DEF MemoryStoreAdd, IInv, TypeOK
<1>4. IInv' /\ Calls' = [Calls EXCEPT ![c] = Shown(t)]
  BY <1>2, <1>3, StepOf DEF MemoryStoreAdd, Goto
<1>5. UNCHANGED Seen
  BY <1>2, <1>4, Hidden DEF MemoryStoreAdd
<1> QED BY <1>4, <1>5 DEF Steps

LEMMA AnsweredTyped ==
    ASSUME NEW A, NEW B, NEW C, NEW D, NEW E, NEW F, NEW G,
           NEW r \in [op : A, todo : B, found : C, answer : D, at : E, row : F, size : G],
           NEW a \in D, NEW p \in E
    PROVE  [r EXCEPT !.answer = a, !.at = p]
             \in [op : A, todo : B, found : C, answer : D, at : E, row : F, size : G]
  OBVIOUS

\* A step that gives a call its answer.
LEMMA DoneSteps ==
    ASSUME IInv, NEW c \in Callers, task[c].op.do # "none",
           NEW a \in {"ok", "found", "missing", "failed", NoRow} \cup Rows,
           Done(c, a), backend' = backend, total' \in Nat, overlapped' \in BOOLEAN,
           \/ table' = table
           \/ \E k \in Ids, r \in Rows \cup {NoRow} : table' = [table EXCEPT ![k] = r]
    PROVE  IInv' /\ Contract!Answer(c, a)
<1> DEFINE t == [task[c] EXCEPT !.answer = a, !.at = "done"]
<1>1. a # Pending
  BY NoRowAssumption DEF Pending, Contract!Pending
<1>2. t \in TaskRecord
  <2>1. task[c] \in TaskRecord
    BY CallsAre
  <2>2. t \in TaskRecord
    BY <2>1, AnsweredTyped DEF TaskRecord
  <2> QED BY <2>2
<1>3. t.op = task[c].op /\ t.answer = a /\ t.at = "done"
  BY CallsAre DEF TaskRecord
<1>4. Sound(t)
  BY <1>1, <1>3 DEF Sound
<1>5. Shown(t) = [Calls[c] EXCEPT !.answer = a]
  <2>1. Shown(t) = [op |-> task[c].op, todo |-> task[c].todo, found |-> task[c].found, answer |-> a]
    BY CallsAre DEF TaskRecord, Shown
  <2>2. Calls[c] = [op |-> task[c].op, todo |-> task[c].todo, found |-> task[c].found,
                    answer |-> task[c].answer]
    BY CallsAre DEF Shown
  <2> HIDE DEF t
  <2> QED BY <2>1, <2>2
<1>6. task' = [task EXCEPT ![c] = t]
  BY DEF Done
<1> HIDE DEF t
<1>7. IInv' /\ Calls' = [Calls EXCEPT ![c] = Shown(t)]
  BY <1>2, <1>4, <1>6, StepOf
<1> QED BY <1>5, <1>7 DEF Contract!Answer

\* The id and the row of a call, and that it waits for its answer.
LEMMA CallOf ==
    ASSUME IInv, NEW c \in Callers
    PROVE  /\ task[c].op.do \in {"store", "load", "delete", "exists"} =>
                Id(c) \in Ids /\ Id(c) = Calls[c].op.id /\ table[Id(c)] \in Rows \cup {NoRow}
           /\ task[c].op.do = "store" =>
                task[c].op.row \in Rows /\ task[c].op.row = Calls[c].op.row
           /\ \A ops : task[c].op.do \in ops /\ task[c].at \in {"start", "add", "insert", "size"} =>
                Contract!Running(c, ops)
           /\ Found(c) \in {"found", "missing"}
<1>1. task[c].op \in Contract!Operations \cup {NoOp} /\ Sound(task[c])
  BY CallsAre DEF TaskRecord
<1>2. task[c].op.do \in {"store", "load", "delete", "exists"} =>
        Id(c) \in Ids /\ Id(c) = Calls[c].op.id
  BY <1>1, OpFields, CallsAre DEF Id
<1>3. task[c].op.do = "store" => task[c].op.row \in Rows /\ task[c].op.row = Calls[c].op.row
  BY <1>1, OpFields, CallsAre
<1>4. ASSUME NEW ops, task[c].op.do \in ops, task[c].at \in {"start", "add", "insert", "size"}
      PROVE  Contract!Running(c, ops)
  BY <1>1, <1>4, CallsAre DEF Sound, Contract!Running, Pending
<1>5. \A k \in Ids : table[k] \in Rows \cup {NoRow}
  BY DEF IInv, TypeOK
<1> QED BY <1>2, <1>3, <1>4, <1>5 DEF Found

LEMMA MemoryStoreInsertSteps ==
    ASSUME IInv, NEW c \in Callers, MemoryStoreInsert(c)
    PROVE  Steps
<1>1. task[c].op.do = "store" /\ task[c].at = "insert"
  BY DEF MemoryStoreInsert, At
<1>2. Id(c) \in Ids /\ task[c].op.row \in Rows
  BY <1>1, CallOf
<1>3. total' \in Nat /\ overlapped' \in BOOLEAN
  BY DEF MemoryStoreInsert, IInv, TypeOK
<1>4. IInv' /\ Contract!Answer(c, "ok")
  BY <1>1, <1>2, <1>3, DoneSteps DEF MemoryStoreInsert
<1>5. Contract!Put(c)
  BY <1>1, <1>4, CallOf DEF Contract!Put, MemoryStoreInsert
<1> QED BY <1>4, <1>5 DEF Steps, Contract!Step

LEMMA SqlStoreSteps ==
    ASSUME IInv, NEW c \in Callers, SqlStore(c)
    PROVE  Steps
<1>1. task[c].op.do = "store" /\ task[c].at = "start"
  BY DEF SqlStore, At
<1>2. Id(c) \in Ids /\ task[c].op.row \in Rows
  BY <1>1, CallOf
<1>3. total' \in Nat /\ overlapped' \in BOOLEAN
  BY DEF SqlStore, IInv, TypeOK
<1>4. IInv' /\ Contract!Answer(c, "ok")
  BY <1>1, <1>2, <1>3, DoneSteps DEF SqlStore
<1>5. Contract!Put(c)
  BY <1>1, <1>4, CallOf DEF Contract!Put, SqlStore
<1> QED BY <1>4, <1>5 DEF Steps, Contract!Step

LEMMA SqlDeleteSteps ==
    ASSUME IInv, NEW c \in Callers, SqlDelete(c)
    PROVE  Steps
<1>1. task[c].op.do = "delete" /\ task[c].at = "start"
  BY DEF SqlDelete, At
<1>2. Id(c) \in Ids /\ Found(c) \in {"found", "missing"}
  BY <1>1, CallOf
<1>3. total' \in Nat /\ overlapped' \in BOOLEAN
  BY DEF SqlDelete, IInv, TypeOK
<1>4. IInv' /\ Contract!Answer(c, Found(c))
  BY <1>1, <1>2, <1>3, DoneSteps DEF SqlDelete
<1>5. Contract!Remove(c)
  BY <1>1, <1>4, CallOf DEF Contract!Remove, SqlDelete, Found, Present
<1> QED BY <1>4, <1>5 DEF Steps, Contract!Step

LEMMA SqlErrorSteps ==
    ASSUME IInv, NEW c \in Callers, SqlError(c)
    PROVE  Steps
<1>1. task[c].at \in {"start", "size"} /\ task[c].op.do # "none"
  BY CallsAre DEF SqlError, Sound
<1>2. \/ table' = table
      \/ /\ task[c].op.do = "store" /\ Id(c) \in Ids /\ task[c].op.row \in Rows
         /\ table' = [table EXCEPT ![Id(c)] = task[c].op.row]
      \/ /\ task[c].op.do = "delete" /\ Id(c) \in Ids
         /\ table' = [table EXCEPT ![Id(c)] = NoRow]
  BY CallOf DEF SqlError
<1>3. total' \in Nat /\ overlapped' \in BOOLEAN
  BY DEF SqlError, IInv, TypeOK
<1>4. IInv' /\ Contract!Answer(c, "failed")
  BY <1>1, <1>2, <1>3, DoneSteps DEF SqlError
<1>5. Calls[c] # Contract!NoCall /\ Calls[c].answer = Contract!Pending
  BY <1>1, CallsAre DEF Contract!NoCall, Sound, Pending
<1>6. Contract!Fail(c)
  BY <1>1, <1>2, <1>4, <1>5, CallOf DEF Contract!Fail
<1> QED BY <1>4, <1>6 DEF Steps, Contract!Step

LEMMA LookSteps ==
    ASSUME IInv, NEW c \in Callers, Load(c) \/ Exists(c)
    PROVE  Steps
<1>1. total' \in Nat /\ overlapped' \in BOOLEAN /\ backend' = backend /\ table' = table
  BY DEF Load, Exists, IInv, TypeOK
<1>2. CASE Load(c)
  <2>1. task[c].op.do = "load" /\ task[c].at = "start"
    BY <1>2 DEF Load, At
  <2>2. IInv' /\ Contract!Answer(c, table[Id(c)])
    BY <1>1, <1>2, <2>1, CallOf, DoneSteps DEF Load
  <2>3. Calls[c].op.do = "load"
    BY <2>1, CallsAre
  <2>4. Contract!Running(c, {"load", "exists"}) /\ Calls[c].op.id = Id(c)
    BY <2>1, CallOf
  <2>5. Contract!Look(c)
    BY <1>1, <2>2, <2>3, <2>4 DEF Contract!Look
  <2> QED BY <2>2, <2>5 DEF Steps, Contract!Step
<1>3. CASE Exists(c)
  <2>1. task[c].op.do = "exists" /\ task[c].at = "start"
    BY <1>3 DEF Exists, At
  <2>2. IInv' /\ Contract!Answer(c, Found(c))
    BY <1>1, <1>3, <2>1, CallOf, DoneSteps DEF Exists
  <2>3. Calls[c].op.do = "exists"
    BY <2>1, CallsAre
  <2>4. Contract!Look(c)
    BY <1>1, <2>1, <2>2, <2>3, CallOf DEF Contract!Look, Found, Present
  <2> QED BY <2>2, <2>4 DEF Steps, Contract!Step
<1> QED BY <1>2, <1>3

\* Both accesses of a delete: the caller sees the first.
LEMMA MemoryDeleteSteps ==
    ASSUME IInv, NEW c \in Callers, MemoryDelete(c)
    PROVE  Steps
<1> DEFINE t == [task[c] EXCEPT !.answer = Found(c), !.row = table[Id(c)],
                                !.at = IF Id(c) \in Present THEN "sub" ELSE "done"]
<1>1. /\ task[c] \in TaskRecord /\ Sound(task[c])
      /\ task[c].op.do = "delete" /\ task[c].at = "start" /\ backend = "memory"
  BY CallsAre DEF MemoryDelete, At
<1>2. /\ Id(c) \in Ids /\ Found(c) \in {"found", "missing"}
      /\ Id(c) = Calls[c].op.id /\ table[Id(c)] \in Rows \cup {NoRow}
      /\ Contract!Running(c, {"delete"})
  BY <1>1, CallOf
<1>3. Id(c) \in Present <=> table[Id(c)] # NoRow
  BY <1>2 DEF Present, Contract!Present
<1>4. t \in TaskRecord
  BY <1>1, <1>2 DEF TaskRecord
<1>5. /\ t.op = task[c].op /\ t.answer = Found(c) /\ t.row = table[Id(c)]
      /\ t.at = IF Id(c) \in Present THEN "sub" ELSE "done"
  BY <1>1 DEF TaskRecord
<1>6. Sound(t)
  BY <1>1, <1>2, <1>3, <1>5 DEF Sound, Pending, Contract!Pending
<1>7. Shown(t) = [Calls[c] EXCEPT !.answer = Found(c)]
  <2>1. Shown(t) = [op |-> task[c].op, todo |-> task[c].todo, found |-> task[c].found,
                    answer |-> Found(c)]
    BY <1>1 DEF TaskRecord, Shown
  <2>2. Calls[c] = [op |-> task[c].op, todo |-> task[c].todo, found |-> task[c].found,
                    answer |-> task[c].answer]
    BY CallsAre DEF Shown
  <2> HIDE DEF t
  <2> QED BY <2>1, <2>2
<1>8. /\ task' = [task EXCEPT ![c] = t] /\ backend' = backend
      /\ total' \in Nat /\ overlapped' \in BOOLEAN
      /\ table' = [table EXCEPT ![Id(c)] = NoRow]
  BY DEF MemoryDelete, IInv, TypeOK
<1> HIDE DEF t
<1>9. IInv' /\ Calls' = [Calls EXCEPT ![c] = Shown(t)]
  BY <1>2, <1>4, <1>6, <1>8, StepOf
<1>10. Contract!Remove(c)
  BY <1>2, <1>7, <1>8, <1>9 DEF Contract!Remove, Contract!Answer, Found, Present
<1> QED BY <1>9, <1>10 DEF Steps, Contract!Step

LEMMA MemoryDeleteSubSteps ==
    ASSUME IInv, NEW c \in Callers, MemoryDeleteSub(c)
    PROVE  Steps
<1> DEFINE t == [task[c] EXCEPT !.at = "done"]
<1>1. task[c] \in TaskRecord /\ Sound(task[c]) /\ task[c].at = "sub" /\ task[c].op.do = "delete"
  BY CallsAre DEF MemoryDeleteSub, At
<1>2. t \in TaskRecord /\ Sound(t) /\ Shown(t) = Shown(task[c])
  BY <1>1 DEF TaskRecord, Sound, Shown
<1>3. total' \in Nat /\ overlapped' \in BOOLEAN
  <2>1. task[c].row \in Rows \cup {NoRow}
    BY <1>1 DEF TaskRecord
  <2>2. total - SizeOf(task[c].row) \in Int
    BY <2>1, SizeTyped DEF IInv, TypeOK
  <2> QED BY <2>2, WrapTyped DEF MemoryDeleteSub, IInv, TypeOK
<1>4. IInv' /\ Calls' = [Calls EXCEPT ![c] = Shown(t)]
  BY <1>2, <1>3, StepOf DEF MemoryDeleteSub, Goto
<1>5. UNCHANGED Seen
  BY <1>2, <1>4, Hidden DEF MemoryDeleteSub
<1> QED BY <1>4, <1>5 DEF Steps

\* One look of a listing or of stats(): what it takes of the documents it sees
\* is what the pattern must match at least, and no more than it may.
LEMMA VisitSteps ==
    ASSUME IInv, NEW c \in Callers, NEW seen \in Visits(c), Visit(c, seen)
    PROVE  Steps
<1> DEFINE then == IF ~(task[c].todo \subseteq seen) THEN "start"
                   ELSE IF task[c].op.do = "stats" /\ backend # "sqlite" THEN "size"
                   ELSE "done"
           taken == seen \cap Takes(c)
           answer == IF then = "done" THEN "ok" ELSE Pending
           size == IF backend = "sqlite" THEN TableSize ELSE 0
           t == [task[c] EXCEPT !.todo = @ \ seen, !.found = @ \cup taken,
                                !.answer = answer, !.size = size, !.at = then]
<1>1. /\ task[c] \in TaskRecord /\ Sound(task[c])
      /\ task[c].op.do \in {"list", "stats"} /\ task[c].at = "start"
  BY CallsAre DEF Visit
<1>2. task[c].todo \subseteq Ids /\ task[c].found \subseteq Ids /\ seen \subseteq task[c].todo
  BY <1>1 DEF TaskRecord, Visits
<1>3. /\ taken \subseteq seen \cap Present
      /\ seen \cap Present \cap Contract!Matching(Calls[c].op, Must) \subseteq taken
      /\ taken \subseteq Contract!Matching(Calls[c].op, May)
  <2>1. Calls[c].op = task[c].op
    BY CallsAre
  <2>2. CASE task[c].op.do = "list"
    <3>1. task[c].op.pattern \in Patterns /\ backend \in Kinds
      BY <1>1, <2>2, OpFields DEF TaskRecord, IInv, TypeOK
    <3>2. /\ Must[task[c].op.pattern] \subseteq Matched[backend][task[c].op.pattern]
          /\ Matched[backend][task[c].op.pattern] \subseteq May[task[c].op.pattern]
      BY <3>1, ListingsBetween
    <3> QED BY <2>1, <2>2, <3>2 DEF Takes, Contract!Matching
  <2>3. CASE task[c].op.do = "stats"
    BY <1>2, <2>1, <2>3 DEF Takes, Contract!Matching
  <2> QED BY <1>1, <2>2, <2>3
<1>4. /\ then \in {"start", "size", "done"} /\ size \in Nat /\ answer \in {"ok", Pending}
      /\ answer = "ok" => task[c].todo \subseteq seen
      /\ then = "size" => task[c].todo \subseteq seen /\ task[c].op.do = "stats"
      /\ then = "done" => answer # Pending
      /\ then # "done" => answer = Pending
  BY FS_CardinalityType DEF TableSize, IInv, TypeOK, Pending, Contract!Pending
<1>5. task' = [task EXCEPT ![c] = t]
  BY DEF Visit, Pending
<1> HIDE DEF then, taken, answer, size
<1>6. t \in TaskRecord
  BY <1>1, <1>2, <1>3, <1>4 DEF TaskRecord
<1>7. /\ t.op = task[c].op /\ t.todo = task[c].todo \ seen /\ t.found = task[c].found \cup taken
      /\ t.answer = answer /\ t.at = then
  BY <1>1 DEF TaskRecord
<1> HIDE DEF t
<1>8. Sound(t)
  BY <1>1, <1>4, <1>7 DEF Sound
<1>9. total' \in Nat /\ overlapped' \in BOOLEAN /\ backend' = backend /\ table' = table
  BY DEF Visit, IInv, TypeOK
<1>10. IInv' /\ Calls' = [Calls EXCEPT ![c] = Shown(t)]
  BY <1>5, <1>6, <1>8, <1>9, StepOf
<1>11. Shown(t) = [Calls[c] EXCEPT !.todo = @ \ seen, !.found = @ \cup taken, !.answer = answer]
  <2>1. Calls[c] = [op |-> task[c].op, todo |-> task[c].todo, found |-> task[c].found,
                    answer |-> task[c].answer]
    BY CallsAre DEF Shown
  <2>2. Calls[c].todo = task[c].todo /\ Calls[c].found = task[c].found
    BY CallsAre
  <2> DEFINE r == [Calls[c] EXCEPT !.todo = @ \ seen, !.found = @ \cup taken, !.answer = answer]
  <2>3. Calls[c] \in [op : {task[c].op}, todo : {task[c].todo}, found : {task[c].found},
                      answer : {task[c].answer}]
    BY <2>1
  <2>4. Calls[c].op = task[c].op /\ Calls[c].answer = task[c].answer
    BY CallsAre
  <2>5. r \in [op : {task[c].op}, todo : {task[c].todo, task[c].todo \ seen},
               found : {task[c].found, task[c].found \cup taken},
               answer : {task[c].answer, answer}]
    BY <2>2, <2>3, <2>4
  <2>6. /\ r.op = task[c].op /\ r.todo = task[c].todo \ seen
        /\ r.found = task[c].found \cup taken /\ r.answer = answer
    BY <2>1, <2>2
  <2> HIDE DEF r
  <2>7. Shown(t) = r
    BY <1>7, <2>5, <2>6 DEF Shown
  <2> QED BY <2>7 DEF r
<1>12. Contract!Running(c, {"list", "stats"}) /\ Calls[c].todo = task[c].todo
  BY <1>1, CallOf, CallsAre
<1>13. Contract!Scan(c, seen)
  <2>1. taken \in SUBSET (seen \cap Contract!Present)
    BY <1>3 DEF Present
  <2>2. seen \cap Contract!Present \cap Contract!Matching(Calls[c].op, Must) \subseteq taken
    BY <1>3 DEF Present
  <2>3. answer \in {"ok", Contract!Pending}
    BY <1>4 DEF Pending
  <2>4. Calls' = [Calls EXCEPT ![c].todo = @ \ seen, ![c].found = @ \cup taken, ![c].answer = answer]
    BY <1>10, <1>11
  <2> QED BY <1>2, <1>3, <1>4, <1>9, <1>12, <2>1, <2>2, <2>3, <2>4 DEF Contract!Scan
<1>14. seen \in SUBSET Ids
  BY <1>2
<1> QED BY <1>10, <1>13, <1>14 DEF Steps, Contract!Step

\* SQLite's listing without the rows it could not read: a look at all rows of a
\* storage that is silent.
LEMMA ListDropsRowsSteps ==
    ASSUME IInv, NEW c \in Callers, ListDropsRows(c)
    PROVE  Steps
<1>1. /\ task[c] \in TaskRecord /\ Sound(task[c])
      /\ task[c].op.do = "list" /\ task[c].at = "start" /\ backend = "sqlite"
  BY CallsAre DEF ListDropsRows, At
<1>2. PICK seen, read, found :
         /\ seen = task[c].todo /\ read \in SUBSET (task[c].todo \cap Takes(c))
         /\ found = task[c].found \cup read
         /\ task' = [task EXCEPT ![c].todo = {}, ![c].found = found,
                                 ![c].answer = "ok", ![c].at = "done"]
  BY DEF ListDropsRows
<1>3. seen \subseteq Ids /\ read \subseteq Ids /\ found \subseteq Ids
  BY <1>1, <1>2 DEF TaskRecord
<1>4. read \subseteq seen \cap Present /\ read \subseteq Contract!Matching(Calls[c].op, May)
  <2>1. task[c].op.pattern \in Patterns /\ backend \in Kinds
    BY <1>1, OpFields DEF TaskRecord, Kinds
  <2>2. Matched[backend][task[c].op.pattern] \subseteq May[task[c].op.pattern]
    BY <2>1, ListingsBetween
  <2>3. Calls[c].op = task[c].op
    BY CallsAre
  <2> QED BY <1>1, <1>2, <2>2, <2>3 DEF Takes, Contract!Matching
<1>t. PICK t : t = [task[c] EXCEPT !.todo = {}, !.found = found, !.answer = "ok", !.at = "done"]
  OBVIOUS
<1>5. task' = [task EXCEPT ![c] = t]
  BY <1>2, <1>t
<1>6. /\ t \in TaskRecord /\ t.op = task[c].op /\ t.todo = {} /\ t.found = found
      /\ t.answer = "ok" /\ t.at = "done"
  BY <1>1, <1>3, <1>t DEF TaskRecord
<1>7. Sound(t)
  BY <1>1, <1>6 DEF Sound, Pending, Contract!Pending
<1>8. total' \in Nat /\ overlapped' \in BOOLEAN /\ backend' = backend /\ table' = table
  BY DEF ListDropsRows, IInv, TypeOK
<1>9. IInv' /\ Calls' = [Calls EXCEPT ![c] = Shown(t)]
  BY <1>5, <1>6, <1>7, <1>8, StepOf
<1>10. Shown(t) = [Calls[c] EXCEPT !.todo = @ \ seen, !.found = @ \cup read, !.answer = "ok"]
  <2>1. Calls[c] = [op |-> task[c].op, todo |-> seen, found |-> task[c].found,
                    answer |-> task[c].answer]
    BY <1>2, CallsAre DEF Shown
  <2>2. Shown(t) = [op |-> task[c].op, todo |-> {}, found |-> found, answer |-> "ok"]
    BY <1>6 DEF Shown
  <2> DEFINE r == [Calls[c] EXCEPT !.todo = @ \ seen, !.found = @ \cup read, !.answer = "ok"]
  <2>3. Calls[c] \in [op : {task[c].op}, todo : {seen}, found : {task[c].found},
                      answer : {task[c].answer}]
    BY <2>1
  <2>4. Calls[c].todo = seen /\ Calls[c].found = task[c].found
    BY <2>1
  <2>5. r \in [op : {task[c].op}, todo : {seen, {}}, found : {task[c].found, found},
               answer : {task[c].answer, "ok"}]
    BY <1>2, <2>3, <2>4
  <2>6. r.op = task[c].op /\ r.todo = {} /\ r.found = found /\ r.answer = "ok"
    BY <1>2, <2>1, <2>4
  <2> HIDE DEF r
  <2>7. Shown(t) = r
    BY <2>2, <2>5, <2>6
  <2> QED BY <2>7 DEF r
<1>11. Contract!Running(c, {"list", "stats"}) /\ Calls[c].todo = seen /\ Calls[c].op.do = "list"
  BY <1>1, <1>2, CallOf, CallsAre
<1>12. Contract!Scan(c, seen)
  <2>1. read \in SUBSET (seen \cap Contract!Present) /\ Calls[c].todo \subseteq seen
    BY <1>4, <1>11 DEF Present
  <2>2. Calls' = [Calls EXCEPT ![c].todo = @ \ seen, ![c].found = @ \cup read, ![c].answer = "ok"]
    BY <1>9, <1>10
  <2> QED BY <1>1, <1>4, <1>8, <1>11, <2>1, <2>2 DEF Contract!Scan
<1>13. seen \in SUBSET Ids
  BY <1>3
<1> QED BY <1>9, <1>12, <1>13 DEF Steps, Contract!Step

\* The size of stats(), which memory and PostgreSQL read after the count.
LEMMA StatsSizeSteps ==
    ASSUME IInv, NEW c \in Callers, StatsSize(c)
    PROVE  Steps
<1> DEFINE size == IF backend = "memory" THEN total ELSE TableSize
           t == [task[c] EXCEPT !.answer = "ok", !.at = "done", !.size = size]
<1>1. /\ task[c] \in TaskRecord /\ Sound(task[c])
      /\ task[c].op.do = "stats" /\ task[c].at = "size" /\ task[c].todo = {}
  BY CallsAre DEF StatsSize, At, Sound
<1>2. size \in Nat
  BY FS_CardinalityType DEF TableSize, IInv, TypeOK
<1>3. task' = [task EXCEPT ![c] = t]
  BY DEF StatsSize
<1> HIDE DEF size
<1>4. t \in TaskRecord
  BY <1>1, <1>2 DEF TaskRecord
<1>5. /\ t.op = task[c].op /\ t.todo = {} /\ t.found = task[c].found
      /\ t.answer = "ok" /\ t.at = "done"
  BY <1>1 DEF TaskRecord
<1> HIDE DEF t
<1>6. Sound(t)
  BY <1>1, <1>5 DEF Sound, Pending, Contract!Pending
<1>7. total' \in Nat /\ overlapped' \in BOOLEAN /\ backend' = backend /\ table' = table
  BY DEF StatsSize, IInv, TypeOK
<1>8. IInv' /\ Calls' = [Calls EXCEPT ![c] = Shown(t)]
  BY <1>3, <1>4, <1>6, <1>7, StepOf
<1>9. Shown(t) = [Calls[c] EXCEPT !.todo = @ \ {}, !.found = @ \cup {}, !.answer = "ok"]
  <2>1. Calls[c] = [op |-> task[c].op, todo |-> task[c].todo, found |-> task[c].found,
                    answer |-> task[c].answer]
    BY CallsAre DEF Shown
  <2>2. Calls[c].todo = {} /\ Calls[c].found = task[c].found
    BY <1>1, CallsAre
  <2> DEFINE r == [Calls[c] EXCEPT !.todo = @ \ {}, !.found = @ \cup {}, !.answer = "ok"]
  <2>3. Calls[c] \in [op : {task[c].op}, todo : {task[c].todo}, found : {task[c].found},
                      answer : {task[c].answer}]
    BY <2>1
  <2>4. Calls[c].op = task[c].op /\ Calls[c].answer = task[c].answer
    BY CallsAre
  <2>5. r \in [op : {task[c].op}, todo : {{}}, found : {task[c].found},
               answer : {task[c].answer, "ok"}]
    BY <2>2, <2>3, <2>4
  <2>6. r.op = task[c].op /\ r.todo = {} /\ r.found = task[c].found /\ r.answer = "ok"
    BY <2>1, <2>2
  <2> HIDE DEF r
  <2>7. Shown(t) = r
    BY <1>5, <2>5, <2>6 DEF Shown
  <2> QED BY <2>7 DEF r
<1>10. Contract!Running(c, {"list", "stats"}) /\ Calls[c].todo = {}
  BY <1>1, CallOf, CallsAre
<1>11. Contract!Scan(c, {})
  <2>1. Calls' = [Calls EXCEPT ![c].todo = @ \ {}, ![c].found = @ \cup {}, ![c].answer = "ok"]
    BY <1>8, <1>9
  <2>2. {} \in SUBSET ({} \cap Contract!Present) /\ {} \subseteq Calls[c].todo
    OBVIOUS
  <2> QED BY <1>7, <1>10, <2>1, <2>2 DEF Contract!Scan
<1> QED BY <1>8, <1>11 DEF Steps, Contract!Step

LEMMA RestartSteps ==
    ASSUME IInv, Restart
    PROVE  Steps
<1>1. task' \in [Callers -> TaskRecord] /\ \A c \in Callers : Sound(task[c])'
  <2>1. Sound(Idle)'
    BY DEF Sound, Idle, AtStep, Contract!NoCall, Pending, Contract!Pending
  <2> QED BY <2>1, IdleTyped DEF Restart
<1>2. table' \in [Ids -> Rows \cup {NoRow}] /\ IsFiniteSet(Bytes')
  <2>1. CASE table' = table
    BY <2>1 DEF IInv, TypeOK, Bytes
  <2>2. CASE table' = [k \in Ids |-> NoRow]
    <3>1. Bytes' = {}
      BY <2>2 DEF Bytes, SizeOf
    <3> QED BY <2>2, <3>1, FS_EmptySet
  <2> QED BY <2>1, <2>2 DEF Restart
<1>3. IInv'
  BY <1>1, <1>2 DEF Restart, IInv, TypeOK
<1>4. Contract!Restart
  <2>1. Calls' = [c \in Callers |-> Contract!NoCall]
    BY DEF Restart, Calls, Idle, AtStep, Contract!NoCall
  <2> QED BY <2>1 DEF Restart, Contract!Restart
<1> QED BY <1>3, <1>4 DEF Steps, Contract!Step

\* Every step of a backend is one of the trait's, or changes nothing the
\* callers see.
LEMMA NextSteps == IInv /\ [Next]_vars => Steps
<1> SUFFICES ASSUME IInv, [Next]_vars PROVE Steps
  OBVIOUS
<1>1. CASE Restart
  BY <1>1, RestartSteps
<1>2. CASE UNCHANGED vars
  <2>1. Bytes' = Bytes
    BY <1>2 DEF vars, Bytes, SizeOf
  <2>2. IInv'
    BY <1>2, <2>1 DEF vars, IInv, TypeOK, Sound
  <2>3. UNCHANGED Seen
    BY <1>2 DEF vars, Seen, Calls
  <2> QED BY <2>2, <2>3 DEF Steps
<1>3. ASSUME NEW c \in Callers, NEW op \in Contract!Operations, Begin(c, op) PROVE Steps
  BY <1>3, BeginSteps
<1>4. ASSUME NEW c \in Callers, NEW seen \in Visits(c), Visit(c, seen) PROVE Steps
  BY <1>4, VisitSteps
<1>5. ASSUME NEW c \in Callers,
             \/ MemoryStoreSub(c) \/ MemoryStoreAdd(c) \/ MemoryStoreInsert(c)
             \/ MemoryDelete(c) \/ MemoryDeleteSub(c)
             \/ SqlStore(c) \/ SqlDelete(c) \/ SqlError(c)
             \/ Load(c) \/ Exists(c) \/ ListDropsRows(c) \/ StatsSize(c) \/ Return(c)
      PROVE  Steps
  BY <1>5, MemoryStoreSubSteps, MemoryStoreAddSteps, MemoryStoreInsertSteps,
     MemoryDeleteSteps, MemoryDeleteSubSteps, SqlStoreSteps, SqlDeleteSteps,
     SqlErrorSteps, LookSteps, ListDropsRowsSteps, StatsSizeSteps, ReturnSteps
<1> QED BY <1>1, <1>2, <1>3, <1>4, <1>5 DEF Next

\* A storage stays what it is.
LEMMA NextKeepsBackend == [Next]_vars => backend' = backend
<1> SUFFICES ASSUME [Next]_vars PROVE backend' = backend
  OBVIOUS
<1>1. CASE Restart \/ UNCHANGED vars
  BY <1>1 DEF Restart, vars
<1>2. ASSUME NEW c \in Callers, NEW op, Begin(c, op) PROVE backend' = backend
  BY <1>2 DEF Begin
<1>3. ASSUME NEW c \in Callers, NEW seen, Visit(c, seen) PROVE backend' = backend
  BY <1>3 DEF Visit
<1>4. ASSUME NEW c \in Callers,
             \/ MemoryStoreSub(c) \/ MemoryStoreAdd(c) \/ MemoryStoreInsert(c)
             \/ MemoryDelete(c) \/ MemoryDeleteSub(c)
      PROVE  backend' = backend
  BY <1>4 DEF MemoryStoreSub, MemoryStoreAdd, MemoryStoreInsert, MemoryDelete, MemoryDeleteSub
<1>5. ASSUME NEW c \in Callers,
             \/ SqlStore(c) \/ SqlDelete(c) \/ SqlError(c) \/ Load(c) \/ Exists(c)
             \/ ListDropsRows(c) \/ StatsSize(c) \/ Return(c)
      PROVE  backend' = backend
  BY <1>5 DEF SqlStore, SqlDelete, SqlError, Load, Exists, ListDropsRows, StatsSize, Return
<1> QED BY <1>1, <1>2, <1>3, <1>4, <1>5 DEF Next

\* The types, and what the place a call is at says about the call.
THEOREM Invariant == Spec => []IInv
<1>1. IInv /\ [Next]_vars => IInv'
  BY NextSteps DEF Steps
<1> QED BY InitIInv, <1>1, PTL DEF Spec

\* Whichever storage a server is given, its callers see a storage as the trait
\* describes it: ImplementsStorage, for every set of callers, ids, rows and
\* patterns (memory.rs, sqlite.rs and postgres.rs against storage/src/lib.rs).
THEOREM Refinement == Spec => ImplementsStorage
<1>1. IInv /\ [Next]_vars => [Contract!Next]_(Contract!vars)
  <2> SUFFICES ASSUME IInv, [Next]_vars PROVE [Contract!Next]_(Contract!vars)
    OBVIOUS
  <2>1. [Contract!Step]_Seen
    BY NextSteps DEF Steps
  <2>2. UNCHANGED <<(backend = "memory"), (backend = "sqlite")>>
    BY NextKeepsBackend
  <2> QED BY <2>1, <2>2 DEF Contract!Next, Contract!vars, Seen
<1> QED BY Invariant, InitMaps, <1>1, PTL DEF Spec, ImplementsStorage, Contract!Spec
-----------------------------------------------------------------------------
(***************************************************************************)
(* The accounts of MemoryStorage: total_size is behind or ahead of the     *)
(* rows by what the calls under way have still to add or to subtract.      *)
(***************************************************************************)
\* What a call has counted of a row that is not in the table, and not counted
\* of a row that still is.
Extra == [c \in Callers |->
            IF task[c].at = "insert" THEN RowSize[task[c].op.row]
            ELSE IF task[c].at = "sub" THEN SizeOf(task[c].row) ELSE 0]
Short == [c \in Callers |->
            IF task[c].at \in {"add", "insert"} THEN SizeOf(table[Id(c)]) ELSE 0]

\* Some words too many or too few.
Apart(m, n) == \E k \in Int : m = n + k * WordSize

Account ==
    backend = "memory" /\ ~overlapped =>
        /\ IsFiniteSet(Columns(Callers, Extra)) /\ IsFiniteSet(Columns(Callers, Short))
        /\ Apart(total + Cardinality(Columns(Callers, Short)),
                 TableSize + Cardinality(Columns(Callers, Extra)))

SizeInv == IInv /\ Account /\ total < WordSize

LEMMA WrapApart ==
    ASSUME NEW n \in Int
    PROVE  Wrap(n) \in Nat /\ Wrap(n) < WordSize /\ Apart(Wrap(n), n)
<1> DEFINE q == n \div WordSize
           r == n % WordSize
<1>1. q \in Int /\ r \in Nat /\ r < WordSize /\ n = WordSize * q + r
  BY SizeAssumption
<1>2. Wrap(n) = r
  BY DEF Wrap
<1> HIDE DEF q, r
<1>3. r = n + (0 - q) * WordSize /\ 0 - q \in Int
  BY <1>1, SizeAssumption
<1> QED BY <1>1, <1>2, <1>3 DEF Apart

LEMMA WrapUnique ==
    ASSUME NEW m \in Nat, NEW n \in Int, m < WordSize, Apart(m, n)
    PROVE  m = Wrap(n)
<1>1. PICK k \in Int : m = n + k * WordSize
  BY DEF Apart
<1>2. Wrap(n) \in Nat /\ Wrap(n) < WordSize /\ Apart(Wrap(n), n)
  BY WrapApart
<1>3. PICK j \in Int : Wrap(n) = n + j * WordSize
  BY <1>2 DEF Apart
<1> DEFINE w == Wrap(n)
           d == k - j
<1> HIDE DEF w
<1>4. w \in Nat /\ w < WordSize /\ d \in Int /\ m = w + d * WordSize /\ WordSize \in Nat /\ WordSize > 0
  BY <1>1, <1>2, <1>3, SizeAssumption DEF w
<1> HIDE DEF d
<1>5. CASE d >= 1
  <2>1. d * WordSize >= WordSize
    BY <1>4, <1>5
  <2> QED BY <1>4, <2>1
<1>6. CASE d <= -1
  <2>1. d * WordSize <= -WordSize
    BY <1>4, <1>6
  <2> QED BY <1>4, <2>1
<1>7. CASE d = 0
  <2>1. d * WordSize = 0
    BY <1>4, <1>7
  <2> QED BY <1>4, <2>1 DEF w
<1> QED BY <1>4, <1>5, <1>6, <1>7

LEMMA ApartSame == \A n \in Int : Apart(n, n + 0)
<1> SUFFICES ASSUME NEW n \in Int PROVE Apart(n, n + 0)
  OBVIOUS
<1>1. 0 * WordSize = 0
  BY SizeAssumption
<1>2. n = n + 0 + 0 * WordSize
  BY <1>1
<1> QED BY <1>2 DEF Apart

LEMMA AccountsTyped == IInv => Extra \in [Callers -> Nat] /\ Short \in [Callers -> Nat]
<1> SUFFICES ASSUME IInv, NEW c \in Callers
             PROVE  Extra[c] \in Nat /\ Short[c] \in Nat
  BY DEF Extra, Short
<1>1. task[c] \in TaskRecord /\ Sound(task[c])
  BY CallsAre
<1>2. Extra[c] \in Nat
  <2>1. CASE task[c].at = "insert"
    BY <1>1, <2>1, CallOf, SizeAssumption DEF Extra, Sound
  <2>2. CASE task[c].at # "insert"
    BY <1>1, <2>2, SizeTyped DEF Extra, TaskRecord
  <2> QED BY <2>1, <2>2
<1>3. Short[c] \in Nat
  <2>1. CASE task[c].at \in {"add", "insert"}
    <3>1. table[Id(c)] \in Rows \cup {NoRow}
      BY <1>1, <2>1, CallOf DEF Sound
    <3> QED BY <2>1, <3>1, SizeTyped DEF Short
  <2>2. CASE ~(task[c].at \in {"add", "insert"})
    BY <2>2 DEF Short
  <2> QED BY <2>1, <2>2
<1> QED BY <1>2, <1>3

\* A step of one caller keeps the accounts if it moves both sides alike.
LEMMA AccountStep ==
    ASSUME SizeInv, IInv', backend = "memory", ~overlapped, NEW c \in Callers,
           \A d \in Callers \ {c} :
              /\ task'[d] = task[d]
              /\ task[d].at \in {"add", "insert"} => table'[Id(d)] = table[Id(d)],
           NEW m \in Int, Apart(total', total + m), total' < WordSize,
           NEW n \in Int, TableSize' = TableSize + n,
           m + Short'[c] - Short[c] = n + Extra'[c] - Extra[c]
    PROVE  SizeInv'
<1>1. /\ Extra \in [Callers -> Nat] /\ Short \in [Callers -> Nat]
      /\ Extra' \in [Callers -> Nat] /\ Short' \in [Callers -> Nat]
  <2>1. IInv
    BY DEF SizeInv
  <2>2. Extra \in [Callers -> Nat] /\ Short \in [Callers -> Nat]
    BY <2>1, AccountsTyped
  <2>3. (IInv => Extra \in [Callers -> Nat] /\ Short \in [Callers -> Nat])'
    BY AccountsTyped, PTL
  <2> QED BY <2>2, <2>3
<1>2. \A d \in Callers \ {c} : Extra'[d] = Extra[d] /\ Short'[d] = Short[d]
  BY DEF Extra, Short, Id, SizeOf
<1> DEFINE X == Columns(Callers, Extra)
           Y == Columns(Callers, Short)
           X2 == Columns(Callers, Extra')
           Y2 == Columns(Callers, Short')
<1>3. IsFiniteSet(X) /\ IsFiniteSet(Y) /\ Apart(total + Cardinality(Y), TableSize + Cardinality(X))
  BY DEF SizeInv, Account
<1>4. IsFiniteSet(X2) /\ Cardinality(X2) = Cardinality(X) - Extra[c] + Extra'[c]
  BY <1>1, <1>2, <1>3, ColumnsChange
<1>5. IsFiniteSet(Y2) /\ Cardinality(Y2) = Cardinality(Y) - Short[c] + Short'[c]
  BY <1>1, <1>2, <1>3, ColumnsChange
<1>6. /\ Cardinality(X) \in Nat /\ Cardinality(Y) \in Nat /\ TableSize \in Nat
      /\ total \in Nat /\ total' \in Nat
  BY <1>3, FS_CardinalityType DEF SizeInv, IInv, TypeOK, TableSize
<1>7. Extra[c] \in Nat /\ Short[c] \in Nat /\ Extra'[c] \in Nat /\ Short'[c] \in Nat
  BY <1>1
<1> HIDE DEF X, Y, X2, Y2
<1>8. Apart(total' + Cardinality(Y2), TableSize' + Cardinality(X2))
  <2>1. PICK k \in Int : total + Cardinality(Y) = TableSize + Cardinality(X) + k * WordSize
    BY <1>3 DEF Apart
  <2>2. PICK j \in Int : total' = total + m + j * WordSize
    BY DEF Apart
  <2> DEFINE kw == k * WordSize
             jw == j * WordSize
  <2>3. (k + j) * WordSize = kw + jw /\ k + j \in Int /\ kw \in Int /\ jw \in Int
    BY SizeAssumption
  <2>4. total + Cardinality(Y) = TableSize + Cardinality(X) + kw /\ total' = total + m + jw
    BY <2>1, <2>2
  <2> HIDE DEF kw, jw
  <2>5. total' + Cardinality(Y2) = TableSize' + Cardinality(X2) + (k + j) * WordSize
    BY <1>4, <1>5, <1>6, <1>7, <2>3, <2>4, SMTT(60)
  <2> QED BY <2>3, <2>5 DEF Apart
<1>9. Account'
  BY <1>4, <1>5, <1>8 DEF Account, X2, Y2, Apart
<1> QED BY <1>9 DEF SizeInv

\* One that is not in the middle of a store or a delete has nothing to settle.
LEMMA Settled ==
    ASSUME NEW c \in Callers
    PROVE  /\ ~(task[c].at \in {"add", "insert"}) => Short[c] = 0
           /\ ~(task[c].at \in {"insert", "sub"}) => Extra[c] = 0
           /\ ~(task'[c].at \in {"add", "insert"}) => Short'[c] = 0
           /\ ~(task'[c].at \in {"insert", "sub"}) => Extra'[c] = 0
  BY DEF Short, Extra

\* The table keeps its size with its rows.
LEMMA SizeKept == table' = table => TableSize' = TableSize
  BY DEF TableSize, Bytes, SizeOf

\* A step of one that settles nothing, and changes no row.
LEMMA QuietSteps ==
    ASSUME SizeInv, IInv', NEW c \in Callers, UNCHANGED <<backend, table, total, overlapped>>,
           \A d \in Callers \ {c} : task'[d] = task[d],
           ~(task[c].at \in {"add", "insert", "sub"}),
           ~(task'[c].at \in {"add", "insert", "sub"})
    PROVE  SizeInv'
<1>1. CASE backend = "memory" /\ ~overlapped
  <2>1. total \in Nat /\ TableSize \in Nat
    BY FS_CardinalityType DEF SizeInv, IInv, TypeOK, TableSize
  <2>2. Apart(total', total + 0) /\ total' < WordSize /\ TableSize' = TableSize + 0
    BY <2>1, ApartSame, SizeKept DEF SizeInv
  <2>3. 0 + Short'[c] - Short[c] = 0 + Extra'[c] - Extra[c]
    BY Settled
  <2> QED BY <1>1, <2>2, <2>3, AccountStep
<1>2. CASE ~(backend = "memory" /\ ~overlapped)
  BY <1>2 DEF SizeInv, Account
<1> QED BY <1>1, <1>2

\* The first access of a store: the row that is there is no longer counted.
LEMMA SubKeeps ==
    ASSUME SizeInv, IInv', NEW c \in Callers, MemoryStoreSub(c)
    PROVE  SizeInv'
<1>1. /\ backend = "memory" /\ task[c].op.do = "store" /\ task[c].at = "start"
      /\ total' = Wrap(total - SizeOf(table[Id(c)])) /\ table' = table
      /\ backend' = backend /\ overlapped' = overlapped
  BY DEF MemoryStoreSub, At
<1>2. task'[c].at = "add" /\ task'[c].op = task[c].op
  BY DEF MemoryStoreSub, Goto, SizeInv, IInv, TypeOK, TaskRecord
<1>3. \A d \in Callers \ {c} : task'[d] = task[d]
  BY DEF MemoryStoreSub, Goto, SizeInv, IInv, TypeOK
<1> DEFINE old == SizeOf(table[Id(c)])
<1>4. old \in Nat /\ total \in Nat /\ TableSize \in Nat
  BY <1>1, CallOf, SizeTyped, FS_CardinalityType DEF SizeInv, IInv, TypeOK, TableSize
<1>5. Short[c] = 0 /\ Extra[c] = 0 /\ Extra'[c] = 0 /\ Short'[c] = old
  BY <1>1, <1>2 DEF Short, Extra, Id, SizeOf
<1> HIDE DEF old
<1>6. total' < WordSize /\ Apart(total', total + (0 - old))
  <2>1. total + (0 - old) = total - old /\ total - old \in Int
    BY <1>4
  <2> QED BY <1>1, <2>1, WrapApart DEF old
<1>7. CASE ~overlapped
  <2>1. TableSize' = TableSize + 0 /\ (0 - old) + Short'[c] - Short[c] = 0 + Extra'[c] - Extra[c]
    BY <1>1, <1>4, <1>5, SizeKept
  <2>2. 0 - old \in Int
    BY <1>4
  <2> QED BY <1>1, <1>3, <1>6, <1>7, <2>1, <2>2, AccountStep
<1>8. CASE overlapped
  BY <1>1, <1>6, <1>8 DEF SizeInv, Account
<1> QED BY <1>7, <1>8 DEF SizeInv, IInv, TypeOK

\* The second: the new row is counted.
LEMMA AddKeeps ==
    ASSUME SizeInv, IInv', NEW c \in Callers, MemoryStoreAdd(c)
    PROVE  SizeInv'
<1>1. /\ backend = "memory" /\ task[c].op.do = "store" /\ task[c].at = "add"
      /\ total' = Wrap(total + RowSize[task[c].op.row]) /\ table' = table
      /\ backend' = backend /\ overlapped' = overlapped
  BY DEF MemoryStoreAdd, At
<1>2. task'[c].at = "insert" /\ task'[c].op = task[c].op
  BY DEF MemoryStoreAdd, Goto, SizeInv, IInv, TypeOK, TaskRecord
<1>3. \A d \in Callers \ {c} : task'[d] = task[d]
  BY DEF MemoryStoreAdd, Goto, SizeInv, IInv, TypeOK
<1> DEFINE new == RowSize[task[c].op.row]
<1>4. new \in Nat /\ total \in Nat /\ TableSize \in Nat
  BY <1>1, CallOf, SizeAssumption, FS_CardinalityType DEF SizeInv, IInv, TypeOK, TableSize
<1>5. Short'[c] = Short[c] /\ Extra[c] = 0 /\ Extra'[c] = new /\ Short[c] \in Nat
  <2>1. Short[c] \in Nat
    BY AccountsTyped DEF SizeInv
  <2>2. Short'[c] = Short[c] /\ Extra[c] = 0 /\ Extra'[c] = new
    BY <1>1, <1>2 DEF Short, Extra, Id, SizeOf
  <2> QED BY <2>1, <2>2
<1> HIDE DEF new
<1>6. total' < WordSize /\ Apart(total', total + new)
  <2>1. total + new \in Int
    BY <1>4
  <2> QED BY <1>1, <2>1, WrapApart DEF new
<1>7. CASE ~overlapped
  <2>1. TableSize' = TableSize + 0 /\ new + Short'[c] - Short[c] = 0 + Extra'[c] - Extra[c]
    BY <1>1, <1>4, <1>5, SizeKept
  <2> QED BY <1>1, <1>3, <1>4, <1>6, <1>7, <2>1, AccountStep
<1>8. CASE overlapped
  BY <1>1, <1>6, <1>8 DEF SizeInv, Account
<1> QED BY <1>7, <1>8 DEF SizeInv, IInv, TypeOK

\* A row that comes or goes while no other store has taken its size.
LEMMA RowMoves ==
    ASSUME IInv, NEW c \in Callers, ~Overlaps(c), NEW r,
           table' = [table EXCEPT ![Id(c)] = r], Id(c) \in Ids
    PROVE  \A d \in Callers \ {c} :
              task[d].at \in {"add", "insert"} => table'[Id(d)] = table[Id(d)]
<1> SUFFICES ASSUME NEW d \in Callers \ {c}, task[d].at \in {"add", "insert"}
             PROVE  table'[Id(d)] = table[Id(d)]
  OBVIOUS
<1>1. task[d].op.do = "store" /\ Id(d) \in Ids
  BY CallsAre, CallOf DEF Sound
<1>2. Id(d) # Id(c)
  BY <1>1 DEF Overlaps
<1> QED BY <1>1, <1>2 DEF IInv, TypeOK

\* The third: the new row takes the place of the old one.
LEMMA InsertKeeps ==
    ASSUME SizeInv, IInv', NEW c \in Callers, MemoryStoreInsert(c)
    PROVE  SizeInv'
<1> USE DEF SizeInv
<1>1. /\ backend = "memory" /\ task[c].op.do = "store" /\ task[c].at = "insert"
      /\ table' = [table EXCEPT ![Id(c)] = task[c].op.row]
      /\ overlapped' = (overlapped \/ Overlaps(c)) /\ total' = total /\ backend' = backend
  BY DEF MemoryStoreInsert, At
<1>2. task'[c].at = "done" /\ \A d \in Callers \ {c} : task'[d] = task[d]
  BY DEF MemoryStoreInsert, Done, IInv, TypeOK, TaskRecord
<1>3. Id(c) \in Ids /\ task[c].op.row \in Rows
  BY <1>1, CallOf
<1> DEFINE old == SizeOf(table[Id(c)])
           new == SizeOf(task[c].op.row)
<1>4. old \in Nat /\ new \in Nat /\ total \in Nat /\ TableSize \in Nat
  BY <1>1, <1>3, CallOf, SizeTyped, FS_CardinalityType DEF IInv, TypeOK, TableSize
<1>5. TableSize' = TableSize - old + new
  BY <1>1, <1>3, BytesChange DEF IInv, TypeOK
<1>6. Short[c] = old /\ Short'[c] = 0 /\ Extra[c] = new /\ Extra'[c] = 0
  BY <1>1, <1>2, <1>3, NoRowAssumption DEF Short, Extra, SizeOf
<1> HIDE DEF old, new
<1>7. CASE ~overlapped'
  <2>1. Apart(total', total + 0)
    BY <1>1, <1>4, ApartSame
  <2>2. TableSize' = TableSize + (new - old) /\ new - old \in Int
        /\ 0 + Short'[c] - Short[c] = (new - old) + Extra'[c] - Extra[c]
    BY <1>4, <1>5, <1>6
  <2>3. ~overlapped /\ ~Overlaps(c)
    BY <1>1, <1>7
  <2>4. \A d \in Callers \ {c} :
          /\ task'[d] = task[d]
          /\ task[d].at \in {"add", "insert"} => table'[Id(d)] = table[Id(d)]
    BY <1>1, <1>2, <1>3, <2>3, RowMoves
  <2> QED BY <1>1, <2>1, <2>2, <2>3, <2>4, AccountStep
<1>8. CASE overlapped'
  BY <1>1, <1>8 DEF Account
<1> QED BY <1>7, <1>8

\* A delete: the row goes, its bytes are still counted.
LEMMA DeleteKeeps ==
    ASSUME SizeInv, IInv', NEW c \in Callers, MemoryDelete(c)
    PROVE  SizeInv'
<1> USE DEF SizeInv
<1>1. /\ backend = "memory" /\ task[c].op.do = "delete" /\ task[c].at = "start"
      /\ table' = [table EXCEPT ![Id(c)] = NoRow]
      /\ overlapped' = (overlapped \/ Overlaps(c)) /\ total' = total /\ backend' = backend
  BY DEF MemoryDelete, At
<1>2. /\ task'[c].at = IF Id(c) \in Present THEN "sub" ELSE "done"
      /\ task'[c].row = table[Id(c)]
      /\ \A d \in Callers \ {c} : task'[d] = task[d]
  BY DEF MemoryDelete, IInv, TypeOK, TaskRecord
<1>3. Id(c) \in Ids /\ table[Id(c)] \in Rows \cup {NoRow}
  BY <1>1, CallOf
<1> DEFINE old == SizeOf(table[Id(c)])
<1>4. old \in Nat /\ SizeOf(NoRow) = 0 /\ total \in Nat /\ TableSize \in Nat
  BY <1>3, SizeTyped, FS_CardinalityType DEF IInv, TypeOK, TableSize, SizeOf
<1>5. TableSize' = TableSize - old
  <2>1. TableSize' = TableSize - old + SizeOf(NoRow)
    BY <1>1, <1>3, BytesChange DEF IInv, TypeOK
  <2> QED BY <1>4, <2>1
<1>6. Short[c] = 0 /\ Short'[c] = 0 /\ Extra[c] = 0 /\ Extra'[c] = old
  <2>1. Short[c] = 0 /\ Short'[c] = 0 /\ Extra[c] = 0
    BY <1>1, <1>2, Settled
  <2>2. CASE Id(c) \in Present
    BY <1>2, <2>1, <2>2 DEF Extra, SizeOf
  <2>3. CASE Id(c) \notin Present
    BY <1>2, <1>3, <2>1, <2>3 DEF Extra, SizeOf, Present, Contract!Present
  <2> QED BY <2>1, <2>2, <2>3
<1> HIDE DEF old
<1>7. CASE ~overlapped'
  <2>1. Apart(total', total + 0) /\ total' < WordSize
    BY <1>1, <1>4, ApartSame
  <2>2. TableSize' = TableSize + (0 - old) /\ 0 - old \in Int
        /\ 0 + Short'[c] - Short[c] = (0 - old) + Extra'[c] - Extra[c]
    BY <1>4, <1>5, <1>6
  <2>3. ~overlapped /\ ~Overlaps(c)
    BY <1>1, <1>7
  <2>4. \A d \in Callers \ {c} :
          /\ task'[d] = task[d]
          /\ task[d].at \in {"add", "insert"} => table'[Id(d)] = table[Id(d)]
    BY <1>1, <1>2, <1>3, <2>3, RowMoves
  <2> QED BY <1>1, <2>1, <2>2, <2>3, <2>4, AccountStep
<1>8. CASE overlapped'
  BY <1>1, <1>8 DEF Account
<1> QED BY <1>7, <1>8

\* ... and then they are subtracted.
LEMMA DeleteSubKeeps ==
    ASSUME SizeInv, IInv', NEW c \in Callers, MemoryDeleteSub(c)
    PROVE  SizeInv'
<1> USE DEF SizeInv
<1>1. /\ backend = "memory" /\ task[c].op.do = "delete" /\ task[c].at = "sub"
      /\ total' = Wrap(total - SizeOf(task[c].row)) /\ table' = table
      /\ backend' = backend /\ overlapped' = overlapped
  BY DEF MemoryDeleteSub, At
<1>2. task'[c].at = "done" /\ \A d \in Callers \ {c} : task'[d] = task[d]
  BY DEF MemoryDeleteSub, Goto, IInv, TypeOK, TaskRecord
<1> DEFINE old == SizeOf(task[c].row)
<1>3. old \in Nat /\ total \in Nat /\ TableSize \in Nat
  BY CallsAre, SizeTyped, FS_CardinalityType DEF IInv, TypeOK, TableSize, TaskRecord
<1>4. Short[c] = 0 /\ Short'[c] = 0 /\ Extra[c] = old /\ Extra'[c] = 0
  BY <1>1, <1>2 DEF Short, Extra
<1> HIDE DEF old
<1>5. total' < WordSize /\ Apart(total', total + (0 - old))
  <2>1. total + (0 - old) = total - old /\ total - old \in Int
    BY <1>3
  <2> QED BY <1>1, <2>1, WrapApart DEF old
<1>6. CASE ~overlapped
  <2>1. TableSize' = TableSize + 0 /\ (0 - old) + Short'[c] - Short[c] = 0 + Extra'[c] - Extra[c]
    BY <1>1, <1>3, <1>4, SizeKept
  <2>2. 0 - old \in Int
    BY <1>3
  <2> QED BY <1>1, <1>2, <1>5, <1>6, <2>1, <2>2, AccountStep
<1>7. CASE overlapped
  BY <1>1, <1>5, <1>7 DEF Account
<1> QED BY <1>6, <1>7 DEF IInv, TypeOK

\* No call is under way and no row is in memory: at the start, and again.
LEMMA Empty ==
    ASSUME total = 0, \A c \in Callers : task[c].at = "idle",
           backend = "memory" => table = [k \in Ids |-> NoRow]
    PROVE  Account /\ total < WordSize
<1>1. total < WordSize
  BY SizeAssumption
<1>2. ASSUME backend = "memory" PROVE Account
  <2>1. \A c \in Callers : Extra[c] = 0 /\ Short[c] = 0
    BY DEF Extra, Short
  <2>2. Extra \in [Callers -> Nat] /\ Short \in [Callers -> Nat]
    BY <2>1 DEF Extra, Short
  <2>3. /\ IsFiniteSet(Columns(Callers, Extra)) /\ Cardinality(Columns(Callers, Extra)) = 0
        /\ IsFiniteSet(Columns(Callers, Short)) /\ Cardinality(Columns(Callers, Short)) = 0
    BY <2>1, <2>2, NoColumns
  <2>4. TableSize = 0
    <3>1. Bytes = {}
      BY <1>2 DEF Bytes, SizeOf
    <3> QED BY <3>1, FS_EmptySet DEF TableSize
  <2>5. Apart(0, 0 + 0)
    BY ApartSame
  <2>6. total + Cardinality(Columns(Callers, Short)) = 0
        /\ TableSize + Cardinality(Columns(Callers, Extra)) = 0 + 0
    BY <2>3, <2>4
  <2> QED BY <2>3, <2>5, <2>6 DEF Account
<1> QED BY <1>1, <1>2 DEF Account

LEMMA SizeInit == Init => SizeInv
<1> SUFFICES ASSUME Init PROVE SizeInv
  OBVIOUS
<1>1. \A c \in Callers : task[c].at = "idle"
  BY DEF Init, Idle, AtStep
<1>2. Account /\ total < WordSize
  BY <1>1, Empty DEF Init
<1> QED BY <1>2, InitIInv DEF SizeInv

LEMMA SizeRestart == SizeInv /\ IInv' /\ Restart => SizeInv'
<1> SUFFICES ASSUME SizeInv, IInv', Restart PROVE Account' /\ (total < WordSize)'
  BY DEF SizeInv
<1>1. /\ total' = 0 /\ \A c \in Callers : task'[c].at = "idle"
      /\ backend' = "memory" => table' = [k \in Ids |-> NoRow]
  BY DEF Restart, Idle, AtStep
<1>2. (/\ total = 0 /\ \A c \in Callers : task[c].at = "idle"
       /\ backend = "memory" => table = [k \in Ids |-> NoRow]
       => Account /\ total < WordSize)'
  BY Empty, PTL
<1> QED BY <1>1, <1>2

LEMMA SizeNext == SizeInv /\ [Next]_vars => SizeInv'
<1> SUFFICES ASSUME SizeInv, [Next]_vars PROVE SizeInv'
  OBVIOUS
<1>0. IInv /\ IInv'
  BY NextSteps DEF Steps, SizeInv
<1>1. CASE Restart
  BY <1>0, <1>1, SizeRestart
<1>2. CASE UNCHANGED vars
  <2>1. Bytes' = Bytes /\ Extra' = Extra /\ Short' = Short
    BY <1>2 DEF vars, Bytes, SizeOf, Extra, Short, Id
  <2>2. Account'
    BY <1>2, <2>1 DEF vars, SizeInv, Account, TableSize
  <2> QED BY <1>0, <1>2, <2>2 DEF vars, SizeInv
<1>3. ASSUME NEW c \in Callers,
             \/ \E op \in Contract!Operations : Begin(c, op)
             \/ \E seen \in Visits(c) : Visit(c, seen)
             \/ Load(c) \/ Exists(c) \/ StatsSize(c) \/ Return(c)
      PROVE  SizeInv'
  <2>1. UNCHANGED <<backend, table, total, overlapped>>
    BY <1>3 DEF Begin, Visit, Load, Exists, StatsSize, Return
  <2>2. task \in [Callers -> TaskRecord] /\ task[c] \in TaskRecord
    BY <1>0 DEF IInv, TypeOK
  <2>3. \A d \in Callers \ {c} : task'[d] = task[d]
    BY <1>3, <2>2 DEF Begin, Visit, Load, Exists, StatsSize, Return, Done
  <2>4. task[c].at \in {"idle", "start", "size", "done"}
    <3>1. CASE \E op \in Contract!Operations : Begin(c, op)
      BY <3>1 DEF Begin, Idle, AtStep
    <3>2. CASE \E seen \in Visits(c) : Visit(c, seen)
      BY <3>2 DEF Visit
    <3>3. CASE Load(c) \/ Exists(c) \/ StatsSize(c) \/ Return(c)
      BY <3>3 DEF Load, Exists, StatsSize, Return, At
    <3> QED BY <1>3, <3>1, <3>2, <3>3
  <2>5. task'[c].at \in {"idle", "start", "size", "done"}
    <3>1. CASE \E op \in Contract!Operations : Begin(c, op)
      BY <2>2, <3>1 DEF Begin, Task, AtStep
    <3>2. CASE \E seen \in Visits(c) : Visit(c, seen)
      <4>1. PICK seen \in Visits(c) : Visit(c, seen)
        BY <3>2
      <4> DEFINE then == IF ~(task[c].todo \subseteq seen) THEN "start"
                         ELSE IF task[c].op.do = "stats" /\ backend # "sqlite" THEN "size"
                         ELSE "done"
                 answer == IF then = "done" THEN "ok" ELSE Pending
                 size == IF backend = "sqlite" THEN TableSize ELSE 0
                 todo == task[c].todo \ seen
                 found == task[c].found \cup (seen \cap Takes(c))
      <4>2. task' = [task EXCEPT ![c].todo = todo, ![c].found = found, ![c].answer = answer,
                                 ![c].size = size, ![c].at = then]
        BY <4>1 DEF Visit
      <4>3. then \in {"start", "size", "done"}
        OBVIOUS
      <4> HIDE DEF then, answer, size, todo, found
      <4>4. task'[c].at = then
        BY <2>2, <4>2 DEF TaskRecord
      <4> QED BY <4>3, <4>4
    <3>3. CASE Load(c) \/ Exists(c) \/ StatsSize(c)
      BY <2>2, <3>3 DEF Load, Exists, StatsSize, Done, TaskRecord
    <3>4. CASE Return(c)
      BY <2>2, <3>4 DEF Return, Idle, AtStep
    <3> QED BY <1>3, <3>1, <3>2, <3>3, <3>4
  <2> QED BY <1>0, <2>1, <2>3, <2>4, <2>5, QuietSteps
<1>4. ASSUME NEW c \in Callers,
             SqlStore(c) \/ SqlDelete(c) \/ SqlError(c) \/ ListDropsRows(c)
      PROVE  SizeInv'
  BY <1>0, <1>4 DEF SqlStore, SqlDelete, SqlError, ListDropsRows, SizeInv, Account
<1>5. ASSUME NEW c \in Callers,
             \/ MemoryStoreSub(c) \/ MemoryStoreAdd(c) \/ MemoryStoreInsert(c)
             \/ MemoryDelete(c) \/ MemoryDeleteSub(c)
      PROVE  SizeInv'
  BY <1>0, <1>5, SubKeeps, AddKeeps, InsertKeeps, DeleteKeeps, DeleteSubKeeps
<1> QED BY <1>1, <1>2, <1>3, <1>4, <1>5 DEF Next

\* total_size of MemoryStorage (memory.rs) is the size of its rows whenever no
\* call is under way and no row changed between the two accesses of a store:
\* SizeIsExact, for every number of callers and every width of usize.
THEOREM SizeExact == Spec => []SizeIsExact
<1>1. SizeInv => SizeIsExact
  <2> SUFFICES ASSUME SizeInv, backend = "memory", ~overlapped,
                      \A c \in Callers : task[c].at \in {"idle", "done"}
               PROVE  total = Wrap(TableSize)
    BY DEF SizeIsExact
  <2>1. \A c \in Callers : Extra[c] = 0 /\ Short[c] = 0
    BY Settled
  <2>2. Extra \in [Callers -> Nat] /\ Short \in [Callers -> Nat]
    BY AccountsTyped DEF SizeInv
  <2>3. Cardinality(Columns(Callers, Extra)) = 0 /\ Cardinality(Columns(Callers, Short)) = 0
    BY <2>1, <2>2, NoColumns
  <2>4. total \in Nat /\ TableSize \in Nat
    BY FS_CardinalityType DEF SizeInv, IInv, TypeOK, TableSize
  <2>5. Apart(total + 0, TableSize + 0) /\ total + 0 = total /\ TableSize + 0 = TableSize
    BY <2>3, <2>4 DEF SizeInv, Account
  <2> QED BY <2>4, <2>5, WrapUnique DEF SizeInv
<1> QED BY SizeInit, SizeNext, <1>1, PTL DEF Spec
=============================================================================
