---------------------------- MODULE ContentProofs -----------------------------
(***************************************************************************)
(* What commands do to the content of documents, for any commands, ids,    *)
(* paths, values and width of integers: a write is read back and changes   *)
(* nothing beside its path, a refusal changes nothing, and a counter is    *)
(* the sum of its INCs.                                                    *)
(***************************************************************************)
EXTENDS Content, NaturalsInduction, WellFoundedInduction, TLAPS

\* Every non-empty set of numbers has a least one.
LEMMA LeastNat ==
    ASSUME NEW T \in SUBSET Nat, T # {}
    PROVE  \E x \in T : \A y \in T : x <= y
<1>1. \E R : IsWellFoundedOn(R, Nat) /\ \A x, y \in Nat : <<y, x>> \in R <=> y < x
  <2>1. \A x, y \in Nat : <<y, x>> \in OpToRel(<, Nat) <=> y < x
    BY DEF OpToRel
  <2> QED BY <2>1, NatLessThanWellFounded
<1>2. PICK R : IsWellFoundedOn(R, Nat) /\ \A x, y \in Nat : <<y, x>> \in R <=> y < x
  BY <1>1
<1>3. PICK x \in T : \A y \in T : ~(<<y, x>> \in R)
  BY <1>2, WFMin
<1>4. ASSUME NEW y \in T PROVE x <= y
  <2>1. x \in Nat /\ y \in Nat
    OBVIOUS
  <2>2. ~(y < x)
    BY <2>1, <1>2, <1>3, Zenon
  <2> QED BY <2>1, <2>2
<1> QED BY <1>4

\* What holds of 0 and goes from n to n + 1 holds of all numbers up to L.
LEMMA UpTo ==
    ASSUME NEW L \in Nat, NEW T \in SUBSET (0..L), 0 \in T,
           \A n \in T : n < L => n + 1 \in T
    PROVE  T = 0..L
<1> DEFINE U == (0..L) \ T
<1>1. SUFFICES ASSUME U # {} PROVE FALSE
  OBVIOUS
<1>2. PICK u \in U : \A y \in U : u <= y
  <2>1. U \in SUBSET Nat
    OBVIOUS
  <2> QED BY <1>1, <2>1, LeastNat
<1>3. u \in 1..L /\ u - 1 \in 0..L /\ u - 1 \notin U
  BY <1>2
<1>4. u - 1 \in T /\ u - 1 < L /\ (u - 1) + 1 = u
  BY <1>3
<1> QED BY <1>2, <1>4

-----------------------------------------------------------------------------
(***************************************************************************)
(* The loops of get_path and set_path, segment by segment: there are such  *)
(* functions, since there are for the first segments, and then for one     *)
(* more.                                                                   *)
(***************************************************************************)
Further(f, s) == IF f = Nothing THEN Nothing ELSE Inside(f[1], s)

\* What get_path finds on the first m segments of s.
FoundTo(f, value, s, m) ==
    f = [n \in 0..m |-> IF n = 0 THEN <<value>> ELSE Further(f[n - 1], s[n])]

LEMMA FoundExists ==
    ASSUME NEW value, NEW s, Len(s) \in Nat
    PROVE  \E f : FoundTo(f, value, s, Len(s))
<1> DEFINE T == {m \in 0..Len(s) : \E f : FoundTo(f, value, s, m)}
<1>1. \E f : FoundTo(f, value, s, 0)
  <2> DEFINE f == [n \in 0..0 |-> <<value>>]
  <2>1. FoundTo(f, value, s, 0)
    BY DEF FoundTo
  <2> QED BY <2>1
<1>2. ASSUME NEW m \in 0..Len(s), m < Len(s), NEW f, FoundTo(f, value, s, m)
      PROVE  \E g : FoundTo(g, value, s, m + 1)
  <2> DEFINE g == [n \in 0..(m + 1) |-> IF n = m + 1 THEN Further(f[m], s[m + 1]) ELSE f[n]]
             h == [n \in 0..(m + 1) |-> IF n = 0 THEN <<value>> ELSE Further(g[n - 1], s[n])]
  <2>1. \A n \in 0..m : f[n] = IF n = 0 THEN <<value>> ELSE Further(f[n - 1], s[n])
    BY <1>2 DEF FoundTo
  <2>2. \A n \in 0..(m + 1) : g[n] = IF n = m + 1 THEN Further(f[m], s[m + 1]) ELSE f[n]
    OBVIOUS
  <2>3. \A n \in 0..(m + 1) : h[n] = IF n = 0 THEN <<value>> ELSE Further(g[n - 1], s[n])
    OBVIOUS
  <2>4. DOMAIN g = 0..(m + 1) /\ DOMAIN h = 0..(m + 1)
    OBVIOUS
  <2>5. g = [n \in 0..(m + 1) |-> g[n]] /\ h = [n \in 0..(m + 1) |-> h[n]]
    OBVIOUS
  <2> HIDE DEF g, h
  <2>6. ASSUME NEW n \in 0..(m + 1) PROVE g[n] = h[n]
    <3>1. CASE n = 0
      BY <3>1, <2>1, <2>2, <2>3
    <3>2. CASE n = m + 1
      <4>1. g[m] = f[m]
        BY <2>2
      <4> QED BY <3>2, <4>1, <2>2, <2>3
    <3>3. CASE n \in 1..m
      <4>1. g[n - 1] = f[n - 1] /\ g[n] = f[n]
        BY <3>3, <2>2
      <4> QED BY <3>3, <4>1, <2>1, <2>3
    <3> QED BY <3>1, <3>2, <3>3
  <2>7. g = h
    BY <2>5, <2>6
  <2>8. FoundTo(g, value, s, m + 1)
    BY <2>7 DEF FoundTo, h
  <2> QED BY <2>8
<1>3. T \in SUBSET (0..Len(s)) /\ 0 \in T
  BY <1>1
<1>4. \A m \in T : m < Len(s) => m + 1 \in T
  BY <1>2
<1> HIDE DEF T
<1>5. T = 0..Len(s)
  BY <1>3, <1>4, UpTo
<1>6. Len(s) \in T
  BY <1>5
<1> QED BY <1>6 DEF T

LEMMA FoundIs ==
    ASSUME NEW value, NEW s, Len(s) \in Nat
    PROVE  /\ Found(value, s)[0] = <<value>>
           /\ \A n \in 1..Len(s) : Found(value, s)[n] = Further(Found(value, s)[n - 1], s[n])
<1>1. \E f : f = [n \in 0..Len(s) |-> IF n = 0 THEN <<value>> ELSE Further(f[n - 1], s[n])]
  BY FoundExists DEF FoundTo
<1>2. Found(value, s) = [n \in 0..Len(s) |->
         IF n = 0 THEN <<value>> ELSE Further(Found(value, s)[n - 1], s[n])]
  BY <1>1, Zenon DEF Found, Further
<1>3. PICK f : f = Found(value, s)
  OBVIOUS
<1>4. f = [n \in 0..Len(s) |-> IF n = 0 THEN <<value>> ELSE Further(f[n - 1], s[n])]
  BY <1>2, <1>3
<1>5. f[0] = <<value>> /\ \A n \in 1..Len(s) : f[n] = Further(f[n - 1], s[n])
  BY <1>4
<1> QED BY <1>3, <1>5

\* What there is on the way, as set_path takes it.
Current(f) == IF f = Nothing THEN Null ELSE f[1]

\* What set_path builds from segment m on.
BuiltFrom(f, value, s, new, m) ==
    f = [n \in m..Len(s) |->
           IF n = Len(s) THEN new ELSE With(Current(Found(value, s)[n]), s[n + 1], f[n + 1])]

LEMMA BuiltExists ==
    ASSUME NEW value, NEW s, NEW new, Len(s) \in Nat
    PROVE  \E f : BuiltFrom(f, value, s, new, 0)
<1> DEFINE c(n) == Current(Found(value, s)[n])
           T == {m \in 0..Len(s) : \E f : BuiltFrom(f, value, s, new, Len(s) - m)}
<1>1. \E f : BuiltFrom(f, value, s, new, Len(s) - 0)
  <2> DEFINE f == [n \in Len(s)..Len(s) |-> new]
  <2>1. BuiltFrom(f, value, s, new, Len(s))
    BY DEF BuiltFrom
  <2>2. Len(s) - 0 = Len(s)
    OBVIOUS
  <2> QED BY <2>1, <2>2
<1>2. ASSUME NEW m \in 1..Len(s), NEW f, BuiltFrom(f, value, s, new, m)
      PROVE  \E g : BuiltFrom(g, value, s, new, m - 1)
  <2> DEFINE g == [n \in (m - 1)..Len(s) |-> IF n = m - 1 THEN With(c(m - 1), s[m], f[m]) ELSE f[n]]
             h == [n \in (m - 1)..Len(s) |->
                     IF n = Len(s) THEN new ELSE With(c(n), s[n + 1], g[n + 1])]
  <2>1. \A n \in m..Len(s) : f[n] = IF n = Len(s) THEN new ELSE With(c(n), s[n + 1], f[n + 1])
    BY <1>2 DEF BuiltFrom
  <2>2. \A n \in (m - 1)..Len(s) : g[n] = IF n = m - 1 THEN With(c(m - 1), s[m], f[m]) ELSE f[n]
    OBVIOUS
  <2>3. \A n \in (m - 1)..Len(s) : h[n] = IF n = Len(s) THEN new ELSE With(c(n), s[n + 1], g[n + 1])
    OBVIOUS
  <2>5. g = [n \in (m - 1)..Len(s) |-> g[n]] /\ h = [n \in (m - 1)..Len(s) |-> h[n]]
    OBVIOUS
  <2> HIDE DEF g, h, c
  <2>6. ASSUME NEW n \in (m - 1)..Len(s) PROVE g[n] = h[n]
    <3>1. CASE n = m - 1
      <4>1. n # Len(s) /\ n + 1 = m /\ g[m] = f[m]
        BY <3>1, <2>2
      <4> QED BY <3>1, <4>1, <2>2, <2>3
    <3>2. CASE n = Len(s)
      BY <3>2, <2>1, <2>2, <2>3
    <3>3. CASE n \in m..(Len(s) - 1)
      <4>1. g[n + 1] = f[n + 1] /\ g[n] = f[n]
        BY <3>3, <2>2
      <4> QED BY <3>3, <4>1, <2>1, <2>3
    <3> QED BY <3>1, <3>2, <3>3
  <2>7. g = h
    BY <2>5, <2>6
  <2>8. BuiltFrom(g, value, s, new, m - 1)
    BY <2>7 DEF BuiltFrom, h, c
  <2> QED BY <2>8
<1>3. T \in SUBSET (0..Len(s)) /\ 0 \in T
  BY <1>1
<1>4. ASSUME NEW m \in T, m < Len(s) PROVE m + 1 \in T
  <2>1. Len(s) - m \in 1..Len(s) /\ Len(s) - (m + 1) = (Len(s) - m) - 1 /\ m + 1 \in 0..Len(s)
    BY <1>4
  <2> QED BY <1>2, <2>1
<1> HIDE DEF T
<1>5. T = 0..Len(s)
  BY <1>3, <1>4, UpTo
<1>6. Len(s) \in T /\ Len(s) - Len(s) = 0
  BY <1>5
<1> QED BY <1>6 DEF T

LEMMA BuiltIs ==
    ASSUME NEW value, NEW s, NEW new, Len(s) \in Nat
    PROVE  /\ Built(value, s, new)[Len(s)] = new
           /\ \A n \in 1..Len(s) :
                 Built(value, s, new)[n - 1] =
                   With(Current(Found(value, s)[n - 1]), s[n], Built(value, s, new)[n])
<1>1. \E f : f = [n \in 0..Len(s) |-> IF n = Len(s) THEN new
                        ELSE With(Current(Found(value, s)[n]), s[n + 1], f[n + 1])]
  <2>1. \E f : BuiltFrom(f, value, s, new, 0)
    BY BuiltExists
  <2> QED BY <2>1, Zenon DEF BuiltFrom
<1>2. Built(value, s, new) = [n \in 0..Len(s) |-> IF n = Len(s) THEN new
         ELSE With(Current(Found(value, s)[n]), s[n + 1], Built(value, s, new)[n + 1])]
  BY <1>1, Zenon DEF Built, Current
<1>3. PICK f : f = Built(value, s, new)
  OBVIOUS
<1>4. f = [n \in 0..Len(s) |-> IF n = Len(s) THEN new
                        ELSE With(Current(Found(value, s)[n]), s[n + 1], f[n + 1])]
  BY <1>2, <1>3
<1>5. f[Len(s)] = new
  BY <1>4
<1>6. ASSUME NEW n \in 1..Len(s)
      PROVE  f[n - 1] = With(Current(Found(value, s)[n - 1]), s[n], f[n])
  <2>1. n - 1 \in 0..Len(s) /\ n - 1 # Len(s) /\ (n - 1) + 1 = n
    OBVIOUS
  <2> QED BY <1>4, <2>1
<1> QED BY <1>3, <1>5, <1>6

-----------------------------------------------------------------------------
(***************************************************************************)
(* What is inside a value.                                                 *)
(***************************************************************************)
LEMMA Options ==
    ASSUME NEW value, NEW s, Len(s) \in Nat, NEW n \in 0..Len(s)
    PROVE  \/ Found(value, s)[n] = Nothing
           \/ \E v : Found(value, s)[n] = <<v>>
<1>1. CASE n = 0
  BY <1>1, FoundIs
<1>2. CASE n \in 1..Len(s)
  <2>1. PICK f : f = Found(value, s)[n - 1]
    OBVIOUS
  <2>2. Found(value, s)[n] = Further(f, s[n])
    BY <1>2, <2>1, FoundIs
  <2>3. Inside(f[1], s[n]) = Nothing \/ \E v : Inside(f[1], s[n]) = <<v>>
    BY Zenon DEF Inside
  <2> QED BY <2>2, <2>3, Zenon DEF Further
<1> QED BY <1>1, <1>2

LEMMA NothingOrOne == \A v : <<v>> # Nothing /\ <<v>>[1] = v
  BY DEF Nothing

LEMMA CurrentOf == Current(Nothing) = Null /\ \A v : Current(<<v>>) = v
  BY DEF Nothing, Current

LEMMA InsideNull == \A t : Inside(Null, t) = Nothing
  BY DEF Inside, Null

LEMMA Inserted ==
    ASSUME NEW map, NEW key, NEW x
    PROVE  /\ key \in DOMAIN Insert(map, key, x) /\ Insert(map, key, x)[key] = x
           /\ \A k : k # key => /\ k \in DOMAIN Insert(map, key, x) <=> k \in DOMAIN map
                                /\ k \in DOMAIN map => Insert(map, key, x)[k] = map[k]
  BY DEF Insert

\* An array padded up to an index, with x there.
Padded(items, index, x) == [Pad(items, index) EXCEPT ![index + 1] = x]

LEMMA PaddedHolds ==
    ASSUME NEW items, NEW index \in Nat, NEW x
    PROVE  /\ index + 1 \in DOMAIN Padded(items, index, x)
           /\ Padded(items, index, x)[index + 1] = x
  BY DEF Padded, Pad

LEMMA PaddedKeeps ==
    ASSUME NEW items, NEW index \in Nat, NEW x
    PROVE  \A i : i # index + 1 =>
              /\ i \in DOMAIN items => /\ i \in DOMAIN Padded(items, index, x)
                                      /\ Padded(items, index, x)[i] = items[i]
              /\ i \notin DOMAIN items /\ i \in DOMAIN Padded(items, index, x) =>
                    Padded(items, index, x)[i] = Null
  BY DEF Padded, Pad

LEMMA WithHolds ==
    ASSUME NEW value, NEW s \in Segment, NEW x
    PROVE  Inside(With(value, s, x), s) = <<x>>
<1>1. CASE s.tag = "key"
  <2>1. PICK map : With(value, s, x) = Obj(Insert(map, s.key, x))
    BY <1>1 DEF With
  <2> QED BY <1>1, <2>1, Inserted DEF Inside, Obj
<1>2. CASE s.tag = "index"
  <2>1. PICK items : With(value, s, x) = Arr(Padded(items, s.index, x))
    BY <1>2 DEF With, Padded
  <2>2. PICK index \in Nat : index = s.index
    BY <1>2 DEF Segment
  <2>3. PICK new : new = Padded(items, index, x)
    OBVIOUS
  <2>4. index + 1 \in DOMAIN new /\ new[index + 1] = x
    BY <2>3, PaddedHolds
  <2>5. With(value, s, x) = [tag |-> "array", items |-> new]
    BY <2>1, <2>2, <2>3 DEF Arr
  <2> QED BY <1>2, <2>2, <2>4, <2>5 DEF Inside
<1> QED BY <1>1, <1>2 DEF Segment

\* What set_path does to the other places of a value on the way.
LEMMA WithKeeps ==
    ASSUME NEW value, NEW s \in Segment, NEW t \in Segment, s # t, NEW x
    PROVE  /\ Fits(s, value) => \/ Inside(With(value, s, x), t) = Inside(value, t)
                                \/ /\ Inside(value, t) = Nothing
                                   /\ Inside(With(value, s, x), t) = <<Null>>
           /\ ~Fits(s, value) => /\ Inside(With(value, s, x), t) \in {Nothing, <<Null>>}
                                 /\ Inside(value, t) # Nothing => s.tag # t.tag
<1>0. /\ s.tag \in {"key", "index"} /\ t.tag \in {"key", "index"}
      /\ s.tag = "key" /\ t.tag = "key" => s.key # t.key
      /\ s.tag = "index" => s.index \in Nat
      /\ t.tag = "index" => t.index \in Nat
      /\ s.tag = "index" /\ t.tag = "index" => s.index # t.index
  BY DEF Segment
<1>1. CASE s.tag = "key"
  <2> DEFINE map == IF Fits(s, value) THEN value.map ELSE Nothing
  <2>1. With(value, s, x) = Obj(Insert(map, s.key, x))
    BY <1>1 DEF With
  <2>2. Fits(s, value) <=> value.tag = "object"
    BY <1>1 DEF Fits
  <2>3. ~Fits(s, value) => DOMAIN map = {}
    BY DEF Nothing
  <2>4. Fits(s, value) => map = value.map
    OBVIOUS
  <2>5. PICK new : new = Insert(map, s.key, x)
    OBVIOUS
  <2>6. \A k : k # s.key => /\ k \in DOMAIN new <=> k \in DOMAIN map
                            /\ k \in DOMAIN map => new[k] = map[k]
    BY <2>5, Inserted
  <2> HIDE DEF map
  <2>7. With(value, s, x) = [tag |-> "object", map |-> new]
    BY <2>1, <2>5 DEF Obj
  <2>8. CASE t.tag = "key"
    <3>1. Inside(With(value, s, x), t) = IF t.key \in DOMAIN map THEN <<map[t.key]>> ELSE Nothing
      BY <1>0, <1>1, <2>6, <2>7, <2>8 DEF Inside
    <3>2. Inside(value, t) = IF value.tag = "object" /\ t.key \in DOMAIN value.map
                             THEN <<value.map[t.key]>> ELSE Nothing
      BY <2>8 DEF Inside
    <3> QED BY <3>1, <3>2, <2>2, <2>3, <2>4
  <2>9. CASE t.tag = "index"
    <3>1. Inside(With(value, s, x), t) = Nothing
      BY <2>7, <2>9 DEF Inside
    <3>2. value.tag = "object" => Inside(value, t) = Nothing
      BY <2>9 DEF Inside
    <3> QED BY <3>1, <3>2, <2>2, <2>9, <1>1
  <2> QED BY <1>0, <2>8, <2>9
<1>2. CASE s.tag = "index"
  <2> DEFINE items == IF Fits(s, value) THEN value.items ELSE <<>>
  <2>1. With(value, s, x) = Arr(Padded(items, s.index, x))
    BY <1>2 DEF With, Padded
  <2>2. Fits(s, value) <=> value.tag = "array"
    BY <1>2 DEF Fits
  <2>3. ~Fits(s, value) => DOMAIN items = {}
    OBVIOUS
  <2>4. Fits(s, value) => items = value.items
    OBVIOUS
  <2>5. PICK new : new = Padded(items, s.index, x)
    OBVIOUS
  <2> HIDE DEF items
  <2>6. \A i : i # s.index + 1 =>
          /\ i \in DOMAIN items => i \in DOMAIN new /\ new[i] = items[i]
          /\ i \notin DOMAIN items /\ i \in DOMAIN new => new[i] = Null
    BY <1>0, <1>2, <2>5, PaddedKeeps
  <2>7. With(value, s, x) = [tag |-> "array", items |-> new]
    BY <2>1, <2>5 DEF Arr
  <2>8. CASE t.tag = "index"
    <3>1. Inside(With(value, s, x), t) = IF t.index + 1 \in DOMAIN new THEN <<new[t.index + 1]>> ELSE Nothing
      BY <2>7, <2>8 DEF Inside
    <3>2. Inside(value, t) = IF value.tag = "array" /\ t.index + 1 \in DOMAIN value.items
                             THEN <<value.items[t.index + 1]>> ELSE Nothing
      BY <2>8 DEF Inside
    <3>3. t.index + 1 # s.index + 1
      BY <1>0, <1>2, <2>8
    <3> QED BY <3>1, <3>2, <3>3, <2>2, <2>3, <2>4, <2>6
  <2>9. CASE t.tag = "key"
    <3>1. Inside(With(value, s, x), t) = Nothing
      BY <2>7, <2>9 DEF Inside
    <3>2. value.tag = "array" => Inside(value, t) = Nothing
      BY <2>9 DEF Inside
    <3> QED BY <3>1, <3>2, <2>2, <2>9, <1>2
  <2> QED BY <1>0, <2>8, <2>9
<1> QED BY <1>0, <1>1, <1>2

-----------------------------------------------------------------------------
(***************************************************************************)
(* get_path along paths that go together, and where they part.             *)
(***************************************************************************)
\* From the same place the same segments lead to the same place.
LEMMA Together ==
    ASSUME NEW v, NEW w, NEW s, NEW t, Len(s) \in Nat, Len(t) \in Nat,
           NEW m \in Nat, NEW n \in Nat, m <= n, n <= Len(s), n <= Len(t),
           Found(v, s)[m] = Found(w, t)[m],
           \A i \in (m + 1)..n : s[i] = t[i]
    PROVE  Found(v, s)[n] = Found(w, t)[n]
<1> DEFINE T == {k \in 0..(n - m) : Found(v, s)[m + k] = Found(w, t)[m + k]}
<1>1. T \in SUBSET (0..(n - m)) /\ 0 \in T /\ n - m \in Nat
  OBVIOUS
<1>2. ASSUME NEW k \in T, k < n - m PROVE k + 1 \in T
  <2>1. PICK i \in 1..n : i = m + (k + 1) /\ i - 1 = m + k /\ i \in (m + 1)..n
    BY <1>2
  <2>2. i \in 1..Len(s) /\ i \in 1..Len(t) /\ s[i] = t[i]
    BY <2>1
  <2>3. Found(v, s)[i - 1] = Found(w, t)[i - 1]
    BY <2>1
  <2>4. Found(v, s)[i] = Further(Found(v, s)[i - 1], s[i])
    BY <2>2, FoundIs
  <2>5. Found(w, t)[i] = Further(Found(w, t)[i - 1], t[i])
    BY <2>2, FoundIs
  <2>6. Found(v, s)[i] = Found(w, t)[i]
    BY <2>2, <2>3, <2>4, <2>5
  <2>7. k + 1 \in 0..(n - m)
    BY <1>2, <1>1
  <2> QED BY <2>1, <2>6, <2>7
<1> HIDE DEF T
<1>3. T = 0..(n - m)
  BY <1>1, <1>2, UpTo
<1>4. n - m \in T /\ m + (n - m) = n
  BY <1>1, <1>3
<1> QED BY <1>4 DEF T

\* Behind nothing there is nothing.
LEMMA NothingBehind ==
    ASSUME NEW v, NEW s, Len(s) \in Nat, NEW m \in 0..Len(s), Found(v, s)[m] = Nothing
    PROVE  \A n \in m..Len(s) : Found(v, s)[n] = Nothing
<1> DEFINE T == {k \in 0..(Len(s) - m) : Found(v, s)[m + k] = Nothing}
<1>1. T \in SUBSET (0..(Len(s) - m)) /\ 0 \in T /\ Len(s) - m \in Nat
  OBVIOUS
<1>2. ASSUME NEW k \in T, k < Len(s) - m PROVE k + 1 \in T
  <2>1. PICK i \in 1..Len(s) : i = m + (k + 1) /\ i - 1 = m + k
    BY <1>2
  <2>2. Found(v, s)[i] = Further(Found(v, s)[i - 1], s[i])
    BY FoundIs
  <2>3. Found(v, s)[i] = Nothing
    BY <2>1, <2>2 DEF Further
  <2>4. k + 1 \in 0..(Len(s) - m)
    BY <1>2, <1>1
  <2> QED BY <2>1, <2>3, <2>4
<1> HIDE DEF T
<1>3. T = 0..(Len(s) - m)
  BY <1>1, <1>2, UpTo
<1>4. ASSUME NEW n \in m..Len(s) PROVE Found(v, s)[n] = Nothing
  <2>1. n - m \in T /\ m + (n - m) = n
    BY <1>3
  <2> QED BY <2>1 DEF T
<1> QED BY <1>4

\* ... and in a Null.
LEMMA NullBehind ==
    ASSUME NEW v, NEW s, Len(s) \in Nat, NEW m \in 0..Len(s),
           Found(v, s)[m] \in {Nothing, <<Null>>}, m # Len(s) \/ Found(v, s)[m] = Nothing
    PROVE  Found(v, s)[Len(s)] = Nothing
<1>1. CASE Found(v, s)[m] = Nothing
  BY <1>1, NothingBehind
<1>2. CASE Found(v, s)[m] = <<Null>> /\ m # Len(s)
  <2>1. m + 1 \in 1..Len(s) /\ (m + 1) - 1 = m
    BY <1>2
  <2>2. Found(v, s)[m + 1] = Further(Found(v, s)[m], s[m + 1])
    BY <2>1, FoundIs
  <2>3. Found(v, s)[m + 1] = Nothing
    BY <1>2, <2>2, InsideNull, NothingOrOne DEF Further
  <2> QED BY <2>1, <2>3, NothingBehind
<1>3. Found(v, s)[m] = <<Null>> => <<Null>> # Nothing
  BY NothingOrOne
<1> QED BY <1>1, <1>2, <1>3

\* get_path of the first segments.
LEMMA OnTheWay ==
    ASSUME NEW v, NEW S, NEW s \in Seq(S), NEW n \in 0..Len(s)
    PROVE  GetAt(v, SubSeq(s, 1, n)) = Found(v, s)[n]
<1>1. PICK t : t = SubSeq(s, 1, n)
  OBVIOUS
<1>2. Len(t) = n /\ \A i \in 1..n : t[i] = s[i]
  BY <1>1
<1>3. Len(s) \in Nat /\ n \in Nat /\ n <= Len(s) /\ Len(t) \in Nat
  BY <1>2
<1>4. Found(v, t)[0] = Found(v, s)[0]
  BY <1>3, FoundIs
<1>5. Found(v, t)[n] = Found(v, s)[n]
  BY <1>2, <1>3, <1>4, Together
<1> QED BY <1>1, <1>2, <1>5 DEF GetAt

\* What set_path has built is what get_path then finds.
LEMMA FoundBuilt ==
    ASSUME NEW v, NEW s \in Seq(Segment), NEW new
    PROVE  \A n \in 0..Len(s) : Found(SetAt(v, s, new), s)[n] = <<Built(v, s, new)[n]>>
<1> DEFINE N == SetAt(v, s, new)
           T == {k \in 0..Len(s) : Found(N, s)[k] = <<Built(v, s, new)[k]>>}
<1>1. Len(s) \in Nat
  OBVIOUS
<1>2. 0 \in T
  BY <1>1, FoundIs DEF SetAt
<1>3. ASSUME NEW k \in T, k < Len(s) PROVE k + 1 \in T
  <2>1. PICK i \in 1..Len(s) : i = k + 1 /\ i - 1 = k
    BY <1>3
  <2>2. PICK x : x = Built(v, s, new)[i]
    OBVIOUS
  <2>3. Built(v, s, new)[k] = With(Current(Found(v, s)[k]), s[i], x)
    BY <1>1, <2>1, <2>2, BuiltIs
  <2>4. Inside(Built(v, s, new)[k], s[i]) = <<x>>
    BY <2>3, WithHolds
  <2>5. Found(N, s)[i] = Further(Found(N, s)[k], s[i])
    BY <1>1, <2>1, FoundIs
  <2>6. Found(N, s)[k] = <<Built(v, s, new)[k]>>
    OBVIOUS
  <2>7. Found(N, s)[i] = <<x>>
    BY <2>4, <2>5, <2>6, NothingOrOne DEF Further
  <2> QED BY <2>1, <2>2, <2>7
<1>4. T \in SUBSET (0..Len(s))
  OBVIOUS
<1> HIDE DEF T
<1>5. T = 0..Len(s)
  BY <1>1, <1>2, <1>3, <1>4, UpTo
<1> QED BY <1>5 DEF T

LEMMA ReadBack ==
    ASSUME NEW v, NEW s \in Seq(Segment), NEW new
    PROVE  GetAt(SetAt(v, s, new), s) = <<new>>
<1>1. Len(s) \in Nat /\ Len(s) \in 0..Len(s)
  OBVIOUS
<1>2. Built(v, s, new)[Len(s)] = new
  BY <1>1, BuiltIs
<1>3. Found(SetAt(v, s, new), s)[Len(s)] = <<Built(v, s, new)[Len(s)]>>
  BY <1>1, FoundBuilt
<1> QED BY <1>2, <1>3 DEF GetAt

\* Two paths neither of which is a prefix of the other part at some segment.
LEMMA Parting ==
    ASSUME NEW s \in Seq(Segment), NEW q \in Seq(Segment), ~IsPrefix(s, q), ~IsPrefix(q, s)
    PROVE  \E j \in 1..Len(s) : /\ j <= Len(q) /\ s[j] # q[j]
                               /\ \A i \in 1..(j - 1) : s[i] = q[i]
                               /\ SubSeq(s, 1, j - 1) = SubSeq(q, 1, j - 1)
<1> DEFINE T == {j \in 1..Len(s) : j <= Len(q) /\ s[j] # q[j]}
<1>1. T # {}
  <2> SUFFICES ASSUME \A j \in 1..Len(s) : j <= Len(q) => s[j] = q[j] PROVE FALSE
    OBVIOUS
  <2>1. CASE Len(s) <= Len(q)
    <3>1. SubSeq(s, 1, Len(s)) = SubSeq(q, 1, Len(s))
      BY <2>1
    <3> QED BY <2>1, <3>1 DEF IsPrefix
  <2>2. CASE Len(q) <= Len(s)
    <3>1. SubSeq(s, 1, Len(q)) = SubSeq(q, 1, Len(q))
      BY <2>2
    <3> QED BY <2>2, <3>1 DEF IsPrefix
  <2> QED BY <2>1, <2>2
<1>2. PICK j \in T : \A i \in T : j <= i
  <2>1. T \in SUBSET Nat
    OBVIOUS
  <2> QED BY <1>1, <2>1, LeastNat
<1>3. \A i \in 1..(j - 1) : s[i] = q[i]
  BY <1>2
<1>4. SubSeq(s, 1, j - 1) = SubSeq(q, 1, j - 1)
  BY <1>3
<1> QED BY <1>3, <1>4

\* What set_path at s makes of another path q: what was there, or a Null in an
\* array that has grown, or an end where a value of the wrong kind gave way.
Spared(v, s, q, new) ==
    \/ GetAt(SetAt(v, s, new), q) = GetAt(v, q)
    \/ GetAt(v, q) = Nothing /\ GetAt(SetAt(v, s, new), q) = <<Null>>

Cut(v, s, q, new) ==
    /\ GetAt(SetAt(v, s, new), q) \in {Nothing, <<Null>>}
    /\ \E n \in Clobbered(v, s) :
          /\ n < Len(q) /\ n < Len(s) /\ n \in Nat
          /\ SubSeq(s, 1, n) = SubSeq(q, 1, n)
          /\ GetAt(v, q) # Nothing => s[n + 1].tag # q[n + 1].tag

LEMMA Untouched ==
    ASSUME NEW v, NEW s \in Seq(Segment), NEW q \in Seq(Segment), NEW new,
           ~IsPrefix(s, q), ~IsPrefix(q, s)
    PROVE  Spared(v, s, q, new) \/ Cut(v, s, q, new)
<1>1. PICK j \in 1..Len(s) : /\ j <= Len(q) /\ s[j] # q[j]
                             /\ \A i \in 1..(j - 1) : s[i] = q[i]
                             /\ SubSeq(s, 1, j - 1) = SubSeq(q, 1, j - 1)
  BY Parting
<1>2. PICK m \in Nat : /\ m = j - 1 /\ m + 1 = j /\ m < Len(s) /\ m < Len(q)
                       /\ m \in 0..Len(s) /\ m \in 0..Len(q) /\ j \in 1..Len(q)
                       /\ m \in 0..(Len(s) - 1)
  BY <1>1
<1>3. Len(s) \in Nat /\ Len(q) \in Nat /\ j \in Nat /\ s[j] \in Segment /\ q[j] \in Segment
  BY <1>1, <1>2
<1>4. PICK N : N = SetAt(v, s, new)
  OBVIOUS
<1>5. PICK x : x = Built(v, s, new)[j]
  OBVIOUS
<1>6. PICK f : f = Found(v, s)[m]
  OBVIOUS
<1>7. PICK w : w = With(Current(f), s[j], x)
  OBVIOUS
<1>8. Found(N, s)[m] = <<w>>
  <2>1. Found(N, s)[m] = <<Built(v, s, new)[m]>>
    BY <1>2, <1>4, FoundBuilt
  <2>2. Built(v, s, new)[j - 1] = w
    BY <1>1, <1>2, <1>3, <1>5, <1>6, <1>7, BuiltIs
  <2> QED BY <2>1, <2>2, <1>2
<1>9. \A i \in (0 + 1)..m : s[i] = q[i]
  BY <1>1, <1>2
<1>10. Found(N, q)[m] = <<w>>
  <2>1. Found(N, s)[0] = Found(N, q)[0]
    BY <1>3, FoundIs
  <2>2. Found(N, s)[m] = Found(N, q)[m]
    <3>1. m <= Len(s) /\ m <= Len(q) /\ 0 <= m
      BY <1>2, <1>3
    <3> QED BY <1>3, <1>9, <2>1, <3>1, Together
  <2> QED BY <2>2, <1>8
<1>11. Found(v, q)[m] = f
  <2>1. Found(v, s)[0] = Found(v, q)[0]
    BY <1>3, FoundIs
  <2>2. Found(v, s)[m] = Found(v, q)[m]
    <3>1. m <= Len(s) /\ m <= Len(q) /\ 0 <= m
      BY <1>2, <1>3
    <3> QED BY <1>3, <1>9, <2>1, <3>1, Together
  <2> QED BY <2>2, <1>6
<1>12. Found(N, q)[j] = Inside(w, q[j])
  <2>1. Found(N, q)[j] = Further(Found(N, q)[j - 1], q[j])
    BY <1>2, <1>3, FoundIs
  <2> QED BY <2>1, <1>2, <1>10, NothingOrOne DEF Further
<1>13. Found(v, q)[j] = Further(f, q[j])
  BY <1>2, <1>3, <1>11, FoundIs
<1>14. ASSUME Found(N, q)[j] = Found(v, q)[j] PROVE Spared(v, s, q, new)
  <2>1. \A i \in (j + 1)..Len(q) : q[i] = q[i]
    OBVIOUS
  <2>2. j <= Len(q)
    BY <1>1
  <2>3. Found(N, q)[Len(q)] = Found(v, q)[Len(q)]
    BY <1>3, <1>14, <2>1, <2>2, Together
  <2> QED BY <2>3, <1>4 DEF Spared, GetAt
<1>15. ASSUME Found(v, q)[j] = Nothing, Found(N, q)[j] \in {Nothing, <<Null>>}
       PROVE  Spared(v, s, q, new)
  <2>1. j \in 0..Len(q)
    BY <1>2
  <2>2. Found(v, q)[Len(q)] = Nothing
    <3>1. Len(q) \in j..Len(q)
      BY <1>1, <1>3
    <3> QED BY <1>3, <1>15, <2>1, <3>1, NothingBehind
  <2>3. CASE j # Len(q) \/ Found(N, q)[j] = Nothing
    <3>1. Found(N, q)[Len(q)] = Nothing
      BY <1>3, <1>15, <2>1, <2>3, NullBehind
    <3> QED BY <2>2, <3>1, <1>4 DEF Spared, GetAt
  <2>4. CASE j = Len(q) /\ Found(N, q)[j] = <<Null>>
    BY <2>2, <2>4, <1>4 DEF Spared, GetAt
  <2> QED BY <1>15, <2>3, <2>4
<1>16. CASE f = Nothing
  <2>1. Found(v, q)[j] = Nothing
    BY <1>13, <1>16 DEF Further
  <2>2. Current(f) = Null /\ ~Fits(s[j], Null)
    <3>1. Null.tag = "null"
      BY DEF Null
    <3> QED BY <1>16, <3>1, CurrentOf DEF Fits
  <2>3. Inside(w, q[j]) \in {Nothing, <<Null>>}
    BY <1>1, <1>3, <1>7, <2>2, WithKeeps
  <2> QED BY <1>12, <1>15, <2>1, <2>3
<1>17. ASSUME f # Nothing PROVE Spared(v, s, q, new) \/ Cut(v, s, q, new)
  <2>1. PICK c : f = <<c>>
    BY <1>2, <1>3, <1>6, <1>17, Options
  <2>2. Found(v, q)[j] = Inside(c, q[j])
    BY <1>13, <1>17, <2>1, NothingOrOne DEF Further
  <2>3. w = With(c, s[j], x)
    BY <1>7, <2>1, CurrentOf
  <2>4. CASE Fits(s[j], c)
    <3>1. \/ Inside(w, q[j]) = Inside(c, q[j])
          \/ Inside(c, q[j]) = Nothing /\ Inside(w, q[j]) = <<Null>>
      BY <1>1, <1>3, <2>3, <2>4, WithKeeps
    <3> QED BY <3>1, <2>2, <1>12, <1>14, <1>15
  <2>5. CASE ~Fits(s[j], c)
    <3>1. /\ Inside(w, q[j]) \in {Nothing, <<Null>>}
          /\ Inside(c, q[j]) # Nothing => s[j].tag # q[j].tag
      BY <1>1, <1>3, <2>3, <2>5, WithKeeps
    <3>2. GetAt(N, q) \in {Nothing, <<Null>>}
      <4>1. j \in 0..Len(q)
        BY <1>2
      <4>2. CASE j # Len(q) \/ Found(N, q)[j] = Nothing
        BY <1>3, <1>12, <3>1, <4>1, <4>2, NullBehind DEF GetAt
      <4>3. CASE j = Len(q)
        BY <1>12, <3>1, <4>3 DEF GetAt
      <4> QED BY <4>2, <4>3
    <3>3. m \in Clobbered(v, s)
      <4>1. GetAt(v, SubSeq(s, 1, m)) = f
        BY <1>2, <1>6, OnTheWay
      <4>2. f[1] = c
        BY <2>1, NothingOrOne
      <4> QED BY <1>2, <1>17, <2>5, <4>1, <4>2 DEF Clobbered
    <3>4. GetAt(v, q) # Nothing => s[m + 1].tag # q[m + 1].tag
      <4>1. Found(v, q)[j] = Nothing => Found(v, q)[Len(q)] = Nothing
        <5>1. Len(q) \in j..Len(q) /\ j \in 0..Len(q)
          BY <1>1, <1>2, <1>3
        <5> QED BY <1>3, <5>1, NothingBehind
      <4> QED BY <1>2, <2>2, <3>1, <4>1 DEF GetAt
    <3>5. SubSeq(s, 1, m) = SubSeq(q, 1, m)
      BY <1>1, <1>2
    <3> QED BY <1>2, <1>4, <3>2, <3>3, <3>4, <3>5 DEF Cut
  <2> QED BY <2>4, <2>5
<1> QED BY <1>16, <1>17

-----------------------------------------------------------------------------
(***************************************************************************)
(* The documents.                                                          *)
(***************************************************************************)
IsDoc(d) == d = [strategy |-> d.strategy, data |-> d.data, text |-> d.text]

IsSum(a) ==
    /\ a = [pure |-> a.pure, at |-> a.at] /\ a.pure \in BOOLEAN
    /\ a.at \in [DOMAIN a.at -> Int] /\ DOMAIN a.at \in SUBSET Seq(Segment)

Shaped ==
    /\ docs = [id \in Ids |-> docs[id]] /\ sums = [id \in Ids |-> sums[id]]
    /\ \A id \in Ids : (docs[id] = NoDoc \/ IsDoc(docs[id])) /\ IsSum(sums[id])

LEMMA NewIsDoc == \A strategy : /\ IsDoc(New(strategy)) /\ New(strategy).strategy = strategy
                                /\ New(strategy).data = Obj(Nothing)
  BY DEF IsDoc, New

LEMMA DocIsThere == \A d : IsDoc(d) => d # NoDoc
<1> SUFFICES ASSUME NEW d, IsDoc(d), d = NoDoc PROVE FALSE
  OBVIOUS
<1>1. "data" \in DOMAIN d
  BY DEF IsDoc
<1>2. "data" \notin DOMAIN d
  BY DEF NoDoc
<1> QED BY <1>1, <1>2

LEMMA DocData ==
    ASSUME NEW d, IsDoc(d), NEW x
    PROVE  /\ IsDoc([d EXCEPT !.data = x]) /\ [d EXCEPT !.data = x].data = x
           /\ [d EXCEPT !.data = x].strategy = d.strategy
           /\ [d EXCEPT !.data = x].text = d.text
<1>1. PICK a, b, c : d = [strategy |-> a, data |-> b, text |-> c]
  BY DEF IsDoc
<1>2. [d EXCEPT !.data = x] = [strategy |-> a, data |-> x, text |-> c]
  BY <1>1
<1> QED BY <1>1, <1>2 DEF IsDoc

LEMMA DocText ==
    ASSUME NEW d, IsDoc(d), NEW x
    PROVE  /\ IsDoc([d EXCEPT !.text = x]) /\ [d EXCEPT !.text = x].data = d.data
           /\ [d EXCEPT !.text = x].strategy = d.strategy
           /\ [d EXCEPT !.text = x].text = x
<1>1. PICK a, b, c : d = [strategy |-> a, data |-> b, text |-> c]
  BY DEF IsDoc
<1>2. [d EXCEPT !.text = x] = [strategy |-> a, data |-> b, text |-> x]
  BY <1>1
<1> QED BY <1>1, <1>2 DEF IsDoc

LEMMA Gotten ==
    ASSUME Shaped, NEW id \in Ids, NEW strategy
    PROVE  /\ IsDoc(GetOrCreate(id, strategy))
           /\ docs[id] # NoDoc => GetOrCreate(id, strategy) = docs[id] /\ IsDoc(docs[id])
           /\ docs[id] = NoDoc => GetOrCreate(id, strategy) = New(strategy)
  BY NewIsDoc DEF Shaped, GetOrCreate, Exists

\* What a command does to the documents.
Writes(cmd, d, a) ==
    /\ docs' = [docs EXCEPT ![cmd.id] = d] /\ answer' = a
    /\ OnDocument(cmd) /\ ValidId(cmd.id)

Doc(cmd) == GetOrCreate(cmd.id, IF cmd.kind = "INC" THEN "crdt-counter" ELSE "lww")

\* ... one by one.
Outcome(cmd) ==
    \/ UNCHANGED docs /\ cmd.kind \notin {"SET", "PUSH", "INC"}
    \/ UNCHANGED docs /\ answer' = Error
    \/ cmd.kind = "CREATE" /\ ~Exists(cmd.id) /\ Writes(cmd, New(cmd.strategy), Ok)
    \/ /\ cmd.kind = "SET" /\ Doc(cmd).strategy # "crdt-text"
       /\ Writes(cmd, [Doc(cmd) EXCEPT !.data = SetPath(@, cmd.path, cmd.value)], Ok)
    \/ /\ cmd.kind = "SET" /\ Doc(cmd).strategy = "crdt-text" /\ cmd.value.tag = "string"
       /\ Writes(cmd, [Doc(cmd) EXCEPT !.text = cmd.value.s], Ok)
    \/ cmd.kind \in {"SET", "PUSH"} /\ Writes(cmd, Doc(cmd), Error)
    \/ cmd.kind = "INC" /\ Writes(cmd, Doc(cmd), Panic)
    \/ cmd.kind = "DEL" /\ cmd.path = Nothing /\ Writes(cmd, NoDoc, Ok)
    \/ /\ cmd.kind = "DEL" /\ cmd.path # Nothing /\ Exists(cmd.id)
       /\ Writes(cmd, [docs[cmd.id] EXCEPT !.data = SetPath(@, cmd.path[1], Null)], Ok)
    \/ /\ cmd.kind = "PUSH"
       /\ LET there == GetPath(Doc(cmd).data, cmd.path)
              items == IF there = Nothing THEN <<>> ELSE there[1].items
          IN  Writes(cmd, [Doc(cmd) EXCEPT !.data =
                             SetPath(@, cmd.path, Arr(Append(items, cmd.value)))], Ok)
    \/ /\ cmd.kind = "INC"
       /\ LET there == GetPath(Doc(cmd).data, cmd.path)
              n == Wrap((IF there # Nothing /\ there[1].tag = "number" THEN there[1].n ELSE 0)
                        + cmd.delta)
          IN  Writes(cmd, [Doc(cmd) EXCEPT !.data = SetPath(@, cmd.path, Num(n))],
                     IntegerAnswer(n))

LEMMA Outcomes ==
    ASSUME Shaped, NEW cmd \in Commands, Command(cmd)
    PROVE  Outcome(cmd)
<1>1. CASE OnDocument(cmd) /\ ~ValidId(cmd.id)
  BY <1>1 DEF Command, Invalid, Say, Outcome
<1>2. CASE ~(OnDocument(cmd) /\ ~ValidId(cmd.id))
  <2>1. CASE Create(cmd)
    <3>1. cmd.kind = "CREATE" /\ OnDocument(cmd) /\ ValidId(cmd.id)
      BY <1>2, <2>1 DEF Create, OnDocument
    <3> QED BY <2>1, <3>1 DEF Create, Say, Put, Outcome, Writes
  <2>2. CASE Get(cmd)
    BY <2>2 DEF Get, Say, Outcome
  <2>3. CASE Set(cmd)
    <3>1. cmd.kind = "SET" /\ OnDocument(cmd) /\ ValidId(cmd.id)
      BY <1>2, <2>3 DEF Set, OnDocument
    <3>2. GetOrCreate(cmd.id, "lww") = Doc(cmd)
      BY <3>1 DEF Doc
    <3> QED BY <2>3, <3>1, <3>2 DEF Set, Put, Outcome, Writes
  <2>4. CASE Delete(cmd)
    <3>1. cmd.kind = "DEL" /\ OnDocument(cmd) /\ ValidId(cmd.id)
      BY <1>2, <2>4 DEF Delete, OnDocument
    <3> QED BY <2>4, <3>1 DEF Delete, Say, Put, Outcome, Writes
  <2>5. CASE DeletePath(cmd)
    <3>1. cmd.kind = "DEL" /\ OnDocument(cmd) /\ ValidId(cmd.id)
      BY <1>2, <2>5 DEF DeletePath, OnDocument
    <3> QED BY <2>5, <3>1 DEF DeletePath, Say, Put, Outcome, Writes
  <2>6. CASE Push(cmd)
    <3>1. cmd.kind = "PUSH" /\ OnDocument(cmd) /\ ValidId(cmd.id)
      BY <1>2, <2>6 DEF Push, OnDocument
    <3>2. GetOrCreate(cmd.id, "lww") = Doc(cmd)
      BY <3>1 DEF Doc
    <3> QED BY <2>6, <3>1, <3>2 DEF Push, Put, Outcome, Writes
  <2>7. CASE Increment(cmd)
    <3>1. cmd.kind = "INC" /\ OnDocument(cmd) /\ ValidId(cmd.id)
      BY <1>2, <2>7 DEF Increment, OnDocument
    <3>2. GetOrCreate(cmd.id, "crdt-counter") = Doc(cmd)
      BY <3>1 DEF Doc
    <3> QED BY <2>7, <3>1, <3>2 DEF Increment, Put, Outcome, Writes
  <2>8. CASE Compact(cmd) \/ Expire(cmd) \/ Ttl(cmd) \/ Keys(cmd)
    BY <2>8 DEF Compact, Expire, Ttl, Keys, Say, Outcome
  <2>9. CASE Presence(cmd) \/ Refused(cmd) \/ Other(cmd)
    BY <2>9 DEF Presence, Refused, Other, Say, Outcome
  <2> QED BY <1>2, <2>1, <2>2, <2>3, <2>4, <2>5, <2>6, <2>7, <2>8, <2>9 DEF Command
<1> QED BY <1>1, <1>2

LEMMA Assumed ==
    ASSUME NEW cmd \in Commands, OnDocument(cmd), ValidId(cmd.id)
    PROVE  /\ cmd.id \in Ids
           /\ cmd.kind \in {"SET", "PUSH", "INC"} => Segments(cmd.path) \in Seq(Segment)
           /\ cmd.kind = "DEL" /\ cmd.path # Nothing => Segments(cmd.path[1]) \in Seq(Segment)
           /\ cmd.kind = "SET" /\ cmd.value.tag = "string" => cmd.value = Str(cmd.value.s)
           /\ cmd.kind = "INC" => cmd.delta \in Int
  BY CommandAssumption

\* A document is written whole, or not at all.
LEMMA WrittenIsDoc ==
    ASSUME Shaped, NEW cmd \in Commands, Outcome(cmd)
    PROVE  \/ UNCHANGED docs
           \/ /\ OnDocument(cmd) /\ cmd.id \in Ids
              /\ \E d : docs' = [docs EXCEPT ![cmd.id] = d] /\ (d = NoDoc \/ IsDoc(d))
<1>1. ASSUME NEW d, NEW a, Writes(cmd, d, a), d = NoDoc \/ IsDoc(d)
      PROVE  /\ OnDocument(cmd) /\ cmd.id \in Ids
             /\ \E e : docs' = [docs EXCEPT ![cmd.id] = e] /\ (e = NoDoc \/ IsDoc(e))
  BY <1>1, Assumed DEF Writes
<1>2. OnDocument(cmd) /\ ValidId(cmd.id) => IsDoc(Doc(cmd))
  BY Assumed, Gotten DEF Doc
<1>3. ASSUME NEW x, NEW a, Writes(cmd, [Doc(cmd) EXCEPT !.data = x], a)
      PROVE  IsDoc([Doc(cmd) EXCEPT !.data = x])
  BY <1>2, <1>3, DocData DEF Writes
<1>4. ASSUME NEW x, NEW a, Writes(cmd, [Doc(cmd) EXCEPT !.text = x], a)
      PROVE  IsDoc([Doc(cmd) EXCEPT !.text = x])
  BY <1>2, <1>4, DocText DEF Writes
<1>5. CASE UNCHANGED docs
  BY <1>5
<1>6. CASE Writes(cmd, New(cmd.strategy), Ok)
  BY <1>1, <1>6, NewIsDoc
<1>7. CASE \E x, a : Writes(cmd, [Doc(cmd) EXCEPT !.data = x], a)
  BY <1>1, <1>3, <1>7
<1>8. CASE \E x, a : Writes(cmd, [Doc(cmd) EXCEPT !.text = x], a)
  BY <1>1, <1>4, <1>8
<1>9. CASE \E a : Writes(cmd, Doc(cmd), a)
  <2>1. IsDoc(Doc(cmd))
    BY <1>2, <1>9 DEF Writes
  <2> QED BY <1>1, <1>9, <2>1
<1>10. CASE Writes(cmd, NoDoc, Ok)
  BY <1>1, <1>10
<1>11. ASSUME NEW x, Exists(cmd.id), Writes(cmd, [docs[cmd.id] EXCEPT !.data = x], Ok)
       PROVE  IsDoc([docs[cmd.id] EXCEPT !.data = x])
  <2>1. IsDoc(docs[cmd.id])
    BY <1>11, Assumed DEF Shaped, Exists, Writes
  <2> QED BY <2>1, DocData
<1>12. CASE \E x : Exists(cmd.id) /\ Writes(cmd, [docs[cmd.id] EXCEPT !.data = x], Ok)
  BY <1>1, <1>11, <1>12
<1> QED BY <1>5, <1>6, <1>7, <1>8, <1>9, <1>10, <1>12 DEF Outcome

\* The sum of an id after a step.
Summed(cmd, id) ==
    LET at == Segments(cmd.path)
        f == sums[id].at
    IN  IF ~OnDocument(cmd) \/ cmd.id # id THEN sums[id]
        ELSE IF cmd.kind = "INC" /\ answer'.kind = "integer"
             THEN [sums[id] EXCEPT !.at =
                     [s \in DOMAIN f \cup {at} |->
                        IF s = at THEN (IF at \in DOMAIN f THEN f[at] ELSE 0) + cmd.delta
                        ELSE f[s]]]
             ELSE [sums[id] EXCEPT !.pure = @ /\ (docs' = docs \/ cmd.kind = "CREATE")]

LEMMA CountIs ==
    ASSUME NEW cmd, Count(cmd)
    PROVE  sums' = [id \in Ids |-> Summed(cmd, id)]
  BY DEF Count, Summed

LEMMA IntegerIsInc ==
    ASSUME NEW cmd, Outcome(cmd), cmd.kind = "INC", answer'.kind = "integer"
    PROVE  /\ OnDocument(cmd) /\ ValidId(cmd.id)
           /\ LET there == GetPath(Doc(cmd).data, cmd.path)
                  n == Wrap((IF there # Nothing /\ there[1].tag = "number" THEN there[1].n ELSE 0)
                            + cmd.delta)
              IN  Writes(cmd, [Doc(cmd) EXCEPT !.data = SetPath(@, cmd.path, Num(n))],
                         IntegerAnswer(n))
  BY DEF Outcome, Writes, Error, Panic

LEMMA SumsAt ==
    ASSUME NEW pure, NEW f, NEW g
    PROVE  [[pure |-> pure, at |-> f] EXCEPT !.at = g] = [pure |-> pure, at |-> g]
  OBVIOUS

LEMMA SummedIsSum ==
    ASSUME NEW cmd \in Commands, Outcome(cmd), NEW id \in Ids, IsSum(sums[id])
    PROVE  IsSum(Summed(cmd, id))
<1>1. PICK pure, f : sums[id] = [pure |-> pure, at |-> f] /\ pure \in BOOLEAN
  BY DEF IsSum
<1>2. f \in [DOMAIN f -> Int] /\ DOMAIN f \in SUBSET Seq(Segment)
  BY <1>1 DEF IsSum
<1>3. CASE ~OnDocument(cmd) \/ cmd.id # id
  BY <1>3 DEF Summed
<1>4. CASE OnDocument(cmd) /\ cmd.id = id /\ ~(cmd.kind = "INC" /\ answer'.kind = "integer")
  <2>1. PICK p \in BOOLEAN : p = (pure /\ (docs' = docs \/ cmd.kind = "CREATE"))
    OBVIOUS
  <2>2. Summed(cmd, id) = [pure |-> p, at |-> f]
    BY <1>1, <1>4, <2>1 DEF Summed
  <2> QED BY <1>2, <2>2 DEF IsSum
<1>5. CASE OnDocument(cmd) /\ cmd.id = id /\ cmd.kind = "INC" /\ answer'.kind = "integer"
  <2>1. PICK at \in Seq(Segment) : at = Segments(cmd.path)
    BY <1>5, IntegerIsInc, Assumed
  <2>2. PICK delta \in Int : delta = cmd.delta
    BY <1>5, IntegerIsInc, Assumed
  <2>3. PICK g : g = [s \in DOMAIN f \cup {at} |->
                       IF s = at THEN (IF at \in DOMAIN f THEN f[at] ELSE 0) + delta ELSE f[s]]
    OBVIOUS
  <2>4. Summed(cmd, id) = [pure |-> pure, at |-> g]
    BY <1>1, <1>5, <2>1, <2>2, <2>3 DEF Summed
  <2>5. DOMAIN g = DOMAIN f \cup {at} /\ g \in [DOMAIN g -> Int]
    <3>1. DOMAIN g = DOMAIN f \cup {at} /\ g = [s \in DOMAIN g |-> g[s]]
      BY <2>3
    <3>2. PICK k \in Int : k = IF at \in DOMAIN f THEN f[at] ELSE 0
      BY <1>2
    <3>3. k + delta \in Int
      OBVIOUS
    <3>4. ASSUME NEW s \in DOMAIN g PROVE g[s] \in Int
      <4>1. CASE s = at
        BY <2>3, <3>2, <3>3, <4>1
      <4>2. CASE s # at
        BY <1>2, <2>3, <3>1, <4>2
      <4> QED BY <4>1, <4>2
    <3> QED BY <3>1, <3>4
  <2>6. DOMAIN g \in SUBSET Seq(Segment)
    <3>1. at \in Seq(Segment)
      BY <2>1
    <3> QED BY <1>2, <2>5, <3>1
  <2>7. PICK a : a = [pure |-> pure, at |-> g]
    OBVIOUS
  <2>8. a.pure = pure /\ a.at = g /\ pure \in BOOLEAN
    BY <1>1, <2>7
  <2>9. IsSum(a)
    BY <2>5, <2>6, <2>7, <2>8 DEF IsSum
  <2> QED BY <2>4, <2>7, <2>9
<1> QED BY <1>3, <1>4, <1>5

LEMMA ShapedStep ==
    ASSUME Shaped, [Next]_vars
    PROVE  Shaped'
<1>1. ASSUME NEW cmd \in Commands, Serve(cmd) PROVE Shaped'
  <2>1. Outcome(cmd) /\ Count(cmd)
    BY <1>1, Outcomes DEF Serve
  <2>2. docs' = [id \in Ids |-> docs'[id]] /\ \A id \in Ids : docs'[id] = NoDoc \/ IsDoc(docs'[id])
    <3>1. CASE UNCHANGED docs
      BY <3>1 DEF Shaped
    <3>2. ASSUME cmd.id \in Ids, NEW d, docs' = [docs EXCEPT ![cmd.id] = d], d = NoDoc \/ IsDoc(d)
          PROVE  docs' = [id \in Ids |-> docs'[id]] /\ \A id \in Ids : docs'[id] = NoDoc \/ IsDoc(docs'[id])
      BY <3>2 DEF Shaped
    <3> QED BY <2>1, <3>1, <3>2, WrittenIsDoc
  <2>3. sums' = [id \in Ids |-> sums'[id]] /\ \A id \in Ids : IsSum(sums'[id])
    <3>1. sums' = [id \in Ids |-> Summed(cmd, id)]
      BY <2>1, CountIs
    <3>2. \A id \in Ids : IsSum(Summed(cmd, id))
      BY <2>1, SummedIsSum DEF Shaped
    <3> QED BY <3>1, <3>2
  <2> QED BY <2>2, <2>3 DEF Shaped
<1>2. CASE UNCHANGED vars
  BY <1>2 DEF vars, Shaped
<1> QED BY <1>1, <1>2 DEF Next

LEMMA ShapedAlways == Spec => []Shaped
<1>1. Init => Shaped
  <2> SUFFICES ASSUME Init PROVE Shaped
    OBVIOUS
  <2>1. DOMAIN Nothing = {} /\ Nothing \in [DOMAIN Nothing -> Int]
    BY DEF Nothing
  <2>2. IsSum([pure |-> TRUE, at |-> Nothing])
    BY <2>1 DEF IsSum
  <2> QED BY <2>2 DEF Init, Shaped
<1> QED BY <1>1, ShapedStep, PTL DEF Spec

-----------------------------------------------------------------------------
(***************************************************************************)
(* Refused commands.                                                       *)
(***************************************************************************)
\* A refused command (handler.rs: an Err of the handler) leaves the content of
\* all documents as it was; it may leave a new, empty document behind.
THEOREM RefusalsChangeNothing == Spec => RefusedChangesNothing
<1>1. ASSUME Shaped, NEW cmd \in Commands, Serve(cmd), answer'.kind = "error", NEW id \in Ids
      PROVE  \/ docs'[id] = docs[id]
             \/ docs[id] = NoDoc /\ docs'[id].data = Obj(Nothing)
  <2>1. Outcome(cmd)
    BY <1>1, Outcomes DEF Serve
  <2>2. \/ UNCHANGED docs
        \/ cmd.kind \in {"SET", "PUSH"} /\ Writes(cmd, Doc(cmd), Error)
    BY <1>1, <2>1 DEF Outcome, Writes, Ok, Panic, IntegerAnswer
  <2>3. CASE cmd.kind \in {"SET", "PUSH"} /\ Writes(cmd, Doc(cmd), Error)
    <3>1. cmd.id \in Ids /\ docs' = [docs EXCEPT ![cmd.id] = Doc(cmd)]
      BY <2>3, Assumed DEF Writes
    <3>2. CASE id # cmd.id
      BY <3>1, <3>2 DEF Shaped
    <3>3. CASE id = cmd.id
      <4>1. docs'[id] = Doc(cmd)
        BY <1>1, <3>1, <3>3 DEF Shaped
      <4>2. CASE docs[id] = NoDoc
        BY <1>1, <3>1, <3>3, <4>1, <4>2, Gotten, NewIsDoc DEF Doc
      <4>3. CASE docs[id] # NoDoc
        BY <1>1, <3>1, <3>3, <4>1, <4>3, Gotten DEF Doc
      <4> QED BY <4>2, <4>3
    <3> QED BY <3>2, <3>3
  <2> QED BY <2>2, <2>3
<1>2. Shaped /\ [Next]_vars =>
        [answer'.kind = "error" =>
           \A id \in Ids :
              \/ docs'[id] = docs[id]
              \/ docs[id] = NoDoc /\ docs'[id].data = Obj(Nothing)]_vars
  BY <1>1 DEF Next
<1> QED BY <1>2, ShapedAlways, PTL DEF Spec, RefusedChangesNothing

-----------------------------------------------------------------------------
(***************************************************************************)
(* Acknowledged writes.                                                    *)
(***************************************************************************)
\* A path such as "." has none.
NoSegments(path) == path # "" /\ Segments(path) = Nothing

LEMMA SetPathShows ==
    ASSUME NEW value, NEW path, Segments(path) \in Seq(Segment), NEW new
    PROVE  /\ NoSegments(path) => SetPath(value, path, new) = value
           /\ ~NoSegments(path) =>
                 GetPath(SetPath(value, path, new), path) = <<new>>
<1>1. CASE NoSegments(path)
  BY <1>1 DEF SetPath, NoSegments
<1>2. CASE ~NoSegments(path)
  BY <1>2, ReadBack DEF SetPath, GetPath, NoSegments
<1> QED BY <1>1, <1>2

\* A write to the data of a document is shown.
LEMMA DataShown ==
    ASSUME Shaped, NEW cmd \in Commands, cmd.kind \in {"SET", "PUSH", "INC"}, NEW new, NEW a,
           Writes(cmd, [Doc(cmd) EXCEPT !.data = SetPath(@, cmd.path, new)], a),
           LET before == GetPath(Doc(cmd).data, cmd.path)
               old == IF before = Nothing THEN <<>> ELSE before[1].items
           IN  /\ cmd.kind = "SET" => new = cmd.value /\ Doc(cmd).strategy # "crdt-text"
               /\ cmd.kind = "INC" => new = Num(answer'.n)
               /\ cmd.kind = "PUSH" => new = Arr(Append(old, cmd.value))
    PROVE  Shows(cmd)
<1>1. cmd.id \in Ids /\ Segments(cmd.path) \in Seq(Segment)
  BY Assumed DEF Writes
<1>2. PICK old : old = Doc(cmd)
  OBVIOUS
<1>3. IsDoc(old)
  BY <1>1, <1>2, Gotten DEF Doc
<1>4. PICK data : data = SetPath(old.data, cmd.path, new)
  OBVIOUS
<1> DEFINE path == cmd.path
<1>12. /\ NoSegments(path) => data = old.data
       /\ ~NoSegments(path) => GetPath(data, path) = <<new>>
  <2>1. PICK p : p = path
    OBVIOUS
  <2>2. PICK v : v = old.data
    OBVIOUS
  <2>3. Segments(p) \in Seq(Segment) /\ data = SetPath(v, p, new)
    BY <1>1, <1>4, <2>1, <2>2
  <2>4. /\ NoSegments(p) => SetPath(v, p, new) = v
        /\ ~NoSegments(p) => GetPath(SetPath(v, p, new), p) = <<new>>
    <3>1. NoSegments(p) => SetPath(v, p, new) = v
      BY <2>3, SetPathShows
    <3>2. ~NoSegments(p) => GetPath(SetPath(v, p, new), p) = <<new>>
      BY <2>3, SetPathShows
    <3> QED BY <3>1, <3>2
  <2> QED BY <2>1, <2>2, <2>3, <2>4
<1>5. PICK doc : doc = [old EXCEPT !.data = data]
  OBVIOUS
<1>6. docs'[cmd.id] = doc
  BY <1>1, <1>2, <1>4, <1>5 DEF Writes, Shaped
<1>7. doc.data = data /\ doc.strategy = old.strategy /\ doc.text = old.text
  BY <1>3, <1>5, DocData
<1>8. GetOrCreate(cmd.id, "lww").data = old.data
  BY <1>1, <1>2, Gotten, NewIsDoc DEF Doc
<1>9. CASE doc.strategy = "crdt-text"
  <2>1. cmd.kind # "SET"
    BY <1>2, <1>7, <1>9
  <2>2. docs[cmd.id] = old
    <3>1. docs[cmd.id] # NoDoc
      BY <1>1, <1>2, <1>7, <1>9, Gotten, NewIsDoc DEF Doc
    <3> QED BY <1>1, <1>2, <3>1, Gotten DEF Doc
  <2>3. DocGet(doc, <<cmd.path>>) = DocGet(docs[cmd.id], <<cmd.path>>)
    BY <1>7, <1>9, <2>2 DEF DocGet
  <2> QED BY <1>6, <1>9, <2>1, <2>3 DEF Shows, NoSegments
<1>10. CASE doc.strategy # "crdt-text" /\ NoSegments(cmd.path)
  <2>1. GetPath(doc.data, cmd.path) = GetPath(GetOrCreate(cmd.id, "lww").data, cmd.path)
    BY <1>7, <1>8, <1>10, <1>12
  <2> QED BY <1>6, <1>10, <2>1 DEF Shows, NoSegments
<1>11. CASE doc.strategy # "crdt-text" /\ ~NoSegments(cmd.path)
  <2>1. GetPath(doc.data, cmd.path) = <<new>>
    BY <1>7, <1>11, <1>12
  <2>2. DocGet(doc, <<cmd.path>>) = IF doc.strategy \in {"lww", "crdt-map"}
                                    THEN GetPath(doc.data, cmd.path) ELSE <<doc.data>>
    <3>1. <<cmd.path>> # Nothing /\ <<cmd.path>>[1] = cmd.path
      BY NothingOrOne
    <3>2. PICK p : p = <<cmd.path>>
      OBVIOUS
    <3>3. DocGet(doc, p) = IF doc.strategy \in {"lww", "crdt-map"}
                           THEN GetPath(doc.data, cmd.path) ELSE <<doc.data>>
      BY <1>11, <3>1, <3>2 DEF DocGet
    <3> QED BY <3>2, <3>3
  <2>3. PICK before : before = GetPath(old.data, cmd.path)
    OBVIOUS
  <2>4. /\ cmd.kind = "SET" => new = cmd.value
        /\ cmd.kind = "INC" => new = Num(answer'.n)
        /\ cmd.kind = "PUSH" =>
              new = Arr(Append(IF before = Nothing THEN <<>> ELSE before[1].items, cmd.value))
    BY <1>2, <2>3
  <2> QED BY <1>6, <1>8, <1>11, <2>1, <2>2, <2>3, <2>4 DEF Shows, NoSegments
<1> QED BY <1>9, <1>10, <1>11

LEMMA TextShown ==
    ASSUME Shaped, NEW cmd \in Commands, cmd.kind = "SET", cmd.value.tag = "string",
           Doc(cmd).strategy = "crdt-text",
           Writes(cmd, [Doc(cmd) EXCEPT !.text = cmd.value.s], Ok)
    PROVE  Shows(cmd)
<1>1. cmd.id \in Ids /\ cmd.value = Str(cmd.value.s)
  BY Assumed DEF Writes
<1>2. PICK old : old = Doc(cmd)
  OBVIOUS
<1>3. IsDoc(old)
  BY <1>1, <1>2, Gotten DEF Doc
<1>4. PICK doc : doc = [old EXCEPT !.text = cmd.value.s]
  OBVIOUS
<1>5. docs'[cmd.id] = doc
  BY <1>1, <1>2, <1>4 DEF Writes, Shaped
<1>6. doc.text = cmd.value.s /\ doc.strategy = "crdt-text"
  BY <1>2, <1>3, <1>4, DocText
<1>7. DocGet(doc, <<cmd.path>>) = <<cmd.value>>
  BY <1>1, <1>6 DEF DocGet
<1> QED BY <1>5, <1>6, <1>7 DEF Shows

\* An acknowledged SET, PUSH or INC shows in the next GET of its path
\* (Document::set, push, increment and get; Value::set_path and get_path),
\* whatever the content of the document and the path.
THEOREM WritesShow == Spec => WriteIsReadBack
<1>1. ASSUME Shaped, NEW cmd \in Commands, Serve(cmd),
             cmd.kind \in {"SET", "PUSH", "INC"}, answer'.kind \in {"ok", "integer"}
      PROVE  Shows(cmd)
  <2>1. Outcome(cmd)
    BY <1>1, Outcomes DEF Serve
  <2>2. CASE cmd.kind = "SET"
    <3>1. \/ /\ Doc(cmd).strategy # "crdt-text"
             /\ Writes(cmd, [Doc(cmd) EXCEPT !.data = SetPath(@, cmd.path, cmd.value)], Ok)
          \/ /\ Doc(cmd).strategy = "crdt-text" /\ cmd.value.tag = "string"
             /\ Writes(cmd, [Doc(cmd) EXCEPT !.text = cmd.value.s], Ok)
      BY <1>1, <2>1, <2>2 DEF Outcome, Writes, Error
    <3> QED BY <1>1, <2>2, <3>1, DataShown, TextShown
  <2>3. CASE cmd.kind = "PUSH"
    <3> DEFINE there == GetPath(Doc(cmd).data, cmd.path)
               items == IF there = Nothing THEN <<>> ELSE there[1].items
    <3>1. Writes(cmd, [Doc(cmd) EXCEPT !.data =
                         SetPath(@, cmd.path, Arr(Append(items, cmd.value)))], Ok)
      BY <1>1, <2>1, <2>3 DEF Outcome, Writes, Error
    <3> QED BY <1>1, <2>3, <3>1, DataShown
  <2>4. CASE cmd.kind = "INC"
    <3> DEFINE there == GetPath(Doc(cmd).data, cmd.path)
    <3>1. PICK n : Writes(cmd, [Doc(cmd) EXCEPT !.data = SetPath(@, cmd.path, Num(n))],
                          IntegerAnswer(n))
      BY <1>1, <2>1, <2>4 DEF Outcome, Writes, Error, Panic
    <3>2. answer'.n = n
      BY <3>1 DEF Writes, IntegerAnswer
    <3> QED BY <1>1, <2>4, <3>1, <3>2, DataShown
  <2> QED BY <1>1, <2>2, <2>3, <2>4
<1>2. Shaped /\ [Next]_vars =>
        [did'.kind \in {"SET", "PUSH", "INC"} /\ answer'.kind \in {"ok", "integer"}
           => Shows(did')]_vars
  <2> SUFFICES ASSUME Shaped, Next,
                      did'.kind \in {"SET", "PUSH", "INC"}, answer'.kind \in {"ok", "integer"}
               PROVE  Shows(did')
    OBVIOUS
  <2>1. PICK cmd \in Commands : Serve(cmd)
    BY DEF Next
  <2>2. did' = cmd
    BY <2>1 DEF Serve
  <2> QED BY <1>1, <2>1, <2>2
<1> QED BY <1>2, ShapedAlways, PTL DEF Spec, WriteIsReadBack

LEMMA SetPathKeeps ==
    ASSUME NEW value, NEW path, Segments(path) \in Seq(Segment), NEW q \in Seq(Segment), NEW new
    PROVE  Keeps(value, SetPath(value, path, new), Segments(path), q)
<1>1. PICK s \in Seq(Segment) : s = Segments(path)
  OBVIOUS
<1>2. CASE NoSegments(path)
  BY <1>2, SetPathShows DEF Keeps
<1>3. CASE ~NoSegments(path) /\ ~IsPrefix(s, q) /\ ~IsPrefix(q, s)
  <2>1. SetPath(value, path, new) = SetAt(value, s, new)
    BY <1>1, <1>3 DEF SetPath, NoSegments
  <2>2. CASE Spared(value, s, q, new)
    BY <1>1, <2>1, <2>2 DEF Keeps, Spared
  <2>3. CASE Cut(value, s, q, new)
    <3>1. PICK n \in Clobbered(value, s) :
             /\ n < Len(q) /\ n < Len(s) /\ n \in Nat /\ SubSeq(s, 1, n) = SubSeq(q, 1, n)
      BY <2>3 DEF Cut
    <3>2. IsPrefix(SubSeq(s, 1, n), q)
      BY <3>1 DEF IsPrefix
    <3> QED BY <1>1, <2>1, <2>3, <3>1, <3>2 DEF Keeps, Cut
  <2> QED BY <1>3, <2>2, <2>3, Untouched
<1> QED BY <1>1, <1>2, <1>3 DEF Keeps

\* A write, a deletion of a path included, changes nothing but what is at its
\* path, below it and above it (Value::set_path); at any other path there is
\* what there was, a Null in an array that has grown, or an end where a value
\* of the wrong kind gave way.
THEOREM WritesKeepOthers == Spec => OthersKept
<1> DEFINE path(cmd) == IF cmd.kind = "DEL" THEN cmd.path[1] ELSE cmd.path
           kept(cmd, q) == Keeps(docs[cmd.id].data, docs'[cmd.id].data, Segments(path(cmd)), q)
<1>1. ASSUME Shaped, NEW cmd \in Commands, Serve(cmd), cmd.kind \in {"SET", "PUSH", "INC", "DEL"},
             docs[cmd.id] # NoDoc, docs'[cmd.id] # NoDoc, NEW q \in Seq(Segment)
      PROVE  kept(cmd, q)
  <2>1. Outcome(cmd)
    BY <1>1, Outcomes DEF Serve
  <2>2. ASSUME docs'[cmd.id].data = docs[cmd.id].data PROVE kept(cmd, q)
    BY <2>2 DEF Keeps
  <2>3. CASE UNCHANGED docs
    BY <2>2, <2>3
  <2>4. ASSUME ~UNCHANGED docs PROVE kept(cmd, q)
    <3>1. OnDocument(cmd) /\ ValidId(cmd.id) /\ cmd.id \in Ids
      BY <2>1, <2>4, Assumed DEF Outcome, Writes
    <3>2. Doc(cmd) = docs[cmd.id] /\ IsDoc(docs[cmd.id])
      BY <1>1, <3>1, Gotten DEF Doc
    <3>3. PICK old : old = docs[cmd.id] /\ IsDoc(old)
      BY <3>2
    <3>4. \A d, a : Writes(cmd, d, a) => docs'[cmd.id] = d
      BY <1>1, <3>1 DEF Writes, Shaped
    <3>5. ASSUME NEW a, Writes(cmd, Doc(cmd), a) PROVE kept(cmd, q)
      BY <2>2, <3>2, <3>4, <3>5
    <3>6. ASSUME NEW a, NEW x, Writes(cmd, [Doc(cmd) EXCEPT !.text = x], a) PROVE kept(cmd, q)
      <4>1. docs'[cmd.id].data = old.data
        <5>1. docs'[cmd.id] = [old EXCEPT !.text = x]
          BY <3>2, <3>3, <3>4, <3>6
        <5> QED BY <3>3, <5>1, DocText
      <4> QED BY <2>2, <3>3, <4>1
    <3>7. ASSUME NEW a, NEW x, Writes(cmd, [old EXCEPT !.data = SetPath(@, path(cmd), x)], a),
                 Segments(path(cmd)) \in Seq(Segment)
          PROVE  kept(cmd, q)
      <4>1. docs'[cmd.id].data = SetPath(old.data, path(cmd), x)
        <5>1. PICK y : y = SetPath(old.data, path(cmd), x)
          OBVIOUS
        <5>2. docs'[cmd.id] = [old EXCEPT !.data = y]
          BY <3>4, <3>7, <5>1
        <5> QED BY <3>3, <5>1, <5>2, DocData
      <4> QED BY <3>3, <3>7, <4>1, SetPathKeeps
    <3>8. CASE cmd.kind = "SET"
      <4>1. Segments(path(cmd)) \in Seq(Segment) /\ path(cmd) = cmd.path
        BY <3>1, <3>8, Assumed
      <4>2. \/ Writes(cmd, [old EXCEPT !.data = SetPath(@, path(cmd), cmd.value)], Ok)
            \/ Writes(cmd, [Doc(cmd) EXCEPT !.text = cmd.value.s], Ok)
            \/ Writes(cmd, Doc(cmd), Error)
        BY <2>1, <2>4, <3>2, <3>3, <3>8, <4>1 DEF Outcome
      <4> QED BY <3>5, <3>6, <3>7, <4>1, <4>2
    <3>9. CASE cmd.kind = "PUSH"
      <4>1. Segments(path(cmd)) \in Seq(Segment) /\ path(cmd) = cmd.path
        BY <3>1, <3>9, Assumed
      <4>2. \/ \E x : Writes(cmd, [old EXCEPT !.data = SetPath(@, path(cmd), x)], Ok)
            \/ Writes(cmd, Doc(cmd), Error)
        BY <2>1, <2>4, <3>2, <3>3, <3>9, <4>1 DEF Outcome
      <4> QED BY <3>5, <3>7, <4>1, <4>2
    <3>10. CASE cmd.kind = "INC"
      <4>1. Segments(path(cmd)) \in Seq(Segment) /\ path(cmd) = cmd.path
        BY <3>1, <3>10, Assumed
      <4>2. \/ \E x, a : Writes(cmd, [old EXCEPT !.data = SetPath(@, path(cmd), x)], a)
            \/ Writes(cmd, Doc(cmd), Panic)
        BY <2>1, <2>4, <3>2, <3>3, <3>10, <4>1 DEF Outcome
      <4> QED BY <3>5, <3>7, <4>1, <4>2
    <3>11. CASE cmd.kind = "DEL"
      <4>1. cmd.path # Nothing
            /\ Writes(cmd, [docs[cmd.id] EXCEPT !.data = SetPath(@, cmd.path[1], Null)], Ok)
        BY <1>1, <2>1, <2>4, <3>4, <3>11 DEF Outcome
      <4>2. Segments(path(cmd)) \in Seq(Segment) /\ path(cmd) = cmd.path[1]
        BY <3>1, <3>11, <4>1, Assumed
      <4> QED BY <3>3, <3>7, <4>1, <4>2
    <3> QED BY <1>1, <3>8, <3>9, <3>10, <3>11
  <2> QED BY <2>3, <2>4
<1>2. Shaped /\ [Next]_vars =>
        [did'.kind \in {"SET", "PUSH", "INC", "DEL"} /\ docs[did'.id] # NoDoc
           /\ docs'[did'.id] # NoDoc =>
             LET at == IF did'.kind = "DEL" THEN did'.path[1] ELSE did'.path
             IN  \A cmd \in {c \in Commands : c.kind = "SET"} :
                   Keeps(docs[did'.id].data, docs'[did'.id].data, Segments(at),
                         Segments(cmd.path))]_vars
  <2> SUFFICES ASSUME Shaped, Next, did'.kind \in {"SET", "PUSH", "INC", "DEL"},
                      docs[did'.id] # NoDoc, docs'[did'.id] # NoDoc,
                      NEW c \in Commands, c.kind = "SET"
               PROVE  kept(did', Segments(c.path))
    OBVIOUS
  <2>1. PICK cmd \in Commands : Serve(cmd)
    BY DEF Next
  <2>2. did' = cmd
    BY <2>1 DEF Serve
  <2>3. Segments(c.path) \in Seq(Segment)
    BY CommandAssumption
  <2> QED BY <1>1, <2>1, <2>2, <2>3
<1> QED BY <1>2, ShapedAlways, PTL DEF Spec, OthersKept

-----------------------------------------------------------------------------
(***************************************************************************)
(* Counters.                                                               *)
(***************************************************************************)
\* Division with remainder: the remainder is the only one.
LEMMA Remainder ==
    ASSUME NEW m \in Nat \ {0}, NEW a \in Int, NEW q \in Int, NEW r \in 0..(m - 1), a = m * q + r
    PROVE  a % m = r
<1>1. PICK p \in Int : p = a \div m
  OBVIOUS
<1>2. PICK k \in 0..(m - 1) : k = a % m /\ a = m * p + k
  BY <1>1
<1>3. m * (p - q) = r - k
  <2>1. m * (p - q) = m * p - m * q
    OBVIOUS
  <2> QED BY <1>2, <2>1
<1>4. PICK d \in Int : d = p - q
  OBVIOUS
<1>5. d = 0
  <2>1. CASE d >= 1
    <3>1. m * d >= m
      BY <2>1
    <3> QED BY <1>3, <1>4, <3>1
  <2>2. CASE d <= -1
    <3>1. m * d <= -m
      BY <2>2
    <3> QED BY <1>3, <1>4, <3>1
  <2> QED BY <2>1, <2>2
<1> QED BY <1>2, <1>3, <1>4, <1>5

LEMMA ModPlus ==
    ASSUME NEW m \in Nat \ {0}, NEW a \in Int, NEW d \in Int
    PROVE  ((a % m) + d) % m = (a + d) % m
<1>1. PICK p \in Int, k \in 0..(m - 1) : k = a % m /\ a = m * p + k
  OBVIOUS
<1>2. PICK q \in Int, r \in 0..(m - 1) : r = (k + d) % m /\ k + d = m * q + r
  <2>1. k + d \in Int
    OBVIOUS
  <2> QED BY <2>1
<1>3. PICK e \in Int : e = p + q
  OBVIOUS
<1>4. a + d = m * e + r
  <2>1. m * e = m * p + m * q
    BY <1>3
  <2>2. PICK x \in Int, y \in Int, z \in Int : x = m * p /\ y = m * q /\ z = m * e
    OBVIOUS
  <2>3. z = x + y /\ a = x + k /\ k + d = y + r
    BY <1>1, <1>2, <2>1, <2>2
  <2>4. a + d = z + r
    BY <2>3
  <2> QED BY <2>2, <2>4
<1>5. (a + d) % m = r
  <2>1. PICK b \in Int : b = a + d
    OBVIOUS
  <2>2. b = m * e + r
    BY <1>4, <2>1
  <2>3. b % m = r
    BY <2>2, Remainder
  <2> QED BY <2>1, <2>3
<1> QED BY <1>1, <1>2, <1>5

\* Adding to a wrapped number is adding to the number.
LEMMA WrapPlus ==
    ASSUME NEW a \in Int, NEW d \in Int
    PROVE  Wrap(a) \in Int /\ Wrap(Wrap(a) + d) = Wrap(a + d)
<1>1. PICK m \in Nat \ {0} : m = 2 * Half
  BY BoundAssumption
<1>2. Half \in Int
  BY BoundAssumption
<1>3. PICK b \in Int : b = a + Half
  BY <1>2
<1>4. PICK k \in 0..(m - 1) : k = b % m
  OBVIOUS
<1>5. Wrap(a) = k - Half
  BY <1>1, <1>3, <1>4 DEF Wrap
<1>6. (Wrap(a) + d) + Half = k + d /\ (a + d) + Half = b + d
  BY <1>2, <1>3, <1>5
<1>7. (k + d) % m = (b + d) % m
  BY <1>4, ModPlus
<1> QED BY <1>1, <1>2, <1>5, <1>6, <1>7 DEF Wrap

\* Numbers are only where an INC has put them, and are the sums of the INCs.
Counted(data, at) ==
    \A q \in Seq(Segment) : \A v : GetAt(data, q) = <<v>> /\ v.tag = "number" => q \in DOMAIN at

Alone(s, at) == s # Nothing /\ \A t \in DOMAIN at : t # s => ~Clash(s, t)

Added(data, at) ==
    \A s \in DOMAIN at : Alone(s, at) => GetAt(data, s) = <<Num(Wrap(at[s]))>>

LEMMA NumberBehind ==
    ASSUME NEW data, NEW s \in Seq(Segment), NEW q \in Seq(Segment), NEW n,
           IsPrefix(s, q), s # q
    PROVE  GetAt(SetAt(data, s, Num(n)), q) = Nothing
<1>1. PICK N : N = SetAt(data, s, Num(n))
  OBVIOUS
<1>2. PICK m \in Nat : m = Len(s)
  OBVIOUS
<1>3. Len(q) \in Nat /\ m <= Len(q) /\ \A i \in 1..m : s[i] = q[i]
  <2>1. m <= Len(q) /\ SubSeq(s, 1, m) = SubSeq(q, 1, m)
    BY <1>2 DEF IsPrefix
  <2>2. ASSUME NEW i \in 1..m PROVE s[i] = q[i]
    <3>1. SubSeq(s, 1, m)[i] = s[i] /\ SubSeq(q, 1, m)[i] = q[i]
      BY <1>2, <2>1
    <3> QED BY <2>1, <3>1
  <2> QED BY <2>1, <2>2
<1>4. m < Len(q)
  <2>1. Len(q) = m => s = q
    BY <1>2, <1>3
  <2> QED BY <1>3, <2>1
<1>5. Found(N, q)[m] = <<Num(n)>>
  <2>1. Found(N, s)[m] = <<Num(n)>>
    BY <1>1, <1>2, ReadBack DEF GetAt
  <2>2. Found(N, s)[0] = Found(N, q)[0]
    BY <1>2, <1>3, FoundIs
  <2>3. \A i \in (0 + 1)..m : s[i] = q[i]
    BY <1>3
  <2>4. Found(N, s)[m] = Found(N, q)[m]
    BY <1>2, <1>3, <2>2, <2>3, Together
  <2> QED BY <2>1, <2>4
<1>6. Found(N, q)[m + 1] = Nothing
  <2>1. m + 1 \in 1..Len(q) /\ (m + 1) - 1 = m
    BY <1>3, <1>4
  <2>2. Found(N, q)[m + 1] = Further(Found(N, q)[m], q[m + 1])
    BY <1>3, <2>1, FoundIs
  <2>3. \A t : Inside(Num(n), t) = Nothing
    BY DEF Inside, Num
  <2> QED BY <1>5, <2>2, <2>3, NothingOrOne DEF Further
<1>7. m + 1 \in 0..Len(q) /\ Len(q) \in (m + 1)..Len(q)
  BY <1>3, <1>4
<1> QED BY <1>1, <1>3, <1>6, <1>7, NothingBehind DEF GetAt

LEMMA NoNumberBefore ==
    ASSUME NEW data, NEW s \in Seq(Segment), NEW q \in Seq(Segment), NEW new,
           IsPrefix(q, s), s # q
    PROVE  \E v : GetAt(SetAt(data, s, new), q) = <<v>> /\ v.tag \in {"object", "array"}
<1>1. PICK N : N = SetAt(data, s, new)
  OBVIOUS
<1>2. PICK m \in Nat : m = Len(q)
  OBVIOUS
<1>3. Len(s) \in Nat /\ m <= Len(s) /\ q = SubSeq(s, 1, m)
  BY <1>2 DEF IsPrefix
<1>4. m < Len(s)
  <2> SUFFICES ASSUME m = Len(s) PROVE s = q
    BY <1>3
  <2> QED BY <1>3
<1>5. GetAt(N, q) = <<Built(data, s, new)[m]>>
  <2>1. m \in 0..Len(s)
    BY <1>3
  <2>2. GetAt(N, q) = Found(N, s)[m]
    BY <1>3, <2>1, OnTheWay
  <2> QED BY <1>1, <2>1, <2>2, FoundBuilt
<1>6. Built(data, s, new)[m].tag \in {"object", "array"}
  <2>1. PICK j \in 1..Len(s) : j = m + 1 /\ j - 1 = m
    BY <1>3, <1>4
  <2>2. Built(data, s, new)[j - 1] =
          With(Current(Found(data, s)[j - 1]), s[j], Built(data, s, new)[j])
    BY <1>3, BuiltIs
  <2>3. \A c, t, x : With(c, t, x).tag \in {"object", "array"}
    BY DEF With, Obj, Arr
  <2> QED BY <2>1, <2>2, <2>3
<1> QED BY <1>1, <1>5, <1>6

\* The sums g are those of f and an INC by delta at s.
Plus(f, g, s, delta) ==
    /\ DOMAIN g = DOMAIN f \cup {s}
    /\ g[s] = (IF s \in DOMAIN f THEN f[s] ELSE 0) + delta
    /\ \A t \in DOMAIN f : t # s => g[t] = f[t]

Amount(there) == IF there # Nothing /\ there[1].tag = "number" THEN there[1].n ELSE 0

LEMMA IncrementCounted ==
    ASSUME NEW data, NEW path, Segments(path) \in Seq(Segment), NEW f, NEW g, NEW delta, NEW n,
           Plus(f, g, Segments(path), delta), Counted(data, f)
    PROVE  Counted(SetPath(data, path, Num(n)), g)
<1>1. PICK s \in Seq(Segment) : s = Segments(path)
  OBVIOUS
<1>2. \A q : q \in DOMAIN f \/ q = s => q \in DOMAIN g
  BY <1>1 DEF Plus
<1>3. PICK new : new = SetPath(data, path, Num(n))
  OBVIOUS
<1>4. SUFFICES ASSUME NEW q \in Seq(Segment), NEW v, GetAt(new, q) = <<v>>, v.tag = "number"
               PROVE  q \in DOMAIN g
  BY <1>3 DEF Counted
<1>5. CASE GetAt(data, q) = <<v>>
  BY <1>2, <1>4, <1>5 DEF Counted
<1>6. CASE NoSegments(path)
  <2>1. new = data
    BY <1>3, <1>6, SetPathShows
  <2> QED BY <1>4, <1>5, <2>1
<1>7. ASSUME ~NoSegments(path), q # s, GetAt(data, q) # <<v>> PROVE FALSE
  <2>1. new = SetAt(data, s, Num(n))
    BY <1>1, <1>3, <1>7 DEF SetPath, NoSegments
  <2>2. CASE IsPrefix(s, q)
    BY <1>4, <1>7, <2>1, <2>2, NumberBehind, NothingOrOne
  <2>3. CASE IsPrefix(q, s)
    <3>1. PICK w : GetAt(new, q) = <<w>> /\ w.tag \in {"object", "array"}
      BY <1>7, <2>1, <2>3, NoNumberBefore
    <3>2. w = v
      BY <1>4, <3>1, NothingOrOne
    <3> QED BY <1>4, <3>1, <3>2
  <2>4. CASE ~IsPrefix(s, q) /\ ~IsPrefix(q, s)
    <3>1. GetAt(new, q) = GetAt(data, q) \/ GetAt(new, q) \in {Nothing, <<Null>>}
      BY <2>1, <2>4, Untouched DEF Spared, Cut
    <3>2. GetAt(new, q) # Nothing /\ GetAt(new, q) # <<Null>>
      <4>1. v # Null
        BY <1>4 DEF Null
      <4> QED BY <1>4, <4>1, NothingOrOne
    <3> QED BY <1>4, <1>7, <3>1, <3>2
  <2> QED BY <2>2, <2>3, <2>4
<1> QED BY <1>2, <1>5, <1>6, <1>7

LEMMA IncrementAdded ==
    ASSUME NEW data, NEW path, Segments(path) \in Seq(Segment), NEW f, NEW g, NEW delta \in Int,
           f \in [DOMAIN f -> Int], DOMAIN f \in SUBSET Seq(Segment),
           Plus(f, g, Segments(path), delta), Counted(data, f), Added(data, f)
    PROVE  Added(SetPath(data, path, Num(Wrap(Amount(GetPath(data, path)) + delta))), g)
<1>1. PICK s \in Seq(Segment) : s = Segments(path)
  OBVIOUS
<1>2. PICK n : n = Wrap(Amount(GetPath(data, path)) + delta)
  OBVIOUS
<1>3. PICK new : new = SetPath(data, path, Num(n))
  OBVIOUS
<1>4. /\ DOMAIN g = DOMAIN f \cup {s}
      /\ g[s] = (IF s \in DOMAIN f THEN f[s] ELSE 0) + delta
      /\ \A t \in DOMAIN f : t # s => g[t] = f[t]
  BY <1>1 DEF Plus
<1>5. SUFFICES ASSUME NEW t \in DOMAIN g, Alone(t, g)
               PROVE  GetAt(new, t) = <<Num(Wrap(g[t]))>>
  BY <1>2, <1>3 DEF Added
<1>6. t \in DOMAIN f => Alone(t, f) /\ GetAt(data, t) = <<Num(Wrap(f[t]))>>
  <2>1. Alone(t, f)
    BY <1>4, <1>5 DEF Alone
  <2> QED BY <2>1 DEF Added
<1>7. CASE t = s
  <2>1. ~NoSegments(path)
    BY <1>1, <1>5, <1>7 DEF Alone, NoSegments
  <2>2. GetAt(new, s) = <<Num(n)>>
    BY <1>1, <1>3, <2>1, SetPathShows DEF GetPath
  <2>3. PICK there : there = GetAt(data, s) /\ n = Wrap(Amount(there) + delta)
    BY <1>1, <1>2 DEF GetPath
  <2>4. CASE s \in DOMAIN f
    <3>1. PICK a \in Int : a = f[s]
      BY <2>4
    <3>2. there = <<Num(Wrap(a))>>
      BY <1>6, <1>7, <2>3, <2>4, <3>1
    <3>3. Amount(there) = Wrap(a)
      <4>1. there # Nothing /\ there[1] = Num(Wrap(a))
        BY <3>2, NothingOrOne
      <4> QED BY <4>1 DEF Amount, Num
    <3>4. n = Wrap(a + delta)
      BY <2>3, <3>3, WrapPlus
    <3> QED BY <1>4, <1>7, <2>2, <2>4, <3>1, <3>4
  <2>5. CASE s \notin DOMAIN f
    <3>1. Amount(there) = 0
      <4>1. there = Nothing \/ \E v : there = <<v>>
        BY <2>3, Options DEF GetAt
      <4>2. ASSUME NEW v, there = <<v>>, v.tag = "number" PROVE FALSE
        BY <2>3, <2>5, <4>2 DEF Counted
      <4> QED BY <4>1, <4>2, NothingOrOne DEF Amount
    <3>2. n = Wrap(0 + delta)
      BY <2>3, <3>1
    <3> QED BY <1>4, <1>7, <2>2, <2>5, <3>2
  <2> QED BY <2>4, <2>5
<1>8. CASE t # s
  <2>1. t \in DOMAIN f /\ t \in Seq(Segment) /\ g[t] = f[t]
    BY <1>4, <1>8
  <2>2. GetAt(data, t) = <<Num(Wrap(g[t]))>> /\ GetAt(data, t) # Nothing
    BY <1>6, <2>1, NothingOrOne
  <2>3. ~Clash(t, s)
    BY <1>4, <1>5, <1>8 DEF Alone
  <2>4. ~IsPrefix(s, t) /\ ~IsPrefix(t, s)
    BY <2>3 DEF Clash
  <2>5. CASE NoSegments(path)
    <3>1. new = data
      BY <1>3, <2>5, SetPathShows
    <3> QED BY <2>2, <3>1
  <2>6. CASE ~NoSegments(path)
    <3>1. new = SetAt(data, s, Num(n))
      BY <1>1, <1>3, <2>6 DEF SetPath, NoSegments
    <3>2. ~Cut(data, s, t, Num(n))
      <4> SUFFICES ASSUME Cut(data, s, t, Num(n)) PROVE FALSE
        OBVIOUS
      <4>1. PICK m \in Nat : /\ m < Len(t) /\ m < Len(s)
                             /\ SubSeq(s, 1, m) = SubSeq(t, 1, m)
                             /\ s[m + 1].tag # t[m + 1].tag
        BY <2>2 DEF Cut
      <4>2. PICK i \in 1..Len(t) : i = m + 1 /\ i - 1 = m /\ i <= Len(s)
        BY <2>1, <4>1
      <4> QED BY <2>3, <4>1, <4>2 DEF Clash
    <3>3. Spared(data, s, t, Num(n))
      BY <2>1, <2>4, <3>2, Untouched
    <3> QED BY <2>2, <3>1, <3>3 DEF Spared
  <2> QED BY <2>5, <2>6
<1> QED BY <1>7, <1>8

\* A new document has no numbers.
LEMMA NewCounted ==
    ASSUME NEW at
    PROVE  Counted(Obj(Nothing), at)
<1> SUFFICES ASSUME NEW q \in Seq(Segment), NEW v, GetAt(Obj(Nothing), q) = <<v>>, v.tag = "number"
             PROVE  FALSE
  BY DEF Counted
<1>1. Len(q) \in Nat
  OBVIOUS
<1>2. PICK d : d = Obj(Nothing)
  OBVIOUS
<1>3. Found(d, q)[0] = <<d>>
  BY <1>1, FoundIs
<1>4. CASE Len(q) = 0
  <2>1. v = d
    BY <1>2, <1>3, <1>4, NothingOrOne DEF GetAt
  <2> QED BY <1>2, <2>1 DEF Obj
<1>5. CASE Len(q) # 0
  <2>1. 1 \in 1..Len(q) /\ 1 - 1 = 0 /\ 1 \in 0..Len(q) /\ Len(q) \in 1..Len(q)
    BY <1>1, <1>5
  <2>2. Found(d, q)[1] = Further(Found(d, q)[0], q[1])
    BY <1>1, <2>1, FoundIs
  <2>3. \A t : Inside(d, t) = Nothing
    <3>1. DOMAIN Nothing = {}
      BY DEF Nothing
    <3> QED BY <1>2, <3>1 DEF Inside, Obj
  <2>4. Found(d, q)[1] = Nothing
    BY <1>3, <2>2, <2>3, NothingOrOne DEF Further
  <2>5. GetAt(d, q) = Nothing
    BY <1>1, <2>1, <2>4, NothingBehind DEF GetAt
  <2> QED BY <1>2, <2>5, NothingOrOne
<1> QED BY <1>4, <1>5

\* As long as a document has only seen INCs: without it there are no sums, and
\* with it every number in it is at the path of one, and is its sum.
CounterInv ==
    \A id \in Ids : sums[id].pure =>
        IF docs[id] = NoDoc THEN DOMAIN sums[id].at = {}
        ELSE Counted(docs[id].data, sums[id].at) /\ Added(docs[id].data, sums[id].at)

\* The data and the sums an INC finds.
LEMMA IncrementFinds ==
    ASSUME Shaped, CounterInv, NEW id \in Ids, sums[id].pure, NEW strategy
    PROVE  /\ Counted(GetOrCreate(id, strategy).data, sums[id].at)
           /\ Added(GetOrCreate(id, strategy).data, sums[id].at)
<1>1. CASE docs[id] = NoDoc
  <2>1. GetOrCreate(id, strategy).data = Obj(Nothing)
    BY <1>1, Gotten, NewIsDoc
  <2>2. DOMAIN sums[id].at = {}
    BY <1>1 DEF CounterInv
  <2> QED BY <2>1, <2>2, NewCounted DEF Added
<1>2. CASE docs[id] # NoDoc
  BY <1>2, Gotten DEF CounterInv
<1> QED BY <1>1, <1>2

LEMMA IncrementStep ==
    ASSUME Shaped, CounterInv, NEW cmd \in Commands, Outcome(cmd),
           cmd.kind = "INC", answer'.kind = "integer",
           sums' = [id \in Ids |-> Summed(cmd, id)], sums[cmd.id].pure
    PROVE  /\ docs'[cmd.id] # NoDoc
           /\ Counted(docs'[cmd.id].data, sums'[cmd.id].at)
           /\ Added(docs'[cmd.id].data, sums'[cmd.id].at)
<1>1. PICK d, n : /\ d = Doc(cmd) /\ n = Wrap(Amount(GetPath(d.data, cmd.path)) + cmd.delta)
                  /\ Writes(cmd, [d EXCEPT !.data = SetPath(@, cmd.path, Num(n))],
                            IntegerAnswer(n))
  BY IntegerIsInc DEF Amount
<1>2. /\ OnDocument(cmd) /\ ValidId(cmd.id) /\ cmd.id \in Ids
      /\ Segments(cmd.path) \in Seq(Segment) /\ cmd.delta \in Int
  BY <1>1, Assumed DEF Writes
<1>3. IsDoc(d)
  BY <1>1, <1>2, Gotten DEF Doc
<1>4. PICK path, delta : path = cmd.path /\ delta = cmd.delta /\ delta \in Int
  BY <1>2
<1>5. PICK data : data = d.data
  OBVIOUS
<1>6. PICK new : new = SetPath(data, path, Num(n))
  OBVIOUS
<1>7. docs'[cmd.id] = [d EXCEPT !.data = new]
  BY <1>1, <1>2, <1>4, <1>5, <1>6 DEF Writes, Shaped
<1>8. docs'[cmd.id] # NoDoc /\ docs'[cmd.id].data = new
  <2>1. PICK doc : doc = [d EXCEPT !.data = new]
    OBVIOUS
  <2>2. IsDoc(doc) /\ doc.data = new
    BY <1>3, <2>1, DocData
  <2> QED BY <1>7, <2>1, <2>2, DocIsThere
<1>9. PICK f : f = sums[cmd.id].at
  OBVIOUS
<1>10. IsSum(sums[cmd.id])
  BY <1>2 DEF Shaped
<1>11. f \in [DOMAIN f -> Int] /\ DOMAIN f \in SUBSET Seq(Segment)
  BY <1>9, <1>10 DEF IsSum
<1>12. PICK s \in Seq(Segment) : s = Segments(path)
  BY <1>2, <1>4
<1>13. PICK g : g = [t \in DOMAIN f \cup {s} |->
                      IF t = s THEN (IF s \in DOMAIN f THEN f[s] ELSE 0) + delta ELSE f[t]]
  OBVIOUS
<1>14. sums'[cmd.id].at = g
  <2>1. PICK pure : sums[cmd.id] = [pure |-> pure, at |-> f]
    BY <1>9, <1>10 DEF IsSum
  <2>2. sums'[cmd.id] = Summed(cmd, cmd.id)
    BY <1>2
  <2>3. Summed(cmd, cmd.id) = [pure |-> pure, at |-> g]
    <3>1. PICK id : id = cmd.id
      OBVIOUS
    <3>2. Segments(cmd.path) = s /\ sums[id].at = f
      BY <1>4, <1>9, <1>12, <3>1
    <3>3. Summed(cmd, id) = [sums[id] EXCEPT !.at = g]
      BY <1>2, <1>4, <1>13, <3>1, <3>2 DEF Summed
    <3>4. sums[id] = [pure |-> pure, at |-> f]
      BY <2>1, <3>1
    <3>5. [sums[id] EXCEPT !.at = g] = [pure |-> pure, at |-> g]
      BY <3>4, SumsAt
    <3>6. Summed(cmd, id) = [pure |-> pure, at |-> g]
      BY <3>3, <3>5
    <3> QED BY <3>1, <3>6
  <2> QED BY <2>2, <2>3
<1>15. Plus(f, g, s, delta)
  BY <1>13 DEF Plus
<1>16. Counted(data, f) /\ Added(data, f)
  BY <1>1, <1>2, <1>5, <1>9, IncrementFinds DEF Doc
<1>17. Counted(new, g)
  BY <1>6, <1>12, <1>15, <1>16, IncrementCounted
<1>18. Added(new, g)
  <2>1. n = Wrap(Amount(GetPath(data, path)) + delta)
    BY <1>1, <1>4, <1>5
  <2>2. Added(SetPath(data, path, Num(Wrap(Amount(GetPath(data, path)) + delta))), g)
    <3>1. Segments(path) \in Seq(Segment) /\ Plus(f, g, Segments(path), delta)
      BY <1>12, <1>15
    <3> QED BY <1>4, <1>11, <1>16, <3>1, IncrementAdded, Zenon
  <2> QED BY <1>6, <2>1, <2>2
<1> QED BY <1>8, <1>14, <1>17, <1>18

LEMMA CounterStep ==
    ASSUME Shaped, CounterInv, [Next]_vars
    PROVE  CounterInv'
<1>1. ASSUME NEW cmd \in Commands, Serve(cmd), NEW id \in Ids, sums'[id].pure
      PROVE  IF docs'[id] = NoDoc THEN DOMAIN sums'[id].at = {}
             ELSE Counted(docs'[id].data, sums'[id].at) /\ Added(docs'[id].data, sums'[id].at)
  <2>1. Outcome(cmd) /\ sums' = [i \in Ids |-> Summed(cmd, i)]
    BY <1>1, Outcomes, CountIs DEF Serve
  <2>2. sums'[id] = Summed(cmd, id)
    BY <2>1
  <2>3. ASSUME sums'[id] = sums[id], docs'[id] = docs[id]
        PROVE  IF docs'[id] = NoDoc THEN DOMAIN sums'[id].at = {}
               ELSE Counted(docs'[id].data, sums'[id].at) /\ Added(docs'[id].data, sums'[id].at)
    BY <1>1, <2>3 DEF CounterInv
  <2>4. CASE ~OnDocument(cmd) \/ cmd.id # id
    <3>1. sums'[id] = sums[id]
      BY <2>2, <2>4 DEF Summed
    <3>2. docs'[id] = docs[id]
      BY <1>1, <2>1, <2>4, WrittenIsDoc DEF Shaped
    <3> QED BY <2>3, <3>1, <3>2
  <2>5. PICK pure, f : sums[id] = [pure |-> pure, at |-> f] /\ pure \in BOOLEAN
    BY <1>1 DEF Shaped, IsSum
  <2>6. CASE OnDocument(cmd) /\ cmd.id = id /\ ~(cmd.kind = "INC" /\ answer'.kind = "integer")
    <3> DEFINE kept == docs' = docs \/ cmd.kind = "CREATE"
    <3>1. PICK p \in BOOLEAN : p <=> pure /\ kept
      OBVIOUS
    <3> HIDE DEF kept
    <3>2. sums[id].at = f /\ sums[id].pure = pure
      BY <2>5
    <3>5. sums'[id] = [pure |-> p, at |-> f]
      <4>1. p = (sums[id].pure /\ kept)
        BY <2>5, <3>1, <3>2
      <4>2. Summed(cmd, id) = [sums[id] EXCEPT !.pure = p]
        BY <2>6, <4>1 DEF Summed, kept
      <4> QED BY <2>2, <2>5, <4>2
    <3>6. p /\ sums'[id].at = f
      BY <1>1, <3>5
    <3>7. sums[id].pure /\ kept
      BY <3>1, <3>2, <3>6
    <3>3. CASE docs' = docs
      BY <3>2, <3>3, <3>6, <3>7 DEF CounterInv
    <3>4. CASE docs' # docs /\ cmd.kind = "CREATE"
      <4>1. ~Exists(id) /\ docs' = [docs EXCEPT ![id] = New(cmd.strategy)]
        BY <2>1, <2>6, <3>4 DEF Outcome, Writes
      <4>2. DOMAIN f = {}
        BY <3>2, <3>7, <4>1 DEF CounterInv, Exists
      <4>3. docs'[id].data = Obj(Nothing) /\ docs'[id] # NoDoc
        BY <1>1, <4>1, NewIsDoc, DocIsThere DEF Shaped
      <4>4. Counted(docs'[id].data, f) /\ Added(docs'[id].data, f)
        BY <4>2, <4>3, NewCounted DEF Added
      <4> QED BY <3>6, <4>3, <4>4
    <3> QED BY <3>3, <3>4, <3>7 DEF kept
  <2>7. CASE OnDocument(cmd) /\ cmd.id = id /\ cmd.kind = "INC" /\ answer'.kind = "integer"
    <3>1. sums[id].pure
      <4>1. PICK g : Summed(cmd, id) = [sums[id] EXCEPT !.at = g]
        BY <2>7 DEF Summed
      <4>2. Summed(cmd, id) = [pure |-> pure, at |-> g]
        BY <2>5, <4>1, SumsAt
      <4> QED BY <1>1, <2>2, <2>5, <4>2
    <3> QED BY <1>1, <2>1, <2>7, <3>1, IncrementStep
  <2> QED BY <2>4, <2>6, <2>7
<1>2. ASSUME Next PROVE CounterInv'
  <2>1. PICK cmd \in Commands : Serve(cmd)
    BY <1>2 DEF Next
  <2> QED BY <1>1, <2>1 DEF CounterInv
<1>3. CASE UNCHANGED vars
  BY <1>3 DEF vars, CounterInv
<1> QED BY <1>2, <1>3

\* A counter is the sum of the INCs that were acknowledged, modulo 2^w
\* (Document::increment), if the document has seen nothing else and no path
\* that clashes with it: no INC is lost, counted twice or put elsewhere.
THEOREM CountersAreSums == Spec => []CountersAdd
<1>1. Init => CounterInv
  <2>1. DOMAIN Nothing = {}
    BY DEF Nothing
  <2> QED BY <2>1 DEF Init, CounterInv
<1>2. Shaped /\ CounterInv /\ [Next]_vars => CounterInv'
  BY CounterStep
<1>3. CounterInv => CountersAdd
  <2> SUFFICES ASSUME CounterInv, NEW id \in Ids, sums[id].pure, NEW s \in DOMAIN sums[id].at,
                      \A t \in DOMAIN sums[id].at : t # s => ~Clash(s, t), s # Nothing
               PROVE  GetAt(docs[id].data, s) = <<Num(Wrap(sums[id].at[s]))>>
    BY DEF CountersAdd
  <2>1. Added(docs[id].data, sums[id].at)
    BY DEF CounterInv
  <2> QED BY <2>1 DEF Added, Alone
<1> QED BY <1>1, <1>2, <1>3, ShapedAlways, PTL DEF Spec
=============================================================================
