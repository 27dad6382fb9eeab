-------------------------------- MODULE Paths --------------------------------
(***************************************************************************)
(* Paths into the content of a document (crates/ussl-core/src/crdt.rs):    *)
(* the parser of paths such as users[0].name, Value::get_path and          *)
(* Value::set_path.  Numbers are integers; booleans, floats and binaries   *)
(* behave like strings here: none of them has anything inside.             *)
(*                                                                         *)
(* An Option is a sequence of at most one element.                         *)
(***************************************************************************)
EXTENDS Integers, Sequences, SequencesExt, FiniteSets, TLC

At(s, i) == SubSeq(s, i, i)
Drop(s, n) == SubSeq(s, n + 1, Len(s))
Chars(s) == [i \in 1..Len(s) |-> At(s, i)]

\* The position of the first of the characters cs in s, or the one behind s.
Find(s, cs) ==
    LET found == {i \in 1..Len(s) : At(s, i) \in cs}
    IN  IF found = {} THEN Len(s) + 1 ELSE CHOOSE i \in found : \A j \in found : i <= j

Lower == <<"a", "b", "c", "d", "e", "f", "g", "h", "i", "j", "k", "l", "m",
           "n", "o", "p", "q", "r", "s", "t", "u", "v", "w", "x", "y", "z">>
Capital == <<"A", "B", "C", "D", "E", "F", "G", "H", "I", "J", "K", "L", "M",
             "N", "O", "P", "Q", "R", "S", "T", "U", "V", "W", "X", "Y", "Z">>

\* str::parse for integers: digits behind at most one sign.
Digit == [c \in {ToString(n) : n \in 0..9} |-> CHOOSE n \in 0..9 : ToString(n) = c]
IsNatural(s) == s # "" /\ \A i \in 1..Len(s) : At(s, i) \in DOMAIN Digit
Natural(s) == FoldLeft(LAMBDA n, c : 10 * n + Digit[c], 0, Chars(s))
Unsigned(s) == IF s # "" /\ At(s, 1) = "+" THEN Drop(s, 1) ELSE s
-----------------------------------------------------------------------------
Null == [tag |-> "null"]
Num(n) == [tag |-> "number", n |-> n]
Str(s) == [tag |-> "string", s |-> s]
Arr(items) == [tag |-> "array", items |-> items]
Obj(map) == [tag |-> "object", map |-> map]
Nothing == <<>>                       \* the empty map, None, no segments

Key(k) == [tag |-> "key", key |-> k]
Index(n) == [tag |-> "index", index |-> n]

\* next() calls itself and is where it was.
Endless == [tag |-> "endless"]

Segment == [tag : {"key"}, key : STRING] \cup [tag : {"index"}, index : Nat]

(***************************************************************************)
(* PathParser::next: the segment it finds, if the call of itself at the    *)
(* end is taken as the next call, and what it leaves to be parsed.         *)
(***************************************************************************)
Close(r) == Find(r, {"]"})

\* Mutant: the end of the text closes a bracket.
BracketedOrOpen(r) == r # "" /\ At(r, 1) = "["

Bracketed(r) == r # "" /\ At(r, 1) = "[" /\ Close(r) <= Len(r)

Behind(r) == Drop(r, Close(r))

NextSegment(remaining) ==
    LET r == IF At(remaining, 1) = "." THEN Drop(remaining, 1) ELSE remaining
        idx == Unsigned(SubSeq(r, 2, Close(r) - 1))
        end == Find(r, {".", "["})
    IN  IF Bracketed(r)
        THEN [segment |-> IF IsNatural(idx) THEN <<Index(Natural(idx))>> ELSE Nothing,
              rest |-> Behind(r)]
        ELSE [segment |-> IF end = 1 THEN Nothing ELSE <<Key(SubSeq(r, 1, end - 1))>>,
              rest |-> Drop(r, end - 1)]

\* PathSegment::parse: the parser takes something away with each call, or is at
\* its end, or will be where it is for ever.
Segments(path) ==
    LET call(parsed, c) ==
          IF parsed.rest = "" THEN parsed
          ELSE LET next == NextSegment(parsed.rest)
               IN  [segments |-> parsed.segments \o next.segment, rest |-> next.rest]
        end == FoldLeft(call, [segments |-> Nothing, rest |-> path], Chars(path))
    IN  IF end.rest = "" THEN end.segments ELSE Append(end.segments, Endless)

Terminates(path) == ~Contains(Segments(path), Endless)

\* The path a reader of the documentation would write for these segments.
PrintPath(segments) ==
    LET print(i) == IF segments[i].tag = "index" THEN "[" \o ToString(segments[i].index) \o "]"
                    ELSE (IF i = 1 THEN "" ELSE ".") \o segments[i].key
    IN  FoldLeft(LAMBDA s, i : s \o print(i), "", [i \in DOMAIN segments |-> i])
-----------------------------------------------------------------------------
\* as_object()?.get(key) and as_array()?.get(idx)
Inside(value, s) ==
    CASE s.tag = "key" /\ value.tag = "object" /\ s.key \in DOMAIN value.map ->
            <<value.map[s.key]>>
      [] s.tag = "index" /\ value.tag = "array" /\ s.index + 1 \in DOMAIN value.items ->
            <<value.items[s.index + 1]>>
      [] OTHER -> Nothing

\* Value::get_path: what the loop has found after n segments.
Found(value, segments) ==
    LET found[n \in 0..Len(segments)] ==
          IF n = 0 THEN <<value>>
          ELSE LET f == found[n - 1]
               IN  IF f = Nothing THEN Nothing ELSE Inside(f[1], segments[n])
    IN  found

GetAt(value, segments) == Found(value, segments)[Len(segments)]
GetPath(value, path) == GetAt(value, Segments(path))

\* Whether a segment can be looked up in a value: if not, set_path makes an
\* empty object or array of the value.
Fits(segment, value) == <<segment.tag, value.tag>> \in {<<"key", "object">>, <<"index", "array">>}

\* Nulls up to the index.
\* Mutant: what is behind the index goes.
PadCutting(items, index) ==
    [i \in 1..index + 1 |-> IF i <= Len(items) THEN items[i] ELSE Null]

Pad(items, index) ==
    [i \in DOMAIN items \cup 1..index + 1 |-> IF i \in DOMAIN items THEN items[i] ELSE Null]

\* HashMap::insert
\* Mutant: a key that is there keeps its value.
InsertNew(map, key, value) ==
    [k \in DOMAIN map \cup {key} |-> IF k \in DOMAIN map THEN map[k] ELSE value]

Insert(map, key, value) ==
    [k \in DOMAIN map \cup {key} |-> IF k = key THEN value ELSE map[k]]

\* What set_path makes of a value on the way: with `new` inside.
With(value, s, new) ==
    LET map == IF Fits(s, value) THEN value.map ELSE Nothing
        items == IF Fits(s, value) THEN value.items ELSE <<>>
    IN  IF s.tag = "key" THEN Obj(Insert(map, s.key, new))
        ELSE Arr([Pad(items, s.index) EXCEPT ![s.index + 1] = new])

\* The loop of set_path: what there is, or was put there, after n segments.
Built(value, segments, new) ==
    LET found == Found(value, segments)
        current(n) == IF found[n] = Nothing THEN Null ELSE found[n][1]
        built[n \in 0..Len(segments)] ==
          IF n = Len(segments) THEN new ELSE With(current(n), segments[n + 1], built[n + 1])
    IN  built

SetAt(value, segments, new) == Built(value, segments, new)[0]

\* Value::set_path: the empty path is the value itself, and a path without
\* segments is none.
SetPath(value, path, new) ==
    IF path # "" /\ Segments(path) = Nothing THEN value
    ELSE SetAt(value, Segments(path), new)
=============================================================================
