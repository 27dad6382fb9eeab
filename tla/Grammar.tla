------------------------------- MODULE Grammar -------------------------------
(***************************************************************************)
(* The command language: the tokenizer and the parser of a line            *)
(* (crates/ussl-protocol/src/parser.rs), the commands it makes             *)
(* (command.rs), and the lines the comments on CommandKind document.       *)
(*                                                                         *)
(* Of JSON there are integers, strings without escapes, null, and the      *)
(* empty array and object; numbers fit into their types.                   *)
(***************************************************************************)
EXTENDS Paths

\* What parse_line answers with an error, whichever it is.
Rejected == [kind |-> "rejected"]
-----------------------------------------------------------------------------
(***************************************************************************)
(* Tokenizer                                                               *)
(***************************************************************************)
RECURSIVE SkipBlanks(_)
SkipBlanks(s) == IF s # "" /\ At(s, 1) = " " THEN SkipBlanks(Drop(s, 1)) ELSE s

RECURSIVE Trim(_)
Trim(s) ==
    IF s # "" /\ At(s, Len(s)) = " " THEN Trim(SubSeq(s, 1, Len(s) - 1)) ELSE SkipBlanks(s)

Ended(s) == SkipBlanks(s) = ""

Quoted(r) == At(r, 1) = "\"" /\ Find(Drop(r, 1), {"\""}) < Len(r)

\* A quoted string without its quotes, or what comes before the next blank.
NextToken(s) ==
    LET r == SkipBlanks(s)
        end == IF Quoted(r) THEN Find(Drop(r, 1), {"\""}) + 1 ELSE Find(r, {" "}) - 1
    IN  [token |-> IF Quoted(r) THEN SubSeq(r, 2, end - 1) ELSE SubSeq(r, 1, end),
         rest |-> Drop(r, end)]

\* An argument that must be there; the rest of the line if there is any.
Arg(s, Then(_, _)) ==
    IF Ended(s) THEN Rejected ELSE Then(NextToken(s).token, NextToken(s).rest)
Remaining(s) == SkipBlanks(s)
Rest(s, Then(_)) == IF Ended(s) THEN Rejected ELSE Then(Remaining(s))

Letter(from, to) == [c \in Range(from) |-> to[CHOOSE i \in DOMAIN from : from[i] = c]]
Fold(s, letters) ==
    FoldLeft(LAMBDA t, c : t \o IF c \in DOMAIN letters THEN letters[c] ELSE c, "", Chars(s))
ToUpper(s) == Fold(s, Letter(Lower, Capital))
ToLower(s) == Fold(s, Letter(Capital, Lower))
-----------------------------------------------------------------------------
(***************************************************************************)
(* parse_value, and whether serde_json takes a text.                       *)
(***************************************************************************)
IsInteger(s) == s # "" /\ IsNatural(IF At(s, 1) = "-" THEN Drop(s, 1) ELSE s)
Integer(s) == IF At(s, 1) = "-" THEN -Natural(Drop(s, 1)) ELSE Natural(s)

IsText(s) == Len(s) >= 2 /\ Quoted(s) /\ Find(Drop(s, 1), {"\""}) = Len(s) - 1
IsJsonInteger(s) == IsInteger(s) /\ ToString(Integer(s)) = s
IsJson(s) == s \in {"null", "[]", "{}"} \/ IsJsonInteger(s) \/ IsText(s)

ParseValue(text) ==
    LET s == Trim(text)
    IN  CASE s = "null" -> Null
          [] s = "[]" -> Arr(<<>>)
          [] s = "{}" -> Obj(Nothing)
          [] IsJsonInteger(s) -> Num(Integer(s))
          [] IsText(s) -> Str(SubSeq(s, 2, Len(s) - 1))
          [] OTHER -> Str(s)

\* Strategy::from_str
StrategyNamed ==
    [n \in {"lww"} |-> "lww"]
    @@ [n \in {"crdt-counter", "counter"} |-> "crdt-counter"]
    @@ [n \in {"crdt-set", "set"} |-> "crdt-set"]
    @@ [n \in {"crdt-map", "map"} |-> "crdt-map"]
    @@ [n \in {"crdt-text", "text"} |-> "crdt-text"]
-----------------------------------------------------------------------------
(***************************************************************************)
(* The arguments of the commands.  A path or a TTL is an Option.           *)
(***************************************************************************)
\* [STRATEGY <s>] [TTL <ms>], in any order and number.
RECURSIVE CreateOptions(_, _)
CreateOptions(s, cmd) ==
    IF Ended(s) THEN cmd
    ELSE Arg(s, LAMBDA opt, s1 : Arg(s1, LAMBDA arg, s2 :
           CASE ToUpper(opt) = "STRATEGY" /\ ToLower(arg) \in DOMAIN StrategyNamed ->
                  CreateOptions(s2, [cmd EXCEPT !.strategy = StrategyNamed[ToLower(arg)]])
             [] ToUpper(opt) = "TTL" /\ IsNatural(Unsigned(arg)) ->
                  CreateOptions(s2, [cmd EXCEPT !.ttl = <<Natural(Unsigned(arg))>>])
             [] OTHER -> Rejected))

\* [PATH <path>], also without the word if `bare`, the last one counting;
\* DEL looks at one option only.
RECURSIVE PathOptions(_, _, _, _)
PathOptions(s, cmd, bare, many) ==
    LET more(path, s1) ==
          IF many THEN PathOptions(s1, [cmd EXCEPT !.path = <<path>>], bare, many)
                  ELSE [cmd EXCEPT !.path = <<path>>]
    IN  IF Ended(s) THEN cmd
        ELSE Arg(s, LAMBDA opt, s1 :
               CASE ToUpper(opt) = "PATH" -> Arg(s1, more)
                 [] ToUpper(opt) # "PATH" /\ bare -> more(opt, s1)
                 [] OTHER -> Rejected)

WithPath(s, kind, bare, many) ==
    Arg(s, LAMBDA id, s1 :
        PathOptions(s1, [kind |-> kind, id |-> id, path |-> Nothing], bare, many))

\* SET and PUSH: the value is the rest of the line.
\* Mutant: the value is the next token.
WithValueToken(s, kind) ==
    Arg(s, LAMBDA id, s1 : Arg(s1, LAMBDA path, s2 : Arg(s2, LAMBDA value, s3 :
        [kind |-> kind, id |-> id, path |-> path, value |-> ParseValue(value)])))

WithValue(s, kind) ==
    Arg(s, LAMBDA id, s1 : Arg(s1, LAMBDA path, s2 : Rest(s2, LAMBDA value :
        [kind |-> kind, id |-> id, path |-> path, value |-> ParseValue(value)])))

\* INC: the delta is 1 if there is none.
ParseIncrement(s) ==
    Arg(s, LAMBDA id, s1 : Arg(s1, LAMBDA path, s2 :
        LET delta == IF Ended(s2) THEN "1" ELSE NextToken(s2).token
            digits == IF IsInteger(delta) THEN delta ELSE Unsigned(delta)
        IN  IF IsInteger(delta) \/ IsNatural(digits)
            THEN [kind |-> "INC", id |-> id, path |-> path, delta |-> Integer(digits)]
            ELSE Rejected))

\* PRESENCE: [DATA <json>], also without the word.
ParsePresence(s) ==
    LET data(id, text) == IF IsJson(text) THEN [kind |-> "PRESENCE", id |-> id, data |-> <<text>>]
                          ELSE Rejected
    IN  Arg(s, LAMBDA id, s1 :
            IF Ended(s1) THEN [kind |-> "PRESENCE", id |-> id, data |-> Nothing]
            ELSE Arg(s1, LAMBDA opt, s2 :
                   IF ToUpper(opt) = "DATA" THEN Rest(s2, LAMBDA text : data(id, Trim(text)))
                   ELSE data(id, Trim(opt \o " " \o SkipBlanks(s2)))))

ParseExpire(s) ==
    Arg(s, LAMBDA id, s1 : Arg(s1, LAMBDA ttl, s2 :
        IF IsNatural(Unsigned(ttl))
        THEN [kind |-> "EXPIRE", id |-> id, ttl |-> Natural(Unsigned(ttl))] ELSE Rejected))

\* KEYS: the pattern is an Option.
ParseKeys(s) ==
    [kind |-> "KEYS", id |-> IF Ended(s) THEN Nothing ELSE <<NextToken(s).token>>]

ParseRestore(s) ==
    Rest(s, LAMBDA data : IF IsJson(data) THEN [kind |-> "RESTORE", data |-> data] ELSE Rejected)

ParseCreate(s) ==
    Arg(s, LAMBDA id, s1 :
        CreateOptions(s1, [kind |-> "CREATE", id |-> id, strategy |-> "lww", ttl |-> Nothing]))

WithWord(s, kind) == Arg(s, LAMBDA word, s1 : [kind |-> kind, id |-> word])

ParseAuth(s) == WithWord(s, "AUTH")
ParseUnsubscribe(s) == WithWord(s, "UNSUB")
ParseCompact(s) == WithWord(s, "COMPACT")
ParseTtl(s) == WithWord(s, "TTL")
ParseGet(s) == WithPath(s, "GET", TRUE, TRUE)
ParseDelete(s) == WithPath(s, "DEL", TRUE, FALSE)
ParseSubscribe(s) == WithPath(s, "SUB", FALSE, TRUE)
ParseSet(s) == WithValue(s, "SET")
ParsePush(s) == WithValue(s, "PUSH")

\* parse_line
ParseLine(line) ==
    Arg(Trim(line), LAMBDA word, s :
      LET cmd == ToUpper(word)
      IN  CASE cmd \in {"PING", "QUIT", "INFO", "BACKUP"} -> [kind |-> cmd]
            [] cmd = "AUTH" -> ParseAuth(s)
            [] cmd = "CREATE" -> ParseCreate(s)
            [] cmd = "GET" -> ParseGet(s)
            [] cmd = "SET" -> ParseSet(s)
            [] cmd \in {"DEL", "DELETE"} -> ParseDelete(s)
            [] cmd \in {"SUB", "SUBSCRIBE"} -> ParseSubscribe(s)
            [] cmd \in {"UNSUB", "UNSUBSCRIBE"} -> ParseUnsubscribe(s)
            [] cmd = "PUSH" -> ParsePush(s)
            [] cmd \in {"INC", "INCR", "INCREMENT"} -> ParseIncrement(s)
            [] cmd = "PRESENCE" -> ParsePresence(s)
            [] cmd = "KEYS" -> ParseKeys(s)
            [] cmd = "COMPACT" -> ParseCompact(s)
            [] cmd = "EXPIRE" -> ParseExpire(s)
            [] cmd = "TTL" -> ParseTtl(s)
            [] cmd = "RESTORE" -> ParseRestore(s)
            [] OTHER -> Rejected)
-----------------------------------------------------------------------------
(***************************************************************************)
(* The lines documented at CommandKind, with arguments that are quoted     *)
(* where they have to be.                                                  *)
(***************************************************************************)
Quote(s) == IF s = "" \/ Find(s, {" "}) <= Len(s) THEN "\"" \o s \o "\"" ELSE s

PrintJson(value) ==
    CASE value.tag = "null" -> "null"
      [] value.tag = "number" -> ToString(value.n)
      [] value.tag = "string" -> "\"" \o value.s \o "\""
      [] value.tag = "array" -> "[]"
      [] value.tag = "object" -> "{}"

Words(words) == FoldLeft(LAMBDA s, w : IF s = "" THEN w ELSE s \o " " \o w, "", words)
Optional(word, option) == IF option = Nothing THEN <<>> ELSE <<word, Quote(option[1])>>

PrintLine(cmd) ==
    Words(<<cmd.kind>> \o
      CASE cmd.kind \in {"PING", "QUIT", "INFO", "BACKUP"} -> <<>>
        [] cmd.kind \in {"AUTH", "UNSUB", "COMPACT", "TTL"} -> <<Quote(cmd.id)>>
        [] cmd.kind = "CREATE" ->
             <<Quote(cmd.id), "STRATEGY", cmd.strategy>>
             \o IF cmd.ttl = Nothing THEN <<>> ELSE <<"TTL", ToString(cmd.ttl[1])>>
        [] cmd.kind \in {"GET", "DEL", "SUB"} -> <<Quote(cmd.id)>> \o Optional("PATH", cmd.path)
        [] cmd.kind \in {"SET", "PUSH"} ->
             <<Quote(cmd.id), Quote(cmd.path), PrintJson(cmd.value)>>
        [] cmd.kind = "INC" -> <<Quote(cmd.id), Quote(cmd.path), ToString(cmd.delta)>>
        [] cmd.kind = "PRESENCE" ->
             <<Quote(cmd.id)>> \o IF cmd.data = Nothing THEN <<>> ELSE <<"DATA", cmd.data[1]>>
        [] cmd.kind = "KEYS" -> IF cmd.id = Nothing THEN <<>> ELSE <<Quote(cmd.id[1])>>
        [] cmd.kind = "EXPIRE" -> <<Quote(cmd.id), ToString(cmd.ttl)>>
        [] cmd.kind = "RESTORE" -> <<cmd.data>>)
=============================================================================
