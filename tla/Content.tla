------------------------------- MODULE Content -------------------------------
(***************************************************************************)
(* What the commands on documents do to their content and answer: the      *)
(* handlers (handler.rs), Document (document.rs) and the paths of module   *)
(* Paths, for commands as the server has understood them (module Session   *)
(* has them come from lines).  Commands are atomic here; DocumentManager   *)
(* has them step by step, with the content left out, and also what is      *)
(* about time.                                                             *)
(***************************************************************************)
EXTENDS Paths, Globs

CONSTANTS
    Ids,          \* what clients give as an id
    Commands,     \* the commands clients ask for
    Half,         \* 2^(w-1), w the width of the integers (i64)
    MaxCommands   \* bound on the number of commands

VARIABLES
    docs,         \* id -> its document
    did,          \* the last command as the server understood it
    answer,       \* what it answered
    issued,       \* number of commands so far
    sums          \* history: id -> the sums of the INCs, and if there was nothing else

vars == <<docs, did, answer, issued, sums>>
-----------------------------------------------------------------------------
Ok == [kind |-> "ok"]
Error == [kind |-> "error"]
Missing == [kind |-> "null"]
Panic == [kind |-> "panic"]
ValueAnswer(v) == [kind |-> "value", value |-> v]
IntegerAnswer(n) == [kind |-> "integer", n |-> n]

\* DocumentId::new
IdChars == Range(Lower) \cup Range(Capital) \cup DOMAIN Digit \cup {":", "_", "-"}
ValidId(id) == id # "" /\ \A i \in 1..Len(id) : At(id, i) \in IdChars

\* No document under an id; lww_data, and the Yrs text, of a new one.
NoDoc == [strategy |-> "none"]
New(strategy) == [strategy |-> strategy, data |-> Obj(Nothing), text |-> ""]

\* The debug build panics on overflow, the release build wraps.
\* Mutant: the release build saturates.
WrapSaturating(n) == IF n >= Half THEN Half - 1 ELSE IF n < -Half THEN -Half ELSE n

Wrap(n) == ((n + Half) % (2 * Half)) - Half
Overflows(n) == n >= Half \/ n < -Half

\* Document::get; an InvalidPath error is Nothing.
DocGet(doc, path) ==
    CASE doc.strategy = "crdt-text" -> <<Str(doc.text)>>
      [] doc.strategy \in {"lww", "crdt-map"} /\ path # Nothing -> GetPath(doc.data, path[1])
      [] OTHER -> <<doc.data>>

Init ==
    /\ docs = [id \in Ids |-> NoDoc]
    /\ did = [kind |-> "none"] /\ answer = Missing
    /\ issued = 0
    /\ sums = [id \in Ids |-> [pure |-> TRUE, at |-> Nothing]]

Exists(id) == docs[id] # NoDoc
GetOrCreate(id, strategy) == IF Exists(id) THEN docs[id] ELSE New(strategy)

Put(id, doc, a) == docs' = [docs EXCEPT ![id] = doc] /\ answer' = a
Say(a) == UNCHANGED docs /\ answer' = a
-----------------------------------------------------------------------------
(***************************************************************************)
(* The handlers, of commands with a valid id.                              *)
(***************************************************************************)
Create(cmd) ==
    /\ cmd.kind = "CREATE"
    /\ IF Exists(cmd.id) THEN Say(Error) ELSE Put(cmd.id, New(cmd.strategy), Ok)

Get(cmd) ==
    /\ cmd.kind = "GET"
    /\ IF ~Exists(cmd.id) THEN Say(Missing)
       ELSE LET found == DocGet(docs[cmd.id], cmd.path)
            IN  Say(IF found = Nothing THEN Error ELSE ValueAnswer(found[1]))

Set(cmd) ==
    LET doc == GetOrCreate(cmd.id, "lww")
    IN  /\ cmd.kind = "SET"
        /\ CASE doc.strategy # "crdt-text" ->
                  Put(cmd.id, [doc EXCEPT !.data = SetPath(@, cmd.path, cmd.value)], Ok)
             [] doc.strategy = "crdt-text" /\ cmd.value.tag = "string" ->
                  Put(cmd.id, [doc EXCEPT !.text = cmd.value.s], Ok)
             [] OTHER -> Put(cmd.id, doc, Error)

Delete(cmd) ==
    /\ cmd.kind = "DEL" /\ cmd.path = Nothing
    /\ IF Exists(cmd.id) THEN Put(cmd.id, NoDoc, Ok) ELSE Say(Error)

DeletePath(cmd) ==
    /\ cmd.kind = "DEL" /\ cmd.path # Nothing
    /\ IF Exists(cmd.id)
       THEN Put(cmd.id, [docs[cmd.id] EXCEPT !.data = SetPath(@, cmd.path[1], Null)], Ok)
       ELSE Say(Error)

\* The array is looked up, made if nothing is there, looked up again, and set.
\* Mutant: anything that is no array gives way to one.
PushOver(cmd) ==
    LET doc == GetOrCreate(cmd.id, "lww")
        there == GetPath(doc.data, cmd.path)
        items == IF there # Nothing /\ there[1].tag = "array" THEN there[1].items ELSE <<>>
        data == SetPath(doc.data, cmd.path, Arr(Append(items, cmd.value)))
    IN  /\ cmd.kind = "PUSH"
        /\ Put(cmd.id, [doc EXCEPT !.data = data],
               IF there # Nothing /\ there[1].tag # "array" THEN Error ELSE Ok)

Push(cmd) ==
    LET doc == GetOrCreate(cmd.id, "lww")
        there == GetPath(doc.data, cmd.path)
        items == IF there = Nothing THEN <<>> ELSE there[1].items
        data == SetPath(doc.data, cmd.path, Arr(Append(items, cmd.value)))
    IN  /\ cmd.kind = "PUSH"
        /\ IF there # Nothing /\ there[1].tag # "array"
           THEN Put(cmd.id, doc, Error)
           ELSE Put(cmd.id, [doc EXCEPT !.data = data], Ok)

Increment(cmd) ==
    LET doc == GetOrCreate(cmd.id, "crdt-counter")
        there == GetPath(doc.data, cmd.path)
        current == IF there # Nothing /\ there[1].tag = "number" THEN there[1].n ELSE 0
        n == Wrap(current + cmd.delta)
    IN  /\ cmd.kind = "INC"
        /\ \/ Put(cmd.id, [doc EXCEPT !.data = SetPath(@, cmd.path, Num(n))], IntegerAnswer(n))
           \/ Overflows(current + cmd.delta) /\ Put(cmd.id, doc, Panic)

\* COMPACT, EXPIRE and TTL change no content, and only ask for the document.
Compact(cmd) ==
    /\ cmd.kind = "COMPACT"
    /\ Say(IF Exists(cmd.id) THEN Ok ELSE Error)
Expire(cmd) ==
    /\ cmd.kind = "EXPIRE"
    /\ Say(IF Exists(cmd.id) THEN Ok ELSE Error)
Ttl(cmd) ==
    /\ cmd.kind = "TTL"
    /\ Say(IF Exists(cmd.id) THEN Ok ELSE Error)

\* DocumentManager::list
Keys(cmd) ==
    /\ cmd.kind = "KEYS"
    /\ Say([kind |-> "keys", ids |->
             {id \in Ids : /\ Exists(id)
                           /\ \A pattern \in ToSet(cmd.id) :
                                 GlobMatches(Chars(id), Chars(pattern))}])

\* Lines that are refused; what is restored here is never a backup.
Refused(cmd) == cmd.kind \in {"rejected", "RESTORE"} /\ Say(Error)

\* The commands about the connection or the whole server.
Presence(cmd) == cmd.kind = "PRESENCE" /\ Say(Ok)
Other(cmd) ==
    /\ cmd.kind \in {"PING", "QUIT", "INFO", "AUTH", "SUB", "UNSUB", "BACKUP"}
    /\ Say(Ok)

\* An id that is none.
Invalid == Say(Error)

OnDocument(cmd) == cmd.kind \in {"CREATE", "GET", "SET", "DEL", "PUSH", "INC", "TTL",
                                 "COMPACT", "EXPIRE", "PRESENCE"}

\* The sums of the INCs on a document, as long as there was nothing else.
Count(cmd) ==
    LET at == Segments(cmd.path)
        sum(f) == IF at \in DOMAIN f THEN f[at] ELSE 0
        add(f) == [s \in DOMAIN f \cup {at} |-> IF s = at THEN sum(f) + cmd.delta ELSE f[s]]
    IN  sums' = [id \in Ids |->
          IF ~OnDocument(cmd) \/ cmd.id # id THEN sums[id]
          ELSE IF cmd.kind = "INC" /\ answer'.kind = "integer" THEN [sums[id] EXCEPT !.at = add(@)]
          ELSE [sums[id] EXCEPT !.pure = @ /\ (docs' = docs \/ cmd.kind = "CREATE")]]

Command(cmd) ==
    IF OnDocument(cmd) /\ ~ValidId(cmd.id) THEN Invalid
    ELSE \/ Create(cmd) \/ Get(cmd) \/ Set(cmd) \/ Delete(cmd) \/ DeletePath(cmd)
         \/ Push(cmd) \/ Increment(cmd)
         \/ Compact(cmd) \/ Expire(cmd) \/ Ttl(cmd) \/ Keys(cmd)
         \/ Presence(cmd) \/ Refused(cmd) \/ Other(cmd)

Serve(cmd) ==
    /\ issued < MaxCommands
    /\ issued' = issued + 1
    /\ did' = cmd
    /\ Command(cmd)
    /\ Count(cmd)

Next == \E cmd \in Commands : Serve(cmd)

Spec == Init /\ [][Next]_vars

\* The parser comes to an end on the paths of the commands (where it does not,
\* the server hangs), and an id is one of the Ids.
ASSUME BoundAssumption == MaxCommands \in Nat /\ Half \in Nat \ {0}
ASSUME CommandAssumption ==
    \A cmd \in Commands :
        /\ OnDocument(cmd) /\ ValidId(cmd.id) => cmd.id \in Ids
        /\ cmd.kind \in {"SET", "PUSH", "INC"} => Segments(cmd.path) \in Seq(Segment)
        /\ cmd.kind = "DEL" /\ cmd.path # Nothing => Segments(cmd.path[1]) \in Seq(Segment)
        /\ cmd.kind = "SET" /\ cmd.value.tag = "string" => cmd.value = Str(cmd.value.s)
        /\ cmd.kind = "INC" => cmd.delta \in Int
-----------------------------------------------------------------------------
(***************************************************************************)
(* Properties.                                                             *)
(***************************************************************************)

\* An acknowledged write shows in the next GET of its path: SET the value, INC
\* the integer it answered, PUSH the array with the value at its end.  The
\* exceptions are a path that is not empty and has no segments ("."), which
\* changes nothing, and crdt-text, where only SET shows.
Shows(cmd) ==
    LET doc == docs'[cmd.id]
        before == GetPath(GetOrCreate(cmd.id, "lww").data, cmd.path)
        after == GetPath(doc.data, cmd.path)
        shown == DocGet(doc, <<cmd.path>>)
    IN  CASE doc.strategy = "crdt-text" ->
               shown = IF cmd.kind = "SET" THEN <<cmd.value>>
                       ELSE DocGet(docs[cmd.id], <<cmd.path>>)
          [] doc.strategy # "crdt-text" /\ cmd.path # "" /\ Segments(cmd.path) = Nothing ->
               after = before
          [] OTHER ->
               /\ shown = IF doc.strategy \in {"lww", "crdt-map"} THEN after ELSE <<doc.data>>
               /\ CASE cmd.kind = "SET" -> after = <<cmd.value>>
                    [] cmd.kind = "INC" -> after = <<Num(answer'.n)>>
                    [] cmd.kind = "PUSH" ->
                         LET old == IF before = Nothing THEN <<>> ELSE before[1].items
                         IN  after = <<Arr(Append(old, cmd.value))>>

WriteIsReadBack ==
    [][did'.kind \in {"SET", "PUSH", "INC"} /\ answer'.kind \in {"ok", "integer"} => Shows(did')]_vars

\* How many segments of a path lead to a value the next one does not fit.
Clobbered(data, at) ==
    {n \in 0..Len(at) - 1 :
        LET there == GetAt(data, SubSeq(at, 1, n))
        IN  there # Nothing /\ ~Fits(at[n + 1], there[1])}

\* A write changes nothing but what is at its path, below it and above it: at
\* any other path there is what there was, or a Null where an array has grown
\* up to the index, or nothing, where a value on the way of the path was no
\* object or array as the path needs it, and gave way to an empty one.
Keeps(old, new, at, q) ==
    \/ IsPrefix(q, at) \/ IsPrefix(at, q)
    \/ GetAt(new, q) = GetAt(old, q)
    \/ GetAt(old, q) = Nothing /\ GetAt(new, q) = <<Null>>
    \/ \E n \in Clobbered(old, at) :
          IsPrefix(SubSeq(at, 1, n), q) /\ GetAt(new, q) \in {Nothing, <<Null>>}

OthersKept ==
    [][did'.kind \in {"SET", "PUSH", "INC", "DEL"} /\ docs[did'.id] # NoDoc /\ docs'[did'.id] # NoDoc =>
         LET path == IF did'.kind = "DEL" THEN did'.path[1] ELSE did'.path
         IN  \A cmd \in {c \in Commands : c.kind = "SET"} :
               Keeps(docs[did'.id].data, docs'[did'.id].data, Segments(path), Segments(cmd.path))]_vars

\* A refused command leaves the content of all documents as it was; it may
\* leave a new, empty document behind.
RefusedChangesNothing ==
    [][answer'.kind = "error" =>
         \A id \in Ids :
            \/ docs'[id] = docs[id]
            \/ docs[id] = NoDoc /\ docs'[id].data = Obj(Nothing)]_vars

\* Two paths one of which is on the way of the other, or asks for an index
\* where the other asks for a key.
Clash(s, t) ==
    \/ IsPrefix(s, t) \/ IsPrefix(t, s)
    \/ \E n \in 1..Len(s) : /\ n <= Len(t) /\ s[n].tag # t[n].tag
                            /\ SubSeq(s, 1, n - 1) = SubSeq(t, 1, n - 1)

\* A counter is the sum of what was acknowledged, modulo 2^w, as long as its
\* document has only seen INCs, and none at a path that clashes with it.
CountersAdd ==
    \A id \in Ids : sums[id].pure =>
        \A s \in DOMAIN sums[id].at :
            (\A t \in DOMAIN sums[id].at : t # s => ~Clash(s, t)) /\ s # Nothing =>
                GetAt(docs[id].data, s) = <<Num(Wrap(sums[id].at[s]))>>
=============================================================================
