------------------------------ MODULE Connection ------------------------------
(***************************************************************************)
(* One connection of usld, from the bytes of the client to the answers:    *)
(* the task of tcp.rs or websocket.rs, the parser that collects lines, and *)
(* ConnectionHandler::process with its rate limit and its authentication   *)
(* gate.  The task waits in select! for bytes or for a delta of the        *)
(* broadcast channel; while it processes and answers it does neither.      *)
(*                                                                         *)
(* A command line travels as two pieces, the second of which ends with the *)
(* newline, and reads and frames cut the stream between any two pieces.    *)
(* What commands do to documents is left to the other modules: SET stands  *)
(* for them all.  Deltas are numbered, and there is one pattern.           *)
(***************************************************************************)
EXTENDS Integers, Sequences

CONSTANTS
    Transports,   \* a subset of {"tcp", "text", "binary"}
    Kinds,        \* the lines the client sends, a subset of AllKinds
    RequireAuth,  \* usld runs with --password
    RateLimit,    \* usld runs with --rate-limit
    BufferSize,   \* MAX_MESSAGE_SIZE, in pieces
    RingSize,     \* the deltas the broadcast channel keeps
    MaxLines,     \* bound on the number of lines sent
    MaxDeltas     \* bound on the number of deltas published

\* JUNK is a line no command can be made of; WRONG an AUTH with a password
\* that is not the server's.
AllKinds == {"PING", "QUIT", "AUTH", "WRONG", "SET", "SUB", "UNSUB", "JUNK"}

ASSUME TransportAssumption == Transports \subseteq {"tcp", "text", "binary"}
ASSUME KindAssumption == Kinds \subseteq AllKinds
ASSUME ConfigAssumption == RequireAuth \in BOOLEAN /\ RateLimit \in BOOLEAN
ASSUME SizeAssumption == {BufferSize, RingSize} \subseteq Nat \ {0}
ASSUME BoundAssumption == {MaxLines, MaxDeltas} \subseteq Nat

VARIABLES
    transport,    \* of the connection: TCP, WebSocket text, WebSocket binary
    sent,         \* the kinds of the lines the client has sent
    wire,         \* the pieces on their way
    buffer,       \* the pieces in the parser's buffer
    pc,           \* where the task is
    batch,        \* the answers process() collected and are not written yet
    authenticated,
    subscribed,   \* the pattern is in `subscriptions`
    published,    \* number of deltas sent to the broadcast channel
    next,         \* the first delta the receiver has not received
    out,          \* history: what was written to the client
    executed,     \* history: the AUTHs and gated commands whose handlers ran
    intact,       \* history: no piece was dropped, and no line was cut
    due,          \* history: the deltas the client may count on
    missed        \* history: the deltas the receiver was told it missed

hist == <<out, executed, intact, due, missed>>
vars == <<transport, sent, wire, buffer, pc, batch, authenticated, subscribed,
          published, next, hist>>
-----------------------------------------------------------------------------
Pcs == {"select", "process", "write", "closed", "failed"}

Replies == {"PONG", "Goodbye", "OK", "WRONGPASS", "NOAUTH", "RATE_LIMITED",
            "PARSE_ERROR", "TOO_LARGE"}

Pieces(i) == <<[line |-> i, ends |-> FALSE], [line |-> i, ends |-> TRUE]>>

Newline(i) == [line |-> i, ends |-> TRUE]

\* The newline that is added to a text frame without one.  The line it ends is
\* a line nobody sent.
AddedNewline == Newline(0)

\* What is written: an answer to a line (0: to no line in particular), or a
\* delta.
Answer(i, r) == [line |-> i, reply |-> r, delta |-> 0]
DeltaMsg(n) == [line |-> 0, reply |-> "DELTA", delta |-> n]

Ends(s) == {i \in DOMAIN s : s[i].ends}

\* The position of the first newline of the buffer.
LineEnd == CHOOSE i \in Ends(buffer) : \A j \in Ends(buffer) : i <= j

Line == SubSeq(buffer, 1, LineEnd)
AfterLine == SubSeq(buffer, LineEnd + 1, Len(buffer))

Whole == Line = Pieces(Line[1].line)

\* The number of the line, and the commands it may parse as.  A line that was
\* cut, or glued from pieces of several, has the number 0 and may be anything:
\* "AUTH pw" without its newline is a whole AUTH in a text frame, and what
\* follows a cut may be a whole UNSUB.
LineNo == IF Whole THEN Line[1].line ELSE 0
Readings == IF Whole THEN {sent[LineNo]} ELSE AllKinds

\* The handler of a command of kind k runs for the line.
Runs(k) == executed' = Append(executed, [line |-> LineNo, kind |-> k])

Init ==
    /\ transport \in Transports
    /\ sent = <<>> /\ wire = <<>> /\ buffer = <<>>
    /\ pc = "select" /\ batch = <<>>
    /\ authenticated = ~RequireAuth
    /\ subscribed = FALSE
    /\ published = 0 /\ next = 1
    /\ out = <<>> /\ executed = <<>> /\ intact = TRUE
    /\ due = {} /\ missed = {}

\* The client sends a line.  What it asks to be unsubscribed from it counts on
\* no more.
Send(k) ==
    /\ Len(sent) < MaxLines
    /\ sent' = Append(sent, k)
    /\ wire' = wire \o Pieces(Len(sent) + 1)
    /\ due' = IF k = "UNSUB" THEN {} ELSE due
    /\ UNCHANGED <<transport, buffer, pc, batch, authenticated, subscribed,
                   published, next, out, executed, intact, missed>>

(***************************************************************************)
(* Bytes arrive: the first n pieces of the wire.  A text frame gets a      *)
(* newline if it has none at its end.  feed() takes all of them, or        *)
(* refuses all and process() returns with what was buffered untouched.     *)
(***************************************************************************)
Frame(n) ==
    LET pieces == SubSeq(wire, 1, n)
    IN  IF transport = "text" /\ ~pieces[n].ends
        THEN Append(pieces, AddedNewline) ELSE pieces

\* Mutant: feed() without the check of the size.
ReceiveUnchecked(n) ==
    /\ pc = "select"
    /\ wire' = SubSeq(wire, n + 1, Len(wire))
    /\ buffer' = buffer \o Frame(n)
    /\ pc' = "process" /\ batch' = <<>>
    /\ intact' = (intact /\ Len(Frame(n)) = n)
    /\ UNCHANGED <<transport, sent, authenticated, subscribed, published, next,
                   out, executed, due, missed>>

Receive(n) ==
    /\ pc = "select"
    /\ wire' = SubSeq(wire, n + 1, Len(wire))
    /\ \/ /\ Len(buffer) + Len(Frame(n)) <= BufferSize
          /\ buffer' = buffer \o Frame(n)
          /\ pc' = "process" /\ batch' = <<>>
          /\ intact' = (intact /\ Len(Frame(n)) = n)
       \/ /\ Len(buffer) + Len(Frame(n)) > BufferSize
          /\ pc' = "write" /\ batch' = <<Answer(0, "TOO_LARGE")>>
          /\ intact' = FALSE
          /\ UNCHANGED buffer
    /\ UNCHANGED <<transport, sent, authenticated, subscribed, published, next,
                   out, executed, due, missed>>

(***************************************************************************)
(* process(): one line after the other is taken off the buffer and         *)
(* answered, until none is complete or one is an error.                    *)
(***************************************************************************)
NeedMoreData ==
    /\ pc = "process" /\ Ends(buffer) = {}
    /\ pc' = "write"
    /\ UNCHANGED <<transport, sent, wire, buffer, batch, authenticated, subscribed,
                   published, next, hist>>

\* The line is taken off the buffer, answered with r, and process() goes on
\* at `then`.
TakeLine(r, then) ==
    /\ pc = "process" /\ Ends(buffer) # {}
    /\ buffer' = AfterLine
    /\ batch' = Append(batch, Answer(LineNo, r))
    /\ pc' = then
    /\ UNCHANGED <<transport, sent, wire, published, next, out, intact, due, missed>>

ParseError ==
    /\ TakeLine("PARSE_ERROR", "write")
    /\ "JUNK" \in Readings
    /\ UNCHANGED <<authenticated, subscribed, executed>>

\* Mutant: a refused command ends process(), as an error does.
RateLimitedBreak ==
    /\ RateLimit
    /\ TakeLine("RATE_LIMITED", "write")
    /\ Readings \ {"PING", "QUIT", "JUNK"} # {}
    /\ UNCHANGED <<authenticated, subscribed, executed>>

\* Mutant: a refused command is dropped without an answer.
RateLimitedSilently ==
    /\ RateLimit
    /\ pc = "process" /\ Ends(buffer) # {}
    /\ Readings \ {"PING", "QUIT", "JUNK"} # {}
    /\ buffer' = AfterLine
    /\ UNCHANGED <<transport, sent, wire, pc, batch, authenticated, subscribed,
                   published, next, hist>>

\* try_acquire() may refuse any command but PING and QUIT (how often, is the
\* business of module RateLimiter).
RateLimited ==
    /\ RateLimit
    /\ TakeLine("RATE_LIMITED", "process")
    /\ Readings \ {"PING", "QUIT", "JUNK"} # {}
    /\ UNCHANGED <<authenticated, subscribed, executed>>

PingOrQuit ==
    /\ \/ TakeLine("PONG", "process") /\ "PING" \in Readings
       \/ TakeLine("Goodbye", "process") /\ "QUIT" \in Readings
    /\ UNCHANGED <<authenticated, subscribed, executed>>

\* Mutant: whatever the password, the client is authenticated after an AUTH.
HandleAnyAuth ==
    /\ \/ TakeLine("OK", "process") /\ "AUTH" \in Readings /\ Runs("AUTH")
       \/ TakeLine("WRONGPASS", "process") /\ "WRONG" \in Readings /\ Runs("WRONG")
    /\ authenticated' = TRUE
    /\ UNCHANGED subscribed

HandleAuth ==
    /\ \/ /\ TakeLine("OK", "process")
          /\ \E k \in Readings \cap {"AUTH", "WRONG"} :
                Runs(k) /\ (k = "AUTH" \/ ~RequireAuth)
          /\ authenticated' = TRUE
       \/ /\ TakeLine("WRONGPASS", "process")
          /\ "WRONG" \in Readings /\ Runs("WRONG") /\ RequireAuth
          /\ UNCHANGED authenticated
    /\ UNCHANGED subscribed

Gated == {"SET", "SUB", "UNSUB"}

NoAuth ==
    /\ RequireAuth /\ ~authenticated
    /\ TakeLine("NOAUTH", "process")
    /\ Readings \cap Gated # {}
    /\ UNCHANGED <<authenticated, subscribed, executed>>

HandleCommand ==
    /\ ~RequireAuth \/ authenticated
    /\ TakeLine("OK", "process")
    /\ \E k \in Readings \cap Gated :
          /\ Runs(k)
          /\ subscribed' = CASE k = "SUB" -> TRUE
                             [] k = "UNSUB" -> FALSE
                             [] k = "SET" -> subscribed
    /\ UNCHANGED authenticated

Process ==
    \/ NeedMoreData \/ ParseError \/ RateLimited
    \/ PingOrQuit \/ HandleAuth \/ NoAuth \/ HandleCommand

(***************************************************************************)
(* The answers are written one by one.  A write that fails ends the task   *)
(* at once (`?`); after the answer to a QUIT the connection is closed,     *)
(* unless it came in a binary frame.                                       *)
(***************************************************************************)
Written == pc = "write" /\ batch # <<>>

Closes == Head(batch).reply = "Goodbye" /\ transport # "binary"

Write ==
    /\ Written
    /\ out' = Append(out, Head(batch))
    /\ batch' = Tail(batch)
    /\ pc' = IF Closes THEN "closed" ELSE "write"
    /\ UNCHANGED <<transport, sent, wire, buffer, authenticated, subscribed,
                   published, next, executed, intact, due, missed>>

WriteFails ==
    /\ Written
    /\ pc' = "failed"
    /\ UNCHANGED <<transport, sent, wire, buffer, batch, authenticated, subscribed,
                   published, next, hist>>

AllWritten ==
    /\ pc = "write" /\ batch = <<>>
    /\ pc' = "select"
    /\ UNCHANGED <<transport, sent, wire, buffer, batch, authenticated, subscribed,
                   published, next, hist>>

\* The end of the stream, a Close frame, or an error while reading.
Disconnect ==
    /\ pc = "select"
    /\ pc' = "closed"
    /\ UNCHANGED <<transport, sent, wire, buffer, batch, authenticated, subscribed,
                   published, next, hist>>

(***************************************************************************)
(* The broadcast channel.  The receiver exists from the beginning of the   *)
(* connection; which deltas concern the client is decided when they are    *)
(* received.  A receiver that is RingSize deltas behind is told so, once,  *)
(* and goes on with the oldest delta the channel still has.                *)
(***************************************************************************)
\* The messages that say yes to a SUB or an UNSUB, of which the last counts.
Changes(messages) ==
    {i \in DOMAIN messages : /\ messages[i].line # 0 /\ messages[i].reply = "OK"
                             /\ sent[messages[i].line] \in {"SUB", "UNSUB"}}

SaysSubscribed(messages) ==
    \E i \in Changes(messages) :
        /\ sent[messages[i].line] = "SUB"
        /\ \A j \in Changes(messages) : j <= i

\* The client knows that it is subscribed.
Acknowledged == SaysSubscribed(out)

\* A delta published while the client knows it is subscribed, and has not
\* asked to be unsubscribed, is due to it.
Publish ==
    /\ published < MaxDeltas
    /\ published' = published + 1
    /\ due' = IF /\ Acknowledged
                 /\ \A i \in DOMAIN sent : sent[i] = "UNSUB" =>
                       \E j \in DOMAIN out : out[j].line = i
              THEN due \cup {published + 1} ELSE due
    /\ UNCHANGED <<transport, sent, wire, buffer, pc, batch, authenticated,
                   subscribed, next, out, executed, intact, missed>>

Oldest == IF published > RingSize THEN published - RingSize + 1 ELSE 1

\* Mutant: a receiver that lags subscribes anew.
LaggedResubscribe ==
    /\ pc = "select" /\ next < Oldest
    /\ missed' = missed \cup (next..(Oldest - 1))
    /\ next' = published + 1
    /\ UNCHANGED <<transport, sent, wire, buffer, pc, batch, authenticated,
                   subscribed, published, out, executed, intact, due>>

Lagged ==
    /\ pc = "select" /\ next < Oldest
    /\ missed' = missed \cup (next..(Oldest - 1))
    /\ next' = Oldest
    /\ UNCHANGED <<transport, sent, wire, buffer, pc, batch, authenticated,
                   subscribed, published, out, executed, intact, due>>

Delta ==
    /\ pc = "select" /\ Oldest <= next /\ next <= published
    /\ next' = next + 1
    /\ \/ subscribed /\ out' = Append(out, DeltaMsg(next)) /\ UNCHANGED pc
       \/ subscribed /\ pc' = "closed" /\ UNCHANGED out    \* the write fails
       \/ ~subscribed /\ UNCHANGED <<pc, out>>
    /\ UNCHANGED <<transport, sent, wire, buffer, batch, authenticated, subscribed,
                   published, executed, intact, due, missed>>

Next ==
    \/ \E k \in Kinds : Send(k)
    \/ \E n \in DOMAIN wire : Receive(n)
    \/ Process
    \/ Write \/ WriteFails \/ AllWritten
    \/ Disconnect
    \/ Publish \/ Lagged \/ Delta

Spec == Init /\ [][Next]_vars
-----------------------------------------------------------------------------
Piece == [line : Nat, ends : BOOLEAN]
Message == [line : Nat, reply : Replies \cup {"DELTA"}, delta : Nat]
Execution == [line : Nat, kind : AllKinds]

TypeOK ==
    /\ transport \in Transports /\ pc \in Pcs
    /\ sent \in Seq(Kinds) /\ wire \in Seq(Piece) /\ buffer \in Seq(Piece)
    /\ batch \in Seq(Message) /\ out \in Seq(Message)
    /\ authenticated \in BOOLEAN /\ subscribed \in BOOLEAN /\ intact \in BOOLEAN
    /\ published \in Nat /\ next \in 1..(published + 1)
    /\ executed \in Seq(Execution)
    /\ Len(buffer) <= BufferSize
    /\ due \subseteq 1..published /\ missed \subseteq 1..published

\* What is written or about to be, and where the answers are in it.
Messages == out \o batch
Answers == {i \in DOMAIN Messages : Messages[i].reply # "DELTA"}

Lines(answers) == {Messages[i].line : i \in answers}

\* Clients match answers to commands by counting: as long as framing is
\* intact, the lines answered before a line are the lines sent before it, and
\* every line either has its answer or is still in the buffer or on the wire.
OneAnswerEach ==
    intact =>
        /\ \A i \in Answers : Lines({j \in Answers : j < i}) = 1..(Messages[i].line - 1)
        /\ \A l \in DOMAIN sent :
              l \in Lines(Answers)
                <=> ~ \E i \in DOMAIN (buffer \o wire) : (buffer \o wire)[i] = Newline(l)

\* "With auth: Only PING, AUTH, and QUIT work before authentication": a gated
\* handler runs only after a line was executed as an AUTH with the right
\* password, and of lines that arrive as they were sent only after such a line
\* that was sent before, however the stream is cut into reads and frames.
Admits(e) == e.kind = "AUTH" /\ (e.line # 0 => sent[e.line] = "AUTH")

AuthGate ==
    RequireAuth =>
        \A i \in DOMAIN executed :
            executed[i].kind \in Gated =>
                \E j \in 1..(i - 1) :
                    /\ Admits(executed[j])
                    /\ executed[i].line # 0 => executed[j].line < executed[i].line

\* While the task waits, a complete line is left in the buffer only if the
\* last process() ended with an error: everything else a read brings is
\* answered before the next one.
StrandedOnlyByErrors ==
    pc = "select" /\ Ends(buffer) # {} =>
        \E i \in DOMAIN out :
            /\ out[i].reply \in {"PARSE_ERROR", "TOO_LARGE"}
            /\ \A j \in (i + 1)..Len(out) : out[j].reply = "DELTA"

\* A line nobody sent was executed as an UNSUB.
MangledUnsub == \E i \in DOMAIN executed : executed[i] = [line |-> 0, kind |-> "UNSUB"]

\* A client that was told it is subscribed gets every delta published from
\* then on, in order, or is still to get it, or the channel had overwritten it
\* when the receiver came to it (which the server logs and the client is not
\* told), or the stream was cut into a line that unsubscribed it.
DueArrives ==
    /\ \A n \in due : n < next /\ n \notin missed /\ pc # "closed" =>
          MangledUnsub \/ \E i \in DOMAIN out : out[i].delta = n
    /\ \A i, j \in DOMAIN out :
          i < j /\ 0 \notin {out[i].delta, out[j].delta} => out[i].delta < out[j].delta
=============================================================================
