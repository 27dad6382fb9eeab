------------------------------- MODULE JsClient -------------------------------
(***************************************************************************)
(* The JavaScript client (sdks/js/src/client.ts) over its WebSockets: the  *)
(* connection and its states, the timers that connect anew, and the queue  *)
(* of commands that wait for a line.                                       *)
(*                                                                         *)
(* An action is a call by the application, an event of a socket or a timer *)
(* that fires; the code runs each to its end.  The close event alone is    *)
(* taken apart: handleDisconnect and scheduleReconnect call the listeners  *)
(* of the application with work left to do, and these may call connect()   *)
(* and disconnect(), or throw.  The other listeners (those of connect,     *)
(* error and of disconnect() itself) run when the state is settled: their  *)
(* calls are the next steps.                                               *)
(*                                                                         *)
(* A socket delivers messages while it is open only, and its handlers stay *)
(* with it when the client has turned to another.  The server answers      *)
(* every command with one message of whole lines (responseBuffer is empty  *)
(* between messages): one line or, for a bulk or an array, some.  Deltas   *)
(* (lines with a #) leave the queue alone; the GETs they cause are the     *)
(* application's here.                                                     *)
(***************************************************************************)
EXTENDS Integers, Sequences, SequencesExt

CONSTANTS
    Sockets,                \* sockets at a time; a closed one is used again
    MaxReconnectAttempts,   \* options.maxReconnectAttempts
    MaxCalls,               \* bound on the calls of connect() and disconnect()
    MaxSends,               \* bound on the calls of send()
    BulkLines               \* bound on the lines of a bulk or an array

ASSUME JsAssumption ==
    /\ Sockets \in Nat \ {0}
    /\ MaxReconnectAttempts \in Nat /\ MaxCalls \in Nat /\ MaxSends \in Nat
    /\ BulkLines \in Nat \ {0}

VARIABLES
    available,    \* options.WebSocket: there is an implementation
    state,        \* connectionState
    ws,           \* the socket in use; 0, null
    reconnect,    \* options.reconnect
    attempt,      \* reconnectAttempt
    timers,       \* how many reconnect timers are running
    held,         \* reconnectTimer is one of them
    phase,        \* socket -> "none", "connecting", "open" or "closing"
    waiting,      \* the sockets whose connect timeout is running
    within,       \* the listeners that run: of "disconnect", of "reconnecting" or "none"
    pending,      \* pendingCommands, the numbers of the commands
    asked,        \* the commands so far: their kind and their socket
    result,       \* command -> whose line settled its promise
    wire,         \* socket -> commands the server has not read
    answers,      \* socket -> the answers on their way, the numbers of the commands
    calls,        \* number of calls so far
    off,          \* history: "never", "first" or "again", see NextOff
    doubled,      \* history: two reconnect timers ran at once
    overwritten,  \* history: the state became "reconnecting" with a socket in use
    late,         \* history: disconnect() came from a listener of "reconnecting"
    threw,        \* history: a listener of "reconnecting" threw
    crossed,      \* history: two sockets were in use, or had commands, at a time
    thrown        \* history: a send() threw behind its entry in the queue

conns == <<available, state, ws, reconnect, attempt, timers, held, phase, waiting, within>>
queue == <<pending, result, wire, answers>>
history == <<off, doubled, overwritten, late, threw, crossed, thrown>>
jsVars == <<conns, queue, asked, calls, history>>
-----------------------------------------------------------------------------
Slots == 1..Sockets
Pending == 0                      \* the promise of a command is neither
Rejected == MaxSends + 1

\* The lines of an answer that are not empty: a bulk has its length and,
\* unless it is empty, its text.
Lines(kind) == IF kind = "bulk" THEN 1..BulkLines ELSE {1}

JsInit ==
    /\ available \in BOOLEAN
    /\ state = "disconnected" /\ ws = 0 /\ reconnect = TRUE /\ attempt = 0
    /\ timers = 0 /\ held = FALSE
    /\ phase = [s \in Slots |-> "none"] /\ waiting = {} /\ within = "none"
    /\ pending = <<>> /\ asked = <<>> /\ result = <<>>
    /\ wire = [s \in Slots |-> <<>>] /\ answers = [s \in Slots |-> <<>>]
    /\ calls = 0 /\ off = "never" /\ doubled = FALSE /\ overwritten = FALSE
    /\ late = FALSE /\ threw = FALSE /\ crossed = FALSE /\ thrown = FALSE

(***************************************************************************)
(* connect() and disconnect().                                             *)
(***************************************************************************)
\* Mutant: connect() while connecting opens another socket.
BusyConnected == state = "connected"

\* connect() has nothing to do.
Busy == state \in {"connected", "connecting"}

\* The new socket, in the first free slot.  The old one is not closed.
NewSocket(s) ==
    /\ available /\ phase[s] = "none" /\ \A t \in 1..(s - 1) : phase[t] # "none"
    /\ state' = "connecting" /\ ws' = s
    /\ phase' = [phase EXCEPT ![s] = "connecting"]
    /\ waiting' = waiting \cup {s}
    /\ crossed' = (crossed \/ ws # 0)

\* connect() rejects: there is no implementation, or its constructor throws.
NoSocket ==
    /\ state' = IF available THEN "disconnected" ELSE "connecting"
    /\ UNCHANGED <<ws, phase, waiting, crossed>>

\* connect(), from the application or a timer.
Opens(s) == (NewSocket(s) \/ NoSocket) /\ UNCHANGED <<available, reconnect, attempt, within>>

Connect(s) ==
    /\ calls < MaxCalls /\ calls' = calls + 1
    /\ ~Busy /\ Opens(s)
    /\ off' = IF off = "never" THEN off ELSE "again"
    /\ UNCHANGED <<timers, held, queue, asked, doubled, overwritten, late, threw, thrown>>

\* Mutant: the timer is not cleared.
KeepTimer == UNCHANGED <<timers, held>>

\* clearTimeout(reconnectTimer): the last one that was set.
ClearTimer == timers' = (IF held THEN timers - 1 ELSE timers) /\ held' = FALSE

\* The close event comes later.
Closing(s) == phase' = IF s = 0 THEN phase ELSE [phase EXCEPT ![s] = "closing"]

Disconnect ==
    /\ calls < MaxCalls /\ calls' = calls + 1
    /\ reconnect' = FALSE /\ ClearTimer
    /\ Closing(ws) /\ ws' = 0 /\ state' = "disconnected"
    /\ off' = IF off = "never" THEN "first" ELSE off
    /\ late' = (late \/ within = "reconnecting")
    /\ UNCHANGED <<available, attempt, waiting, within, queue, asked, doubled, overwritten,
                   threw, crossed, thrown>>

\* A reconnect timer fires.
Fire(s) ==
    /\ within = "none" /\ timers > 0 /\ timers' = timers - 1
    /\ \/ held /\ held' = FALSE
       \/ timers > (IF held THEN 1 ELSE 0) /\ UNCHANGED held
    /\ \/ ~Busy /\ Opens(s)
       \/ Busy /\ UNCHANGED <<available, state, ws, reconnect, attempt, phase, waiting,
                              within, crossed>>
    /\ UNCHANGED <<queue, asked, calls, off, doubled, overwritten, late, threw, thrown>>

(***************************************************************************)
(* The events of a socket.                                                 *)
(***************************************************************************)
\* onopen
Open(s) ==
    /\ within = "none" /\ phase[s] = "connecting"
    /\ phase' = [phase EXCEPT ![s] = "open"] /\ waiting' = waiting \ {s}
    /\ state' = "connected" /\ attempt' = 0
    /\ UNCHANGED <<available, ws, reconnect, timers, held, within, queue, asked, calls, history>>

\* Mutant: the timeout leaves the socket alone.
TimeoutRejects(s) == UNCHANGED phase

\* The promise of connect() is rejected, and the socket closed.
TimeoutCloses(s) == IF state = "connecting" THEN Closing(ws) ELSE UNCHANGED phase

\* The timer of the connect() that made socket s.
ConnectTimeout(s) ==
    /\ within = "none" /\ s \in waiting /\ waiting' = waiting \ {s}
    /\ TimeoutCloses(s)
    /\ UNCHANGED <<available, state, ws, reconnect, attempt, timers, held, within, queue, asked,
                   calls, history>>

\* Mutant: the commands go on waiting.
RejectNone == UNCHANGED <<pending, result>>

RejectPending ==
    /\ pending' = <<>>
    /\ result' = [i \in DOMAIN result |->
                     IF Contains(pending, i) /\ result[i] = Pending THEN Rejected ELSE result[i]]

\* handleDisconnect, to the listeners of "disconnect".
HandleDisconnect ==
    /\ state' = "disconnected" /\ ws' = 0 /\ RejectPending
    /\ within' = "disconnect"

\* onclose: the connection ended, was closed or could not be made.
CloseEvent(s) ==
    /\ within = "none" /\ phase[s] # "none"
    /\ phase' = [phase EXCEPT ![s] = "none"] /\ waiting' = waiting \ {s}
    /\ HandleDisconnect
    /\ wire' = [wire EXCEPT ![s] = <<>>] /\ answers' = [answers EXCEPT ![s] = <<>>]
    /\ crossed' = (crossed \/ ws \notin {0, s})
    /\ UNCHANGED <<available, reconnect, attempt, timers, held, asked, calls, off, doubled,
                   overwritten, late, threw, thrown>>

\* The rest of handleDisconnect, and scheduleReconnect to its listeners.
ScheduleReconnect ==
    /\ within = "disconnect"
    /\ IF reconnect /\ attempt < MaxReconnectAttempts
       THEN /\ state' = "reconnecting" /\ attempt' = attempt + 1
            /\ within' = "reconnecting"
            /\ overwritten' = (overwritten \/ ws # 0)
       ELSE within' = "none" /\ UNCHANGED <<state, attempt, overwritten>>
    /\ UNCHANGED <<available, ws, reconnect, timers, held, phase, waiting, queue, asked, calls,
                   off, doubled, late, threw, crossed, thrown>>

\* The rest of scheduleReconnect.
SetTimer ==
    /\ within = "reconnecting" /\ within' = "none"
    /\ timers' = timers + 1 /\ held' = TRUE
    /\ doubled' = (doubled \/ timers > 0)
    /\ UNCHANGED <<available, state, ws, reconnect, attempt, phase, waiting, queue, asked, calls,
                   off, overwritten, late, threw, crossed, thrown>>

\* A listener throws, and the rest is left out.
ListenerThrows ==
    /\ within # "none" /\ within' = "none"
    /\ threw' = (threw \/ within = "reconnecting")
    /\ UNCHANGED <<available, state, ws, reconnect, attempt, timers, held, phase, waiting, queue,
                   asked, calls, off, doubled, overwritten, late, crossed, thrown>>

\* The listeners of "disconnect" or "reconnecting" return.
Returns == ScheduleReconnect \/ SetTimer \/ ListenerThrows

(***************************************************************************)
(* send() and the answers.                                                 *)
(***************************************************************************)
\* send(): the entry is made before the socket's own send, which throws while
\* it connects, and does nothing while it closes.
Send(kind) ==
    LET id == Len(asked) + 1
        others == \E i \in ToSet(pending) : asked[i].socket # ws
    IN  /\ Len(asked) < MaxSends
        /\ state = "connected" /\ ws # 0
        /\ asked' = Append(asked, [kind |-> kind, socket |-> ws])
        /\ pending' = Append(pending, id)
        /\ result' = Append(result, IF phase[ws] = "connecting" THEN Rejected ELSE Pending)
        /\ wire' = IF phase[ws] = "open" THEN [wire EXCEPT ![ws] = Append(@, id)] ELSE wire
        /\ thrown' = (thrown \/ phase[ws] = "connecting")
        /\ crossed' = (crossed \/ others)
        /\ UNCHANGED <<conns, answers, calls, off, doubled, overwritten, late, threw>>

\* The server.
ServerAnswers(s) ==
    /\ wire[s] # <<>> /\ wire' = [wire EXCEPT ![s] = Tail(@)]
    /\ answers' = [answers EXCEPT ![s] = Append(@, Head(wire[s]))]
    /\ UNCHANGED <<conns, pending, result, asked, calls, history>>

\* Mutant: n lines settle the commands sent last.
Pop(n) ==
    LET left == Len(pending) - n
    IN  [settled |-> {pending[i] : i \in (left + 1)..Len(pending)},
         left |-> SubSeq(pending, 1, left)]

\* pendingCommands.shift(), a line after the other: the commands at the head
\* of the queue are settled.
Shift(n) == [settled |-> {pending[i] : i \in 1..n},
             left |-> SubSeq(pending, n + 1, Len(pending))]

\* handleMessage
Message(s) ==
    LET id == Head(answers[s])
    IN  /\ within = "none" /\ phase[s] = "open" /\ answers[s] # <<>>
        /\ answers' = [answers EXCEPT ![s] = Tail(@)]
        /\ \E count \in Lines(asked[id].kind) :
              LET n == IF count < Len(pending) THEN count ELSE Len(pending)
              IN  /\ result' = [i \in DOMAIN result |->
                         IF i \in Shift(n).settled /\ result[i] = Pending THEN id ELSE result[i]]
                  /\ pending' = Shift(n).left
        /\ UNCHANGED <<conns, wire, asked, calls, history>>

JsNext ==
    \/ \E s \in Slots :
          Connect(s) \/ Fire(s) \/ Open(s) \/ ConnectTimeout(s) \/ CloseEvent(s)
          \/ ServerAnswers(s) \/ Message(s)
    \/ Disconnect \/ ScheduleReconnect \/ SetTimer \/ ListenerThrows
    \/ \E kind \in {"line", "bulk"} : Send(kind)

\* Listeners return, timers fire, the event of a socket that is being closed
\* comes, the server answers and messages arrive; that a connection is made,
\* nobody promises.
JsFairness ==
    /\ WF_jsVars(Returns)
    /\ WF_jsVars(\E s \in Slots : Fire(s))
    /\ \A s \in Slots :
          /\ WF_jsVars(ConnectTimeout(s)) /\ WF_jsVars(ServerAnswers(s)) /\ WF_jsVars(Message(s))
          /\ WF_jsVars(phase[s] = "closing" /\ CloseEvent(s))

JsSpec == JsInit /\ [][JsNext]_jsVars /\ JsFairness
-----------------------------------------------------------------------------
\* A command is settled by its own answer.  The exceptions: behind a command
\* with several lines, of which each settles a command; and when two sockets
\* were in use at a time.  That is so when disconnect() and connect() were
\* quicker than the close event of the old socket, whose commands wait in the
\* one queue, or which ends the use of the new one; and when a listener of
\* "disconnect" connected, and the timer of the reconnect connected again.
PromisesMatch ==
    \A i \in DOMAIN result :
        result[i] \notin {Pending, Rejected, i} =>
            \/ \E k \in 1..(i - 1) : asked[k].kind = "bulk"
            \/ crossed

\* A client that says it is connected has an open socket.  The exceptions: after
\* the first disconnect(), the close event of the socket left behind makes the
\* client forget the one it has connected since; and a listener of "disconnect"
\* has connected, but scheduleReconnect took its state away, so that the timer
\* connected again and the first socket opened while the second one connects.
ConnectedIsUsable ==
    state = "connected" /\ reconnect /\ ~overwritten => ws # 0 /\ phase[ws] = "open"

\* After disconnect() the client stays disconnected until connect() is called.
\* The exceptions: disconnect() clears one timer, and there are two when the
\* application called connect() while one was running and lost that connection;
\* a listener of "reconnecting" called it, before the timer was set; and it
\* closes one socket, when there were two.
StaysDisconnected ==
    off = "first" /\ ~doubled /\ ~late /\ ~crossed =>
        state = "disconnected" /\ \A s \in Slots : phase[s] \in {"none", "closing"}

\* The promise of every send() is settled, if no send() threw: the answers, or
\* the close event, reach it.
SendsSettle ==
    \A i \in 1..MaxSends :
        (i \in DOMAIN result) ~> (thrown \/ (i \in DOMAIN result /\ result[i] # Pending))

\* The client does not stay connecting or reconnecting for ever.  The
\* exceptions: without a WebSocket, connect() rejects and the state stays
\* "connecting"; and a listener of "reconnecting" threw, so that no timer was set.
GivesUpOrConnects ==
    []<>(state \in {"connected", "disconnected"} \/ ~available \/ threw)
=============================================================================
