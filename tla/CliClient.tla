------------------------------ MODULE CliClient ------------------------------
(***************************************************************************)
(* The command line client (crates/ussl-cli/src/main.rs) and the           *)
(* connections to a server it uses one after the other.                    *)
(*                                                                         *)
(* execute_command writes a line, makes a new BufReader, and reads as many *)
(* lines as the first one calls for.  The reader takes from the socket     *)
(* what is there, and what it has taken and nobody read goes with it.  The *)
(* connection times out after five seconds without a byte; any error makes *)
(* the main loop connect anew.  The answers have the lines response.rs     *)
(* gives them.                                                             *)
(***************************************************************************)
EXTENDS Naturals, Sequences, FiniteSets

CONSTANTS
    Kinds,            \* the commands used, a subset of AllKinds
    Keys,             \* the number of keys KEYS answers with
    MaxCommands,      \* bound on the number of commands
    MaxConnections,   \* bound on the number of connections
    MaxDeltas         \* bound on the number of deltas

AllKinds == {"set", "get", "keys", "sub"}

ASSUME CliKindAssumption == Kinds \subseteq AllKinds
ASSUME CliBoundAssumption ==
    /\ Keys \in Nat /\ MaxCommands \in Nat /\ MaxDeltas \in Nat
    /\ MaxConnections \in Nat \ {0}

VARIABLES
    conn,         \* the connection in use, a number
    doing,        \* the command being executed; 0, none
    need,         \* how many of its lines are still to be read
    reader,       \* the lines in its BufReader
    issued,       \* the commands so far, a sequence of kinds
    requests,     \* connection -> commands the server has not read
    inbox,        \* connection -> lines in the socket
    gone,         \* the connections the server has closed
    deltas,       \* number of deltas so far
    subscribed,   \* the connections of which the server has executed a SUB
    shown,        \* the last command shown, its connection, and what was taken for its answer
    executed,     \* history: the commands in the order the server executed them
    failed,       \* history: the commands that ended without their answer
    listed        \* history: connections on which keys were listed

cliVars == <<conn, doing, need, reader, issued, requests, inbox, gone, deltas, subscribed,
          shown, executed, failed, listed>>
-----------------------------------------------------------------------------
Connections == 1..MaxConnections

\* A line from the server: the command it answers (0: a delta), and how many
\* lines execute_command reads behind it.
Line(of, behind) == [of |-> of, behind |-> behind]

\* Response::encode_into: a bulk is two lines, and so is every key.
Answer(id) ==
    CASE issued[id] \in {"set", "sub"} -> <<Line(id, 0)>>
      [] issued[id] = "get" -> <<Line(id, 1), Line(id, 0)>>
      [] issued[id] = "keys" -> <<Line(id, Keys)>> \o
           [i \in 1..2 * Keys |-> Line(id, IF i % 2 = 1 THEN 1 ELSE 0)]

CliInit ==
    /\ conn = 1 /\ doing = 0 /\ need = 0 /\ reader = <<>> /\ issued = <<>>
    /\ requests = [n \in Connections |-> <<>>] /\ inbox = [n \in Connections |-> <<>>]
    /\ gone = {} /\ deltas = 0
    /\ subscribed = {} /\ shown = [id |-> 0, on |-> 0, of |-> 0]
    /\ executed = <<>> /\ failed = {} /\ listed = {}

(***************************************************************************)
(* The client.                                                             *)
(***************************************************************************)
\* After an error: a new connection, and the next prompt.
\* Mutant: the old connection is kept.
FailAndStay(id) ==
    /\ failed' = failed \cup {id}
    /\ UNCHANGED <<conn, requests>>
    /\ doing' = 0 /\ need' = 0 /\ reader' = <<>>

\* Mutant: the command is sent again.
FailAndRetry(id) ==
    /\ conn < MaxConnections
    /\ failed' = failed \cup {id}
    /\ conn' = conn + 1
    /\ requests' = [requests EXCEPT ![conn + 1] = Append(@, id)]
    /\ doing' = 0 /\ need' = 0 /\ reader' = <<>>

Fail(id) ==
    /\ conn < MaxConnections
    /\ failed' = failed \cup {id}
    /\ conn' = conn + 1
    /\ UNCHANGED requests
    /\ doing' = 0 /\ need' = 0 /\ reader' = <<>>

\* Writing to a connection that is gone may fail.
Execute(kind) ==
    LET id == Len(issued) + 1
    IN  /\ doing = 0 /\ Len(issued) < MaxCommands
        /\ issued' = Append(issued, kind)
        /\ \/ /\ doing' = id /\ need' = 1 /\ reader' = <<>>
              /\ requests' = [requests EXCEPT ![conn] = Append(@, id)]
              /\ UNCHANGED <<conn, failed>>
           \/ conn \in gone /\ Fail(id)
        /\ UNCHANGED <<inbox, gone, deltas, subscribed, shown, executed, listed>>

Fill(n) ==
    /\ doing # 0 /\ reader = <<>>
    /\ reader' = SubSeq(inbox[conn], 1, n)
    /\ inbox' = [inbox EXCEPT ![conn] = SubSeq(@, n + 1, Len(@))]
    /\ UNCHANGED <<conn, doing, need, issued, requests, gone, deltas,
                   subscribed, shown, executed, failed, listed>>

Shows(of) == [id |-> doing, on |-> conn, of |-> of]

\* The first line of an answer says how many more there are.
ReadLine ==
    LET line == Head(reader)
        first == shown.id # doing
        left == IF first THEN line.behind ELSE need - 1
    IN  /\ doing # 0 /\ reader # <<>>
        /\ shown' = IF first THEN Shows(line.of) ELSE shown
        /\ need' = left
        /\ doing' = IF left = 0 THEN 0 ELSE doing
        /\ reader' = IF left = 0 THEN <<>> ELSE Tail(reader)
        /\ listed' = IF line.of # 0 /\ issued[line.of] = "keys"
                     THEN listed \cup {conn} ELSE listed
        /\ failed' = IF first /\ line.of # doing THEN failed \cup {doing} ELSE failed
        /\ UNCHANGED <<conn, issued, requests, inbox, gone, deltas, subscribed, executed>>

\* The end of the stream reads as empty lines, which are shown; a reset and
\* the read timeout are errors.
EndOfStream ==
    /\ doing # 0 /\ reader = <<>> /\ inbox[conn] = <<>> /\ conn \in gone
    /\ \/ /\ shown' = IF shown.id # doing THEN Shows(0) ELSE shown
          /\ doing' = 0 /\ need' = 0
          /\ UNCHANGED <<conn, requests, failed, reader>>
       \/ Fail(doing) /\ UNCHANGED shown
    /\ UNCHANGED <<issued, inbox, gone, deltas, subscribed, executed, listed>>

ReadTimeout ==
    /\ doing # 0 /\ reader = <<>> /\ inbox[conn] = <<>> /\ conn \notin gone
    /\ Fail(doing)
    /\ UNCHANGED <<issued, inbox, gone, deltas, subscribed, shown, executed, listed>>

(***************************************************************************)
(* The server: a task per connection, so what was sent on an old one may   *)
(* be read after what was sent on a new one.                               *)
(***************************************************************************)
ServerExecutes(n) ==
    /\ n \notin gone /\ requests[n] # <<>>
    /\ requests' = [requests EXCEPT ![n] = Tail(@)]
    /\ inbox' = [inbox EXCEPT ![n] = @ \o Answer(Head(requests[n]))]
    /\ executed' = Append(executed, Head(requests[n]))
    /\ subscribed' = IF issued[Head(requests[n])] = "sub"
                     THEN subscribed \cup {n} ELSE subscribed
    /\ UNCHANGED <<conn, doing, need, reader, issued, gone, deltas, shown, failed, listed>>

Publish(n) ==
    /\ n \in subscribed \ gone /\ deltas < MaxDeltas
    /\ deltas' = deltas + 1
    /\ inbox' = [inbox EXCEPT ![n] = Append(@, Line(0, 0))]
    /\ UNCHANGED <<conn, doing, need, reader, issued, requests, gone, subscribed,
                   shown, executed, failed, listed>>

Close(n) ==
    /\ n \notin gone /\ n <= conn
    /\ gone' = gone \cup {n}
    /\ UNCHANGED <<conn, doing, need, reader, issued, requests, inbox, deltas,
                   subscribed, shown, executed, failed, listed>>

CliNext ==
    \/ \E kind \in Kinds : Execute(kind)
    \/ \E n \in 1..Len(inbox[conn]) : Fill(n)
    \/ ReadLine \/ EndOfStream \/ ReadTimeout
    \/ \E n \in Connections : ServerExecutes(n) \/ Publish(n) \/ Close(n)

CliSpec == CliInit /\ [][CliNext]_cliVars
-----------------------------------------------------------------------------
\* What the client shows for a command is the answer to it, or nothing, though
\* answers come late and connections break: a late answer is left behind with
\* its connection.  The exceptions are connections with a SUB, where a delta
\* may come first, and with a list of keys, of which half the lines are left.
AnswersMatch ==
    shown.of # shown.id /\ shown.of # 0 => shown.on \in subscribed \cup listed

\* The server executes a command at most once, and the commands in the order
\* they were issued, but for those that ended without their answer (an error,
\* or a delta shown in its place), which it may execute at any time later, or
\* never: a command given again after a timeout may be executed twice, and the
\* first time last.
OrderKept ==
    \A i, j \in DOMAIN executed :
        i < j => \/ executed[i] < executed[j]
                 \/ executed[i] # executed[j] /\ executed[j] \in failed
=============================================================================
