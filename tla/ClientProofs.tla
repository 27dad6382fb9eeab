----------------------------- MODULE ClientProofs -----------------------------
(***************************************************************************)
(* The two clients, for any number of sockets, connections, commands and   *)
(* keys: whose answer a command gets, in which order the server executes   *)
(* commands, and in which states the JavaScript client may be.             *)
(***************************************************************************)
EXTENDS CliClient, JsClient, TLAPS

-----------------------------------------------------------------------------
(***************************************************************************)
(* JsClient.                                                               *)
(***************************************************************************)
States == {"disconnected", "connecting", "connected", "reconnecting"}
Phases == {"none", "connecting", "open", "closing"}
Asked == [kind : {"line", "bulk"}, socket : Slots]

JsTypeOK ==
    /\ state \in States /\ ws \in 0..Sockets /\ reconnect \in BOOLEAN
    /\ within \in {"none", "disconnect", "reconnecting"}
    /\ timers \in Nat /\ held \in BOOLEAN
    /\ phase \in [Slots -> Phases]
    /\ asked \in Seq(Asked) /\ pending \in Seq(DOMAIN asked)
    /\ result \in Seq(Nat) /\ Len(result) = Len(asked)
    /\ wire \in [Slots -> Seq(DOMAIN asked)] /\ answers \in [Slots -> Seq(DOMAIN asked)]
    /\ off \in {"never", "first", "again"} /\ doubled \in BOOLEAN /\ crossed \in BOOLEAN
    /\ overwritten \in BOOLEAN /\ late \in BOOLEAN

\* The socket in use is the only one that connects or is open, and a connected
\* client has an open one.
OneSocket ==
    /\ \A s \in Slots : phase[s] \in {"connecting", "open"} => s = ws
    /\ \A s \in Slots : phase[s] = "connecting" => state # "connected"
    /\ ~overwritten /\ state \in {"disconnected", "reconnecting"} => ws = 0
    /\ state = "connected" => ws # 0 /\ phase[ws] = "open"

\* Until the first disconnect() and unless scheduleReconnect overwrote a state,
\* nothing can come between; later, as long as nothing has.
SocketInv ==
    /\ off = "never" <=> reconnect
    /\ reconnect /\ ~overwritten => ~crossed /\ \A s \in Slots : phase[s] # "none" => s = ws
    /\ ~crossed => OneSocket

\* There is one timer, or it is known that there were two.
TimerInv ==
    /\ held => timers > 0
    /\ ~doubled => timers \in {0, 1} /\ (timers = 1 => held)

FirstInv ==
    off = "first" /\ ~doubled /\ ~late /\ ~crossed =>
        /\ timers = 0 /\ state = "disconnected" /\ within # "reconnecting"
        /\ \A s \in Slots : phase[s] \in {"none", "closing"}

\* No command with two lines came before.
Plain(i) == \A k \in 1..(i - 1) : asked[k].kind # "bulk"

Increasing(q) == \A i, j \in DOMAIN q : i < j => q[i] < q[j]

\* How many commands the answer of command id settles.
Takes(id, n) == (asked[id].kind # "bulk" => n <= 1) /\ (pending # <<>> => n >= 1)

\* The commands on their way to the server of socket s and back.
Stream(s) == ToSet(answers[s]) \cup ToSet(wire[s])

\* Commands and answers keep their order, and what waits for the open socket is
\* what is on its way there: behind a bulk, nothing is known.
QueueInv ==
    /\ Increasing(pending)
    /\ \A s \in Slots :
          /\ Increasing(answers[s]) /\ Increasing(wire[s])
          /\ \A i \in ToSet(answers[s]), j \in ToSet(wire[s]) : i < j
          /\ phase[s] \in {"none", "connecting"} => answers[s] = <<>> /\ wire[s] = <<>>
    /\ ~crossed =>
          /\ \A i \in ToSet(pending) : phase[asked[i].socket] \in {"open", "closing"}
          /\ \A s \in Slots : phase[s] = "open" =>
                /\ Stream(s) # {} => \A i \in ToSet(pending) : asked[i].socket = s
                /\ \A i \in DOMAIN asked : Plain(i) =>
                      (i \in Stream(s) <=> i \in ToSet(pending) /\ asked[i].socket = s)

JsInv == JsTypeOK /\ SocketInv /\ TimerInv /\ FirstInv /\ QueueInv /\ PromisesMatch
-----------------------------------------------------------------------------
\* Sequences.
LEMMA AppendIs ==
    ASSUME NEW S, NEW s \in Seq(S), NEW e \in S
    PROVE  /\ Append(s, e) \in Seq(S) /\ Len(Append(s, e)) = Len(s) + 1 /\ Len(s) \in Nat
           /\ DOMAIN Append(s, e) = 1..(Len(s) + 1) /\ DOMAIN s = 1..Len(s)
           /\ \A i \in 1..Len(s) : Append(s, e)[i] = s[i]
           /\ Append(s, e)[Len(s) + 1] = e
  OBVIOUS

LEMMA AppendSet ==
    ASSUME NEW S, NEW s \in Seq(S), NEW e \in S
    PROVE  ToSet(Append(s, e)) = ToSet(s) \cup {e}
<1> DEFINE more == Append(s, e)
<1>1. /\ Len(s) \in Nat /\ DOMAIN more = 1..(Len(s) + 1) /\ DOMAIN s = 1..Len(s)
      /\ \A i \in 1..Len(s) : more[i] = s[i]
      /\ more[Len(s) + 1] = e
  BY AppendIs
<1> HIDE DEF more
<1>2. ToSet(more) = ToSet(s) \cup {e}
  BY <1>1 DEF ToSet
<1> QED BY <1>2 DEF more

\* What is appended is the greatest.
LEMMA AppendIncreasing ==
    ASSUME NEW s \in Seq(Nat), NEW e \in Nat, Increasing(s), \A i \in ToSet(s) : i < e
    PROVE  Increasing(Append(s, e))
<1> DEFINE more == Append(s, e)
<1>1. /\ Len(s) \in Nat /\ DOMAIN more = 1..(Len(s) + 1) /\ DOMAIN s = 1..Len(s)
      /\ \A i \in 1..Len(s) : more[i] = s[i]
      /\ more[Len(s) + 1] = e
  BY AppendIs
<1> HIDE DEF more
<1>2. \A i \in 1..Len(s) : s[i] < e
  BY <1>1 DEF ToSet
<1>3. Increasing(more)
  BY <1>1, <1>2 DEF Increasing
<1> QED BY <1>3 DEF more

LEMMA TailIs ==
    ASSUME NEW S, NEW s \in Seq(S), s # <<>>
    PROVE  /\ Tail(s) \in Seq(S) /\ Head(s) \in S /\ Head(s) = s[1] /\ Len(s) \in Nat \ {0}
           /\ DOMAIN Tail(s) = 1..(Len(s) - 1) /\ DOMAIN s = 1..Len(s)
           /\ \A i \in 1..(Len(s) - 1) : Tail(s)[i] = s[i + 1]
  OBVIOUS

LEMMA TailSet ==
    ASSUME NEW S, NEW s \in Seq(S), s # <<>>
    PROVE  ToSet(s) = {Head(s)} \cup ToSet(Tail(s))
<1> DEFINE rest == Tail(s)
<1>1. /\ Head(s) = s[1] /\ Len(s) \in Nat \ {0}
      /\ DOMAIN rest = 1..(Len(s) - 1) /\ DOMAIN s = 1..Len(s)
      /\ \A i \in 1..(Len(s) - 1) : rest[i] = s[i + 1]
  BY TailIs
<1> HIDE DEF rest
<1>2. ASSUME NEW x \in ToSet(s) PROVE x \in {Head(s)} \cup ToSet(rest)
  <2>1. PICK i \in 1..Len(s) : x = s[i]
    BY <1>1 DEF ToSet
  <2>2. CASE i = 1
    BY <1>1, <2>1, <2>2
  <2>3. CASE i # 1
    <3>1. i - 1 \in 1..(Len(s) - 1) /\ rest[i - 1] = x
      BY <1>1, <2>1, <2>3
    <3> QED BY <1>1, <3>1 DEF ToSet
  <2> QED BY <2>2, <2>3
<1>3. {Head(s)} \cup ToSet(rest) \subseteq ToSet(s)
  BY <1>1 DEF ToSet
<1>4. ToSet(s) = {Head(s)} \cup ToSet(rest)
  BY <1>2, <1>3
<1> QED BY <1>4 DEF rest

\* The head of an increasing sequence is the least.
LEMMA TailIncreasing ==
    ASSUME NEW s \in Seq(Nat), s # <<>>, Increasing(s)
    PROVE  Increasing(Tail(s)) /\ \A i \in ToSet(Tail(s)) : Head(s) < i
<1> DEFINE rest == Tail(s)
<1>1. /\ Head(s) = s[1] /\ Len(s) \in Nat \ {0}
      /\ DOMAIN rest = 1..(Len(s) - 1) /\ DOMAIN s = 1..Len(s)
      /\ \A i \in 1..(Len(s) - 1) : rest[i] = s[i + 1]
  BY TailIs
<1> HIDE DEF rest
<1>2. ASSUME NEW i \in DOMAIN rest, NEW j \in DOMAIN rest, i < j PROVE rest[i] < rest[j]
  <2>1. i + 1 \in DOMAIN s /\ j + 1 \in DOMAIN s /\ i + 1 < j + 1
    BY <1>1, <1>2
  <2>2. s[i + 1] < s[j + 1]
    BY <2>1 DEF Increasing
  <2> QED BY <1>1, <1>2, <2>2
<1>3. \A i \in 1..(Len(s) - 1) : s[1] < s[i + 1]
  BY <1>1 DEF Increasing
<1>4. \A i \in ToSet(rest) : Head(s) < i
  BY <1>1, <1>3 DEF ToSet
<1>5. Increasing(rest)
  BY <1>2 DEF Increasing
<1> QED BY <1>4, <1>5 DEF rest

LEMMA SubSeqIs ==
    ASSUME NEW S, NEW s \in Seq(S), NEW n \in 0..Len(s)
    PROVE  LET rest == SubSeq(s, n + 1, Len(s))
           IN  /\ rest \in Seq(S) /\ Len(s) \in Nat /\ Len(rest) = Len(s) - n
               /\ DOMAIN rest = 1..(Len(s) - n) /\ DOMAIN s = 1..Len(s)
               /\ \A i \in 1..(Len(s) - n) : rest[i] = s[n + i]
  OBVIOUS

-----------------------------------------------------------------------------
\* The steps keep the types.
LEMMA OpensTyped ==
    ASSUME JsTypeOK, NEW s \in Slots, Opens(s)
    PROVE  /\ state' \in {"connecting", "disconnected"} /\ ws' \in 0..Sockets
           /\ reconnect' = reconnect /\ within' = within
           /\ phase' \in [Slots -> Phases] /\ crossed' \in BOOLEAN
<1>1. reconnect' = reconnect /\ within' = within
  BY DEF Opens
<1>2. CASE NewSocket(s)
  <2>1. crossed' \in BOOLEAN
    BY <1>2, Zenon DEF NewSocket
  <2> QED BY <1>1, <1>2, <2>1, JsAssumption DEF JsTypeOK, NewSocket, Slots, Phases
<1>3. CASE NoSocket
  <2>1. state' \in {"connecting", "disconnected"}
    BY <1>3, Zenon DEF NoSocket
  <2> QED BY <1>1, <1>3, <2>1 DEF JsTypeOK, NoSocket
<1> QED BY <1>2, <1>3 DEF Opens

LEMMA ClosingTyped ==
    ASSUME JsTypeOK, NEW s \in 0..Sockets, Closing(s)
    PROVE  /\ phase' \in [Slots -> Phases]
           /\ \A u \in Slots : phase'[u] = IF u = s THEN "closing" ELSE phase[u]
<1>1. phase \in [Slots -> Phases] /\ 0 \notin Slots /\ "closing" \in Phases
  BY DEF JsTypeOK, Slots, Phases
<1>2. CASE s = 0
  BY <1>1, <1>2 DEF Closing
<1>3. CASE s # 0
  <2>1. phase' = [phase EXCEPT ![s] = "closing"]
    BY <1>3 DEF Closing
  <2> QED BY <1>1, <2>1
<1> QED BY <1>2, <1>3

\* A line of the queue is taken off its head.
LEMMA ShiftIs ==
    ASSUME JsTypeOK, NEW n \in 0..Len(pending)
    PROVE  /\ Shift(n).left \in Seq(DOMAIN asked)
           /\ Shift(n).settled \subseteq ToSet(pending)
           /\ ToSet(pending) = Shift(n).settled \cup ToSet(Shift(n).left)
           /\ Increasing(pending) =>
                 /\ Increasing(Shift(n).left)
                 /\ \A i \in Shift(n).settled, j \in ToSet(Shift(n).left) : i < j
<1> DEFINE rest == SubSeq(pending, n + 1, Len(pending))
           first == {pending[i] : i \in 1..n}
<1>1. Shift(n).left = rest /\ Shift(n).settled = first
  BY DEF Shift
<1>2. pending \in Seq(DOMAIN asked) /\ DOMAIN asked \subseteq Nat
  BY DEF JsTypeOK
<1>3. /\ rest \in Seq(DOMAIN asked) /\ Len(pending) \in Nat
      /\ DOMAIN rest = 1..(Len(pending) - n) /\ DOMAIN pending = 1..Len(pending)
      /\ \A i \in 1..(Len(pending) - n) : rest[i] = pending[n + i]
  BY <1>2, SubSeqIs
<1> HIDE DEF rest
<1>4. n \in Nat /\ n <= Len(pending)
  BY <1>3
<1>5. first \subseteq ToSet(pending)
  BY <1>3, <1>4 DEF ToSet
<1>6. ToSet(rest) \subseteq ToSet(pending)
  <2>1. ASSUME NEW i \in DOMAIN rest PROVE rest[i] \in ToSet(pending)
    <3>1. n + i \in DOMAIN pending
      BY <1>3, <1>4
    <3> QED BY <1>3, <3>1 DEF ToSet
  <2> QED BY <2>1 DEF ToSet
<1>7. ToSet(pending) \subseteq first \cup ToSet(rest)
  <2>1. ASSUME NEW i \in DOMAIN pending PROVE pending[i] \in first \cup ToSet(rest)
    <3>1. CASE i <= n
      BY <1>3, <1>4, <3>1
    <3>2. CASE i > n
      <4>1. i - n \in 1..(Len(pending) - n) /\ n + (i - n) = i
        BY <1>3, <1>4, <3>2
      <4>2. rest[i - n] = pending[i]
        BY <1>3, <4>1
      <4> QED BY <1>3, <4>1, <4>2 DEF ToSet
    <3> QED BY <1>3, <1>4, <3>1, <3>2
  <2> QED BY <2>1 DEF ToSet
<1>8. ASSUME Increasing(pending)
      PROVE  Increasing(rest) /\ \A i \in first, j \in ToSet(rest) : i < j
  <2>1. ASSUME NEW i \in DOMAIN rest, NEW j \in DOMAIN rest, i < j PROVE rest[i] < rest[j]
    <3>1. n + i \in DOMAIN pending /\ n + j \in DOMAIN pending /\ n + i < n + j
      BY <1>3, <1>4, <2>1
    <3>2. pending[n + i] < pending[n + j]
      BY <1>8, <3>1 DEF Increasing
    <3> QED BY <1>3, <2>1, <3>2
  <2>2. ASSUME NEW i \in 1..n, NEW j \in DOMAIN rest PROVE pending[i] < rest[j]
    <3>1. i \in DOMAIN pending /\ n + j \in DOMAIN pending /\ i < n + j
      BY <1>3, <1>4
    <3>2. pending[i] < pending[n + j]
      BY <1>8, <3>1 DEF Increasing
    <3> QED BY <1>3, <3>2
  <2>3. Increasing(rest)
    BY <2>1 DEF Increasing
  <2> QED BY <2>2, <2>3 DEF ToSet
<1> QED BY <1>1, <1>3, <1>5, <1>6, <1>7, <1>8

LEMMA RejectTyped ==
    ASSUME JsTypeOK, RejectPending
    PROVE  pending' = <<>> /\ result' \in Seq(Nat) /\ Len(result') = Len(result)
<1>1. /\ DOMAIN result = 1..Len(result) /\ Len(result) \in Nat
      /\ \A i \in 1..Len(result) : result[i] \in Nat
  BY DEF JsTypeOK
<1>2. Rejected \in Nat
  BY JsAssumption DEF Rejected
<1>3. \A i \in 1..Len(result) :
         (IF Contains(pending, i) /\ result[i] = Pending THEN Rejected ELSE result[i]) \in Nat
  BY <1>1, <1>2
<1> QED BY <1>1, <1>3 DEF RejectPending

LEMMA MessageTyped ==
    ASSUME JsTypeOK, NEW s \in Slots, Message(s)
    PROVE  LET id == Head(answers[s])
           IN  /\ id \in DOMAIN asked
               /\ \E n \in 0..Len(pending) :
                     /\ Takes(id, n)
                     /\ pending' = Shift(n).left
                     /\ result' = [i \in DOMAIN result |->
                           IF i \in Shift(n).settled /\ result[i] = Pending THEN id ELSE result[i]]
<1> DEFINE id == Head(answers[s])
           Taken(count) == IF count < Len(pending) THEN count ELSE Len(pending)
<1>1. answers[s] \in Seq(DOMAIN asked) /\ answers[s] # <<>>
  BY DEF JsTypeOK, Message
<1>2. id \in DOMAIN asked
  BY <1>1, TailIs
<1>3. PICK count \in Lines(asked[id].kind) :
         /\ result' = [i \in DOMAIN result |->
               IF i \in Shift(Taken(count)).settled /\ result[i] = Pending THEN id ELSE result[i]]
         /\ pending' = Shift(Taken(count)).left
  BY DEF Message
<1>4. count \in Nat \ {0} /\ (asked[id].kind # "bulk" => count = 1)
  BY <1>3, JsAssumption DEF Lines
<1>5. Len(pending) \in Nat /\ (pending # <<>> => Len(pending) >= 1)
  BY DEF JsTypeOK
<1> HIDE DEF id
<1>6. Taken(count) \in 0..Len(pending) /\ Takes(id, Taken(count))
  BY <1>4, <1>5 DEF Takes
<1> HIDE DEF Taken
<1>7. \E n \in 0..Len(pending) :
         /\ Takes(id, n)
         /\ pending' = Shift(n).left
         /\ result' = [i \in DOMAIN result |->
               IF i \in Shift(n).settled /\ result[i] = Pending THEN id ELSE result[i]]
  BY <1>3, <1>6
<1> QED BY <1>2, <1>7 DEF id

\* There are two timers only when it is noted.
LEMMA TimerKeeps ==
    JsTypeOK /\ TimerInv /\ [JsNext]_jsVars =>
        timers' \in Nat /\ held' \in BOOLEAN /\ doubled' \in BOOLEAN /\ TimerInv'
<1> SUFFICES ASSUME JsTypeOK, TimerInv, [JsNext]_jsVars
             PROVE  timers' \in Nat /\ held' \in BOOLEAN /\ doubled' \in BOOLEAN /\ TimerInv'
  OBVIOUS
<1>1. timers \in Nat /\ held \in BOOLEAN /\ doubled \in BOOLEAN
  BY DEF JsTypeOK
<1>2. ASSUME NEW s \in Slots, Fire(s)
      PROVE  timers' \in Nat /\ held' \in BOOLEAN /\ doubled' \in BOOLEAN /\ TimerInv'
  <2>1. doubled' = doubled /\ timers > 0 /\ timers' = timers - 1
    BY <1>2 DEF Fire
  <2>2. CASE held /\ held' = FALSE
    <3>1. timers' \in Nat /\ (timers \in {0, 1} => timers' = 0) /\ 0 \in {0, 1} /\ 0 # 1
      BY <1>1, <2>1
    <3>2. ~doubled' => timers' \in {0, 1} /\ timers' # 1
      BY <2>1, <3>1, Zenon DEF TimerInv
    <3> QED BY <1>1, <2>1, <2>2, <3>1, <3>2, Zenon DEF TimerInv
  <2>3. CASE timers > (IF held THEN 1 ELSE 0) /\ held' = held
    <3>1. CASE held
      BY <1>1, <2>1, <2>3, <3>1 DEF TimerInv
    <3>2. CASE ~held
      BY <1>1, <2>1, <2>3, <3>2 DEF TimerInv
    <3> QED BY <3>1, <3>2
  <2> QED BY <1>2, <2>2, <2>3 DEF Fire
<1>3. CASE SetTimer
  <2>1. timers' = timers + 1 /\ held' = TRUE /\ doubled' = (doubled \/ timers > 0)
    BY <1>3 DEF SetTimer
  <2>2. doubled' \in BOOLEAN
    BY <2>1, Zenon
  <2>3. ~doubled' => ~(timers > 0)
    BY <2>1, Zenon
  <2> QED BY <1>1, <2>1, <2>2, <2>3 DEF TimerInv
<1>4. CASE Disconnect
  <2>1. ClearTimer /\ doubled' = doubled
    BY <1>4 DEF Disconnect
  <2>2. CASE held
    <3>1. timers > 0
      BY <2>2, Zenon DEF TimerInv
    <3>2. timers' = timers - 1 /\ held' = FALSE
      BY <2>1, <2>2 DEF ClearTimer
    <3>3. timers' \in Nat /\ (timers \in {0, 1} => timers' = 0) /\ 0 \in {0, 1} /\ 0 # 1
      BY <1>1, <3>1, <3>2
    <3>4. ~doubled' => timers' \in {0, 1} /\ timers' # 1
      BY <2>1, <3>3, Zenon DEF TimerInv
    <3> QED BY <1>1, <2>1, <3>2, <3>3, <3>4, Zenon DEF TimerInv
  <2>3. CASE ~held
    BY <1>1, <2>1, <2>3 DEF ClearTimer, TimerInv
  <2> QED BY <2>2, <2>3
<1>5. CASE UNCHANGED <<timers, held, doubled>>
  BY <1>1, <1>5 DEF TimerInv
<1> QED
  BY <1>2, <1>3, <1>4, <1>5
  DEF JsNext, Connect, Open, ConnectTimeout, CloseEvent, ScheduleReconnect, ListenerThrows,
      ServerAnswers, Message, Send, jsVars, conns, history

LEMMA JsTypeKeeps == JsTypeOK /\ TimerInv /\ [JsNext]_jsVars => JsTypeOK'
<1> SUFFICES ASSUME JsTypeOK, TimerInv, [JsNext]_jsVars PROVE JsTypeOK'
  OBVIOUS
<1> USE DEF States
<1>0. timers' \in Nat /\ held' \in BOOLEAN /\ doubled' \in BOOLEAN
  BY TimerKeeps
<1>1. ASSUME NEW s \in Slots, Connect(s) PROVE JsTypeOK'
  BY <1>1, OpensTyped DEF Connect, JsTypeOK, queue
<1>2. ASSUME NEW s \in Slots, Fire(s) PROVE JsTypeOK'
  <2>2. /\ state' \in States /\ ws' \in 0..Sockets /\ reconnect' \in BOOLEAN
        /\ phase' \in [Slots -> Phases] /\ within' = within /\ crossed' \in BOOLEAN
    BY <1>2, OpensTyped DEF Fire, JsTypeOK
  <2> QED BY <1>0, <1>2, <2>2 DEF Fire, JsTypeOK, queue
<1>3. ASSUME NEW s \in Slots, Open(s) PROVE JsTypeOK'
  BY <1>3 DEF Open, JsTypeOK, queue, history, Phases
<1>4. ASSUME NEW s \in Slots, ConnectTimeout(s) PROVE JsTypeOK'
  <2>1. phase' \in [Slots -> Phases]
    BY <1>4, ClosingTyped DEF ConnectTimeout, TimeoutCloses, JsTypeOK
  <2> QED BY <1>4, <2>1 DEF ConnectTimeout, JsTypeOK, queue, history
<1>5. ASSUME NEW s \in Slots, CloseEvent(s) PROVE JsTypeOK'
  <2>1. pending' = <<>> /\ result' \in Seq(Nat) /\ Len(result') = Len(result)
    BY <1>5, RejectTyped DEF CloseEvent, HandleDisconnect
  <2>2. /\ state' \in States /\ ws' = 0 /\ 0 \in 0..Sockets /\ reconnect' \in BOOLEAN
        /\ phase' \in [Slots -> Phases] /\ within' = "disconnect"
    BY <1>5, JsAssumption DEF CloseEvent, HandleDisconnect, JsTypeOK, Phases
  <2>4. <<>> \in Seq(DOMAIN asked) /\ UNCHANGED <<asked, off, overwritten, late>>
    BY <1>5 DEF CloseEvent
  <2>5. /\ wire' \in [Slots -> Seq(DOMAIN asked)] /\ answers' \in [Slots -> Seq(DOMAIN asked)]
    BY <1>5, <2>4 DEF CloseEvent, JsTypeOK
  <2>6. crossed' \in BOOLEAN
    BY <1>5, Zenon DEF CloseEvent
  <2> QED BY <1>0, <2>1, <2>2, <2>4, <2>5, <2>6 DEF JsTypeOK
<1>6. ASSUME NEW s \in Slots, ServerAnswers(s) PROVE JsTypeOK'
  <2>1. /\ wire[s] \in Seq(DOMAIN asked) /\ answers[s] \in Seq(DOMAIN asked)
        /\ wire[s] # <<>>
    BY <1>6 DEF ServerAnswers, JsTypeOK
  <2>2. Tail(wire[s]) \in Seq(DOMAIN asked) /\ Head(wire[s]) \in DOMAIN asked
    BY <2>1, TailIs
  <2>3. Append(answers[s], Head(wire[s])) \in Seq(DOMAIN asked)
    BY <2>1, <2>2
  <2>4. wire' \in [Slots -> Seq(DOMAIN asked)] /\ answers' \in [Slots -> Seq(DOMAIN asked)]
    BY <1>6, <2>2, <2>3 DEF ServerAnswers, JsTypeOK
  <2> QED BY <1>6, <2>4 DEF ServerAnswers, JsTypeOK, conns, history
<1>7. ASSUME NEW s \in Slots, Message(s) PROVE JsTypeOK'
  <2> DEFINE id == Head(answers[s])
  <2>1. id \in DOMAIN asked
    BY <1>7, MessageTyped
  <2>2. PICK n \in 0..Len(pending) :
           /\ pending' = Shift(n).left
           /\ result' = [i \in DOMAIN result |->
                 IF i \in Shift(n).settled /\ result[i] = Pending THEN id ELSE result[i]]
    BY <1>7, MessageTyped
  <2> HIDE DEF id
  <2>4. pending' \in Seq(DOMAIN asked)
    BY <2>2, ShiftIs
  <2>5. id \in Nat
    BY <2>1 DEF JsTypeOK
  <2>6. /\ DOMAIN result = 1..Len(result) /\ Len(result) \in Nat
        /\ \A i \in 1..Len(result) : result[i] \in Nat
    BY DEF JsTypeOK
  <2>7. result' \in Seq(Nat) /\ Len(result') = Len(result)
    BY <2>2, <2>5, <2>6
  <2>8. Tail(answers[s]) \in Seq(DOMAIN asked)
    BY <1>7, TailIs DEF Message, JsTypeOK
  <2>9. answers' \in [Slots -> Seq(DOMAIN asked)]
    BY <1>7, <2>8 DEF Message, JsTypeOK
  <2> QED BY <1>7, <2>4, <2>7, <2>9 DEF Message, JsTypeOK, conns, history
<1>8. CASE Disconnect
  <2>1. phase' \in [Slots -> Phases]
    BY <1>8, ClosingTyped DEF Disconnect, JsTypeOK
  <2>2. /\ state' = "disconnected" /\ ws' = 0 /\ 0 \in 0..Sockets /\ reconnect' = FALSE
        /\ off' \in {"never", "first", "again"}
        /\ UNCHANGED <<asked, pending, result, wire, answers, crossed, within, overwritten>>
    BY <1>8, JsAssumption DEF Disconnect, JsTypeOK, queue
  <2>3. late' \in BOOLEAN
    BY <1>8, Zenon DEF Disconnect
  <2> QED BY <1>0, <2>1, <2>2, <2>3 DEF JsTypeOK
<1>9. ASSUME NEW kind \in {"line", "bulk"}, Send(kind) PROVE JsTypeOK'
  <2> DEFINE id == Len(asked) + 1
             entry == [kind |-> kind, socket |-> ws]
             entries == Append(asked, entry)
  <2>1. entry \in Asked
    BY <1>9 DEF Asked, Send, JsTypeOK, Slots
  <2>2. asked \in Seq(Asked) /\ asked' = entries
    BY <1>9 DEF Send, JsTypeOK
  <2>3. /\ entries \in Seq(Asked) /\ Len(entries) = Len(asked) + 1 /\ Len(asked) \in Nat
        /\ DOMAIN entries = 1..id /\ DOMAIN asked = 1..Len(asked)
    BY <2>1, <2>2, AppendIs
  <2> HIDE DEF entries, entry
  <2>4. DOMAIN asked \subseteq DOMAIN entries /\ id \in DOMAIN entries
    BY <2>3
  <2>5. ASSUME NEW q \in Seq(DOMAIN asked) PROVE q \in Seq(DOMAIN entries)
    BY <2>4
  <2>6. pending' \in Seq(DOMAIN entries)
    BY <1>9, <2>4, <2>5 DEF Send, JsTypeOK
  <2>7. wire' \in [Slots -> Seq(DOMAIN entries)]
    <3>1. wire \in [Slots -> Seq(DOMAIN entries)]
      BY <2>5 DEF JsTypeOK
    <3>2. wire[ws] \in Seq(DOMAIN entries) => Append(wire[ws], id) \in Seq(DOMAIN entries)
      BY <2>4, AppendIs
    <3>3. wire' = wire \/ wire' = [wire EXCEPT ![ws] = Append(@, id)]
      BY <1>9 DEF Send
    <3> QED BY <3>1, <3>2, <3>3
  <2>8. answers' \in [Slots -> Seq(DOMAIN entries)]
    BY <1>9, <2>5 DEF Send, JsTypeOK
  <2>9. result' \in Seq(Nat) /\ Len(result') = Len(result) + 1
    <3>1. Pending \in Nat /\ Rejected \in Nat
      BY JsAssumption DEF Pending, Rejected
    <3>2. result \in Seq(Nat)
      BY DEF JsTypeOK
    <3>3. PICK r \in Nat : result' = Append(result, r)
      BY <1>9, <3>1 DEF Send
    <3> QED BY <3>2, <3>3, AppendIs
  <2>10. crossed' \in BOOLEAN
    BY <1>9, Zenon DEF Send, JsTypeOK
  <2>11. UNCHANGED <<conns, calls, off, doubled, overwritten, late>>
    BY <1>9 DEF Send
  <2> QED BY <2>2, <2>3, <2>6, <2>7, <2>8, <2>9, <2>10, <2>11 DEF JsTypeOK, conns
<1>10. CASE UNCHANGED jsVars
  BY <1>10 DEF JsTypeOK, jsVars, conns, queue, history
<1>11. CASE ScheduleReconnect
  <2>1. overwritten' \in BOOLEAN
    BY <1>11, Zenon DEF ScheduleReconnect, JsTypeOK
  <2>2. /\ state' \in States /\ within' \in {"none", "disconnect", "reconnecting"}
        /\ UNCHANGED <<ws, reconnect, phase, asked, pending, result, wire, answers, off, crossed, late>>
    BY <1>11 DEF ScheduleReconnect, JsTypeOK, queue
  <2> QED BY <1>0, <2>1, <2>2 DEF JsTypeOK
<1>12. CASE SetTimer
  BY <1>0, <1>12 DEF SetTimer, JsTypeOK, queue
<1>13. CASE ListenerThrows
  BY <1>13 DEF ListenerThrows, JsTypeOK, queue
<1> QED
  BY <1>1, <1>2, <1>3, <1>4, <1>5, <1>6, <1>7, <1>8, <1>9, <1>10, <1>11, <1>12, <1>13 DEF JsNext

-----------------------------------------------------------------------------
\* The sockets.  A new one is opened when no other is in use, or it is noted.
LEMMA OpensKeeps ==
    ASSUME JsTypeOK, SocketInv, NEW s \in Slots, ~Busy, Opens(s), overwritten' = overwritten,
           off' = off \/ (off # "never" /\ off' = "again")
    PROVE  SocketInv'
<1>1. /\ phase \in [Slots -> Phases] /\ s # 0
      /\ state \in {"disconnected", "reconnecting"} /\ reconnect' = reconnect
  BY JsAssumption DEF JsTypeOK, Opens, Busy, States, Slots
<1>2. off' = "never" <=> reconnect'
  BY <1>1 DEF SocketInv
<1>3. CASE NewSocket(s)
  <2>1. /\ state' = "connecting" /\ ws' = s /\ phase' = [phase EXCEPT ![s] = "connecting"]
        /\ crossed' = (crossed \/ ws # 0)
    BY <1>3 DEF NewSocket
  <2>2. ASSUME reconnect', ~overwritten'
        PROVE  ~crossed' /\ \A u \in Slots : phase'[u] # "none" => u = ws'
    <3>1. ~crossed /\ \A u \in Slots : phase[u] # "none" => u = ws
      BY <1>1, <2>2, Zenon DEF SocketInv
    <3>2. ws = 0
      BY <1>1, <2>2, <3>1, Zenon DEF SocketInv, OneSocket
    <3>3. \A u \in Slots : phase[u] = "none"
      BY <3>1, <3>2, JsAssumption DEF Slots
    <3>4. \A u \in Slots : phase'[u] # "none" => u = ws'
      BY <1>1, <2>1, <3>3
    <3> QED BY <2>1, <3>1, <3>2, <3>4
  <2>3. ASSUME ~crossed'
        PROVE  OneSocket'
    <3>1. ~crossed /\ ws = 0
      BY <2>1, <2>3, Zenon
    <3>2. \A u \in Slots : phase[u] \in {"connecting", "open"} => u = ws
      BY <3>1, Zenon DEF SocketInv, OneSocket
    <3>3. \A u \in Slots : phase[u] \notin {"connecting", "open"}
      BY <3>1, <3>2, JsAssumption DEF Slots
    <3> QED BY <1>1, <2>1, <3>3 DEF OneSocket
  <2> QED BY <1>2, <2>2, <2>3 DEF SocketInv
<1>4. CASE NoSocket
  <2>1. state' \in {"connecting", "disconnected"} /\ UNCHANGED <<ws, phase, crossed>>
    BY <1>4, Zenon DEF NoSocket
  <2>2. ~crossed => OneSocket'
    BY <1>1, <2>1 DEF SocketInv, OneSocket
  <2> QED BY <1>1, <1>2, <2>1, <2>2, Zenon DEF SocketInv
<1> QED BY <1>3, <1>4 DEF Opens

LEMMA PendingAsked ==
    ASSUME JsTypeOK, NEW i \in ToSet(pending)
    PROVE  i \in DOMAIN asked /\ i \in Nat /\ asked[i].socket \in Slots
<1>1. DOMAIN asked = 1..Len(asked) /\ Len(asked) \in Nat /\ pending \in Seq(DOMAIN asked)
  BY DEF JsTypeOK
<1>2. i \in DOMAIN asked
  BY <1>1 DEF ToSet
<1>3. asked[i] \in Asked
  BY <1>2 DEF JsTypeOK
<1> QED BY <1>1, <1>2, <1>3 DEF Asked

LEMMA SocketKeeps == JsTypeOK /\ SocketInv /\ QueueInv /\ [JsNext]_jsVars => SocketInv'
<1> SUFFICES ASSUME JsTypeOK, SocketInv, QueueInv, [JsNext]_jsVars PROVE SocketInv'
  OBVIOUS
<1>0. phase \in [Slots -> Phases] /\ ws \in 0..Sockets /\ state \in States
  BY DEF JsTypeOK
<1>1. ASSUME NEW s \in Slots, Connect(s) PROVE SocketInv'
  BY <1>1, OpensKeeps DEF Connect
<1>2. ASSUME NEW s \in Slots, Fire(s) PROVE SocketInv'
  <2>1. off' = off /\ overwritten' = overwritten
    BY <1>2 DEF Fire
  <2>2. CASE ~Busy /\ Opens(s)
    BY <2>1, <2>2, OpensKeeps
  <2>3. CASE UNCHANGED <<state, ws, reconnect, phase, crossed>>
    BY <2>1, <2>3 DEF SocketInv, OneSocket
  <2> QED BY <1>2, <2>2, <2>3 DEF Fire
<1>3. ASSUME NEW s \in Slots, Open(s) PROVE SocketInv'
  <2>1. /\ phase[s] = "connecting" /\ phase' = [phase EXCEPT ![s] = "open"] /\ s # 0
        /\ state' = "connected" /\ UNCHANGED <<ws, reconnect, off, crossed, overwritten>>
    BY <1>3, JsAssumption DEF Open, history, Slots
  <2>2. ~crossed => OneSocket'
    <3>1. SUFFICES ASSUME OneSocket PROVE OneSocket'
      BY DEF SocketInv
    <3>2. s = ws /\ \A u \in Slots \ {s} : phase[u] \notin {"connecting", "open"}
      BY <2>1, <3>1 DEF OneSocket
    <3> QED BY <1>0, <2>1, <3>2 DEF OneSocket
  <2>3. \A u \in Slots : phase'[u] # "none" => phase[u] # "none"
    BY <1>0, <2>1
  <2> QED BY <2>1, <2>2, <2>3, Zenon DEF SocketInv
<1>4. ASSUME NEW s \in Slots, ConnectTimeout(s) PROVE SocketInv'
  <2>1. UNCHANGED <<state, ws, reconnect, off, crossed, overwritten>>
    BY <1>4 DEF ConnectTimeout, history
  <2>2. /\ \A u \in Slots : phase'[u] # "none" => phase[u] # "none" \/ u = ws
        /\ \A u \in Slots : phase'[u] \in {"connecting", "open"} => phase'[u] = phase[u]
        /\ phase' = phase \/ state = "connecting"
    BY <1>4, ClosingTyped DEF ConnectTimeout, TimeoutCloses, JsTypeOK
  <2>3. ~crossed => OneSocket'
    BY <2>1, <2>2 DEF SocketInv, OneSocket
  <2> QED BY <2>1, <2>2, <2>3, Zenon DEF SocketInv
<1>5. ASSUME NEW s \in Slots, CloseEvent(s) PROVE SocketInv'
  <2>1. /\ phase[s] # "none" /\ phase' = [phase EXCEPT ![s] = "none"] /\ s # 0
        /\ ws' = 0 /\ state' = "disconnected"
        /\ UNCHANGED <<reconnect, off, overwritten>> /\ crossed' = (crossed \/ ws \notin {0, s})
    BY <1>5, JsAssumption DEF CloseEvent, HandleDisconnect, Slots
  <2>2. ASSUME reconnect, ~overwritten
        PROVE  ~crossed' /\ \A u \in Slots : phase'[u] # "none" => u = ws'
    <3>1. ~crossed /\ \A u \in Slots : phase[u] # "none" => u = ws
      BY <2>2, Zenon DEF SocketInv
    <3>2. ws = s
      BY <2>1, <3>1
    <3>3. \A u \in Slots : phase'[u] = "none"
      BY <1>0, <2>1, <3>1, <3>2
    <3> QED BY <2>1, <3>1, <3>2, <3>3
  <2>3. ASSUME ~crossed'
        PROVE  OneSocket'
    <3>1. ~crossed /\ ws \in {0, s}
      BY <2>1, <2>3, Zenon
    <3>2. \A u \in Slots : phase[u] \in {"connecting", "open"} => u = s
      BY <3>1, JsAssumption DEF SocketInv, OneSocket, Slots
    <3>3. \A u \in Slots : phase'[u] \notin {"connecting", "open"}
      BY <1>0, <2>1, <3>2
    <3> QED BY <2>1, <3>3 DEF OneSocket
  <2> QED BY <2>1, <2>2, <2>3 DEF SocketInv
<1>6. CASE Disconnect
  <2>1. /\ ws' = 0 /\ state' = "disconnected" /\ reconnect' = FALSE /\ off' # "never"
        /\ UNCHANGED <<crossed, overwritten>>
    BY <1>6 DEF Disconnect, JsTypeOK
  <2>2. \A u \in Slots : phase'[u] = IF u = ws THEN "closing" ELSE phase[u]
    BY <1>0, <1>6, ClosingTyped DEF Disconnect
  <2>3. ~crossed => OneSocket'
    BY <2>1, <2>2 DEF SocketInv, OneSocket
  <2> QED BY <2>1, <2>3 DEF SocketInv
<1>7. ASSUME NEW kind \in {"line", "bulk"}, Send(kind) PROVE SocketInv'
  <2>1. UNCHANGED <<state, ws, reconnect, phase, off, overwritten>> /\ (crossed => crossed')
    BY <1>7, Zenon DEF Send, conns
  <2>2. ~reconnect \/ overwritten \/ ~crossed'
    <3>1. SUFFICES ASSUME reconnect, ~overwritten
                   PROVE ~\E i \in ToSet(pending) : asked[i].socket # ws
      BY <1>7, Zenon DEF Send, SocketInv
    <3>2. ASSUME NEW i \in ToSet(pending) PROVE asked[i].socket = ws
      <4>1. ~crossed /\ \A u \in Slots : phase[u] # "none" => u = ws
        BY <3>1, Zenon DEF SocketInv
      <4>2. phase[asked[i].socket] \in {"open", "closing"}
        BY <4>1 DEF QueueInv
      <4>3. asked[i].socket \in Slots
        BY PendingAsked
      <4> QED BY <4>1, <4>2, <4>3
    <3> QED BY <3>2
  <2> QED BY <2>1, <2>2, Zenon DEF SocketInv, OneSocket
<1>8. CASE UNCHANGED <<state, ws, reconnect, phase, off, crossed, overwritten>>
  BY <1>8 DEF SocketInv, OneSocket
<1>9. CASE ScheduleReconnect
  <2>1. UNCHANGED <<ws, reconnect, phase, off, crossed>>
    BY <1>9 DEF ScheduleReconnect
  <2>2. CASE UNCHANGED <<state, overwritten>>
    BY <1>8, <2>1, <2>2
  <2>3. CASE state' = "reconnecting" /\ overwritten' = (overwritten \/ ws # 0)
    <3>1. (overwritten => overwritten') /\ (~overwritten' => ws = 0)
      BY <2>3, Zenon
    <3>2. ~crossed => OneSocket'
      BY <2>1, <2>3, <3>1 DEF SocketInv, OneSocket
    <3> QED BY <2>1, <3>1, <3>2, Zenon DEF SocketInv
  <2> QED BY <1>9, <2>2, <2>3 DEF ScheduleReconnect
<1> QED
  BY <1>1, <1>2, <1>3, <1>4, <1>5, <1>6, <1>7, <1>8, <1>9
  DEF JsNext, SetTimer, ListenerThrows, ServerAnswers, Message, jsVars, conns, history

\* After the first disconnect() there is nothing left that could connect.
LEMMA FirstKeeps ==
    JsTypeOK /\ SocketInv /\ TimerInv /\ FirstInv /\ [JsNext]_jsVars => FirstInv'
<1> SUFFICES ASSUME JsTypeOK, SocketInv, TimerInv, FirstInv, [JsNext]_jsVars PROVE FirstInv'
  OBVIOUS
<1>0. phase \in [Slots -> Phases] /\ ws \in 0..Sockets /\ timers \in Nat
  BY DEF JsTypeOK
<1>1. ASSUME NEW s \in Slots, Connect(s) PROVE off' # "first"
  BY <1>1 DEF Connect
<1>2. ASSUME NEW s \in Slots, Fire(s) PROVE FirstInv'
  <2>1. timers # 0 /\ off' = off /\ doubled' = doubled /\ late' = late
    BY <1>0, <1>2 DEF Fire
  <2>2. crossed => crossed'
    BY <1>2, Zenon DEF Fire, Opens, NewSocket, NoSocket
  <2> QED BY <2>1, <2>2, Zenon DEF FirstInv
<1>3. ASSUME NEW s \in Slots, Open(s) PROVE FirstInv'
  <2>1. phase[s] = "connecting" /\ UNCHANGED <<off, doubled, late, crossed>>
    BY <1>3 DEF Open, history
  <2>2. ~(phase[s] \in {"none", "closing"})
    BY <2>1
  <2> QED BY <2>1, <2>2, Zenon DEF FirstInv
<1>4. ASSUME NEW s \in Slots, ConnectTimeout(s) PROVE FirstInv'
  <2>1. \A u \in Slots : phase'[u] = phase[u] \/ phase'[u] = "closing"
    BY <1>0, <1>4, ClosingTyped DEF ConnectTimeout, TimeoutCloses
  <2> QED BY <1>4, <2>1 DEF ConnectTimeout, history, FirstInv
<1>5. ASSUME NEW s \in Slots, CloseEvent(s) PROVE FirstInv'
  <2>1. /\ phase' = [phase EXCEPT ![s] = "none"] /\ state' = "disconnected"
        /\ within' = "disconnect" /\ UNCHANGED <<timers, off, doubled, late>>
    BY <1>5 DEF CloseEvent, HandleDisconnect
  <2>2. crossed => crossed'
    BY <1>5, Zenon DEF CloseEvent
  <2>3. \A u \in Slots : phase'[u] = phase[u] \/ phase'[u] = "none"
    BY <1>0, <2>1
  <2> QED BY <2>1, <2>2, <2>3 DEF FirstInv
<1>6. CASE Disconnect
  <2>1. /\ state' = "disconnected" /\ ClearTimer /\ UNCHANGED <<doubled, crossed, within>>
        /\ off' = IF off = "never" THEN "first" ELSE off
    BY <1>6 DEF Disconnect
  <2>2. (late => late') /\ (~late' => within # "reconnecting")
    BY <1>6, Zenon DEF Disconnect
  <2>3. \A u \in Slots : phase'[u] = IF u = ws THEN "closing" ELSE phase[u]
    BY <1>0, <1>6, ClosingTyped DEF Disconnect
  <2>4. ASSUME off' = "first", ~doubled, ~late', ~crossed
        PROVE  timers' = 0
    <3>1. timers \in {0, 1} /\ (timers = 1 => held) /\ (held => timers > 0)
      BY <2>4, Zenon DEF TimerInv
    <3>2. CASE held
      <4>1. timers > 0
        BY <3>1, <3>2
      <4>2. timers' = timers - 1
        BY <2>1, <3>2 DEF ClearTimer
      <4> QED BY <1>0, <3>1, <4>1, <4>2
    <3>3. CASE ~held
      <4>1. timers' = timers /\ timers # 1
        BY <2>1, <3>1, <3>3 DEF ClearTimer
      <4> QED BY <3>1, <4>1
    <3> QED BY <3>2, <3>3
  <2>5. ASSUME ~crossed, NEW u \in Slots
        PROVE  phase'[u] \in {"none", "closing"}
    <3>1. phase[u] \in {"connecting", "open"} => u = ws
      BY <2>5, Zenon DEF SocketInv, OneSocket
    <3>2. phase[u] \in Phases
      BY <1>0
    <3> QED BY <2>3, <3>1, <3>2 DEF Phases
  <2> QED BY <2>1, <2>2, <2>4, <2>5 DEF FirstInv
<1>7. CASE UNCHANGED <<timers, state, within, phase, off, doubled, late, crossed>>
  BY <1>7 DEF FirstInv
<1>8. CASE ScheduleReconnect
  <2>1. UNCHANGED <<timers, phase, off, doubled, late, crossed>>
    BY <1>8 DEF ScheduleReconnect
  <2>2. off = "first" => ~reconnect
    BY DEF SocketInv
  <2>3. off = "first" => state' = state /\ within' = "none"
    BY <1>8, <2>2 DEF ScheduleReconnect
  <2> QED BY <2>1, <2>3 DEF FirstInv
<1>9. CASE SetTimer
  <2>1. within = "reconnecting" /\ UNCHANGED <<off, late, crossed>>
    BY <1>9 DEF SetTimer
  <2>2. doubled => doubled'
    BY <1>9, Zenon DEF SetTimer
  <2> QED BY <2>1, <2>2, Zenon DEF FirstInv
<1>10. CASE ListenerThrows
  <2>1. within' = "none" /\ UNCHANGED <<timers, state, phase, off, doubled, late, crossed>>
    BY <1>10 DEF ListenerThrows
  <2> QED BY <2>1 DEF FirstInv
<1>11. ASSUME NEW kind \in {"line", "bulk"}, Send(kind) PROVE FirstInv'
  <2>1. UNCHANGED <<timers, state, within, phase, off, doubled, late>>
    BY <1>11 DEF Send, conns
  <2>2. crossed => crossed'
    BY <1>11, Zenon DEF Send
  <2> QED BY <2>1, <2>2 DEF FirstInv
<1> QED
  BY <1>1, <1>2, <1>3, <1>4, <1>5, <1>6, <1>7, <1>8, <1>9, <1>10, <1>11
  DEF JsNext, ServerAnswers, Message, jsVars, conns, history, FirstInv
-----------------------------------------------------------------------------
\* The queue, when only the sockets change.
LEMMA QueueQuiet ==
    ASSUME JsTypeOK, QueueInv, UNCHANGED <<asked, pending, wire, answers>>, crossed => crossed',
           \A s \in Slots : phase'[s] \in {"none", "connecting"} => phase[s] \in {"none", "connecting"},
           \A s \in Slots : phase[s] \in {"open", "closing"} => phase'[s] \in {"open", "closing"},
           \A s \in Slots : phase'[s] = "open" => phase[s] \in {"open", "connecting"}
    PROVE  QueueInv'
<1>1. \A i \in ToSet(pending) : asked[i].socket \in Slots
  BY PendingAsked
<1>2. ASSUME ~crossed, NEW s \in Slots, phase'[s] = "open"
      PROVE  /\ Stream(s) # {} => \A i \in ToSet(pending) : asked[i].socket = s
             /\ \A i \in DOMAIN asked : Plain(i) =>
                   (i \in Stream(s) <=> i \in ToSet(pending) /\ asked[i].socket = s)
  <2>1. CASE phase[s] = "open"
    BY <1>2, <2>1 DEF QueueInv
  <2>2. CASE phase[s] = "connecting"
    <3>1. Stream(s) = {}
      BY <2>2 DEF QueueInv, Stream, ToSet
    <3>2. \A i \in ToSet(pending) : asked[i].socket # s
      BY <1>2, <2>2 DEF QueueInv
    <3> QED BY <3>1, <3>2
  <2> QED BY <1>2, <2>1, <2>2
<1>3. ASSUME NEW s \in Slots
      PROVE  /\ Increasing(answers[s]) /\ Increasing(wire[s])
             /\ \A i \in ToSet(answers[s]), j \in ToSet(wire[s]) : i < j
             /\ phase'[s] \in {"none", "connecting"} => answers[s] = <<>> /\ wire[s] = <<>>
  BY DEF QueueInv
<1>4. ~crossed => \A i \in ToSet(pending) : phase'[asked[i].socket] \in {"open", "closing"}
  BY <1>1 DEF QueueInv
<1>5. Increasing(pending)
  BY DEF QueueInv
<1> QED BY <1>2, <1>3, <1>4, <1>5 DEF QueueInv, Stream, Plain

LEMMA StreamAsked ==
    ASSUME JsTypeOK, NEW s \in Slots
    PROVE  /\ answers[s] \in Seq(DOMAIN asked) /\ wire[s] \in Seq(DOMAIN asked)
           /\ answers[s] \in Seq(Nat) /\ wire[s] \in Seq(Nat) /\ pending \in Seq(Nat)
           /\ Stream(s) \subseteq DOMAIN asked /\ DOMAIN asked = 1..Len(asked)
           /\ DOMAIN asked \subseteq Nat /\ Len(asked) \in Nat
<1>1. DOMAIN asked = 1..Len(asked) /\ Len(asked) \in Nat /\ DOMAIN asked \subseteq Nat
  BY DEF JsTypeOK
<1>2. answers[s] \in Seq(DOMAIN asked) /\ wire[s] \in Seq(DOMAIN asked)
  BY DEF JsTypeOK
<1>3. \A q \in Seq(DOMAIN asked) : q \in Seq(Nat)
  BY <1>1
<1>4. pending \in Seq(Nat)
  BY <1>3 DEF JsTypeOK
<1> QED BY <1>1, <1>2, <1>3, <1>4 DEF Stream, ToSet

LEMMA QueueClose == ASSUME JsTypeOK, SocketInv, QueueInv, NEW s \in Slots, CloseEvent(s) PROVE QueueInv'
<1>1. /\ pending' = <<>> /\ phase' = [phase EXCEPT ![s] = "none"]
      /\ wire' = [wire EXCEPT ![s] = <<>>] /\ answers' = [answers EXCEPT ![s] = <<>>]
      /\ crossed' = (crossed \/ ws \notin {0, s})
  BY DEF CloseEvent, HandleDisconnect, RejectPending
<1>2. /\ phase \in [Slots -> Phases] /\ DOMAIN wire = Slots /\ DOMAIN answers = Slots
  BY DEF JsTypeOK
<1>3. Increasing(<<>>) /\ ToSet(<<>>) = {}
  BY DEF Increasing, ToSet
<1>4. ASSUME ~crossed', NEW u \in Slots PROVE phase'[u] # "open"
  <2>1. ~crossed /\ ws \in {0, s}
    BY <1>1, <1>4, Zenon
  <2>2. phase[u] = "open" => u = ws
    BY <2>1, Zenon DEF SocketInv, OneSocket
  <2>3. u # 0
    BY JsAssumption DEF Slots
  <2> QED BY <1>1, <1>2, <2>1, <2>2, <2>3
<1>5. ASSUME NEW u \in Slots
      PROVE  /\ Increasing(answers'[u]) /\ Increasing(wire'[u])
             /\ \A i \in ToSet(answers'[u]), j \in ToSet(wire'[u]) : i < j
             /\ phase'[u] \in {"none", "connecting"} => answers'[u] = <<>> /\ wire'[u] = <<>>
  <2>1. CASE u = s
    <3>1. answers'[u] = <<>> /\ wire'[u] = <<>>
      BY <1>1, <1>2, <2>1
    <3> QED BY <1>3, <3>1
  <2>2. CASE u # s
    <3>1. answers'[u] = answers[u] /\ wire'[u] = wire[u] /\ phase'[u] = phase[u]
      BY <1>1, <1>2, <2>2
    <3> QED BY <3>1 DEF QueueInv
  <2> QED BY <2>1, <2>2
<1> QED BY <1>1, <1>3, <1>4, <1>5 DEF QueueInv

\* A command that is sent comes last, in the queue and on the way.
LEMMA QueueSend ==
    ASSUME JsTypeOK, SocketInv, QueueInv, NEW kind \in {"line", "bulk"}, Send(kind)
    PROVE  QueueInv'
<1> DEFINE id == Len(asked) + 1
           entry == [kind |-> kind, socket |-> ws]
<1>1. /\ asked' = Append(asked, entry) /\ pending' = Append(pending, id)
      /\ answers' = answers /\ phase' = phase /\ ws' = ws
      /\ wire' = IF phase[ws] = "open" THEN [wire EXCEPT ![ws] = Append(@, id)] ELSE wire
      /\ crossed' = (crossed \/ \E i \in ToSet(pending) : asked[i].socket # ws)
      /\ ws \in Slots /\ state = "connected"
  BY DEF Send, conns, JsTypeOK, Slots
<1>2. /\ id \in Nat /\ \A i \in DOMAIN asked : i \in Nat /\ i < id
      /\ \A s \in Slots : wire[s] \in Seq(Nat) /\ Stream(s) \subseteq DOMAIN asked
      /\ pending \in Seq(Nat) /\ ToSet(pending) \subseteq DOMAIN asked
  BY StreamAsked, PendingAsked, <1>1
<1>3. /\ DOMAIN asked' = DOMAIN asked \cup {id} /\ DOMAIN asked = 1..Len(asked)
      /\ \A i \in DOMAIN asked : asked'[i] = asked[i]
      /\ asked'[id] = entry
  <2>1. entry \in Asked
    BY <1>1 DEF Asked
  <2> HIDE DEF entry
  <2>2. asked \in Seq(Asked)
    BY DEF JsTypeOK
  <2> QED BY <1>1, <2>1, <2>2, AppendIs
<1>4. entry.socket = ws
  OBVIOUS
<1> HIDE DEF id, entry
<1>5. ToSet(pending') = ToSet(pending) \cup {id} /\ Increasing(pending')
  <2>1. Increasing(pending) /\ \A i \in ToSet(pending) : i < id
    BY <1>2 DEF QueueInv
  <2>2. ToSet(Append(pending, id)) = ToSet(pending) \cup {id}
    BY <1>2, AppendSet
  <2>3. Increasing(Append(pending, id))
    BY <1>2, <2>1, AppendIncreasing
  <2> QED BY <1>1, <2>2, <2>3
<1>6. ASSUME NEW s \in Slots
      PROVE  /\ wire'[s] = wire[s] \/ (s = ws /\ phase[ws] = "open")
             /\ phase[ws] = "open" /\ s = ws =>
                   ToSet(wire'[s]) = ToSet(wire[s]) \cup {id} /\ Increasing(wire'[s])
  <2>1. wire'[s] = IF s = ws /\ phase[ws] = "open" THEN Append(wire[s], id) ELSE wire[s]
    BY <1>1 DEF JsTypeOK
  <2>2. wire[s] \in Seq(Nat) /\ Increasing(wire[s]) /\ \A i \in ToSet(wire[s]) : i < id
    BY <1>2 DEF QueueInv, Stream
  <2>3. ToSet(Append(wire[s], id)) = ToSet(wire[s]) \cup {id} /\ Increasing(Append(wire[s], id))
    BY <1>2, <2>2, AppendSet, AppendIncreasing
  <2> QED BY <2>1, <2>3
<1>7. ASSUME NEW s \in Slots
      PROVE  /\ Increasing(answers'[s]) /\ Increasing(wire'[s])
             /\ \A i \in ToSet(answers'[s]), j \in ToSet(wire'[s]) : i < j
             /\ phase'[s] \in {"none", "connecting"} => answers'[s] = <<>> /\ wire'[s] = <<>>
  <2>1. /\ Increasing(answers[s]) /\ Increasing(wire[s])
        /\ \A i \in ToSet(answers[s]), j \in ToSet(wire[s]) : i < j
        /\ phase[s] \in {"none", "connecting"} => answers[s] = <<>> /\ wire[s] = <<>>
    BY DEF QueueInv
  <2>2. \A i \in ToSet(answers[s]) : i < id
    BY <1>2 DEF Stream
  <2>3. CASE wire'[s] = wire[s]
    BY <1>1, <2>1, <2>3
  <2>4. CASE s = ws /\ phase[ws] = "open"
    BY <1>1, <1>6, <2>1, <2>2, <2>4
  <2> QED BY <1>6, <2>3, <2>4
<1>8. ASSUME ~crossed'
      PROVE  /\ \A i \in ToSet(pending') : asked'[i].socket = ws
             /\ phase[ws] = "open" /\ \A s \in Slots : phase[s] = "open" => s = ws
             /\ Stream(ws)' = Stream(ws) \cup {id}
             /\ \A i \in DOMAIN asked : Plain(i) => (i \in Stream(ws) <=> i \in ToSet(pending))
  <2>1. ~crossed /\ \A i \in ToSet(pending) : asked[i].socket = ws
    BY <1>1, <1>8, Zenon
  <2>2. phase[ws] = "open" /\ \A s \in Slots : phase[s] = "open" => s = ws
    BY <1>1, <2>1, Zenon DEF SocketInv, OneSocket
  <2>3. \A i \in ToSet(pending') : asked'[i].socket = ws
    BY <1>2, <1>3, <1>4, <1>5, <2>1
  <2>4. Stream(ws)' = Stream(ws) \cup {id}
    <3>1. ToSet(wire'[ws]) = ToSet(wire[ws]) \cup {id}
      BY <1>1, <1>6, <2>2
    <3> QED BY <1>1, <3>1 DEF Stream
  <2>5. \A i \in DOMAIN asked : Plain(i) => (i \in Stream(ws) <=> i \in ToSet(pending))
    BY <1>1, <2>1, <2>2 DEF QueueInv
  <2> QED BY <2>2, <2>3, <2>4, <2>5
<1>9. \A i \in DOMAIN asked : Plain(i)' => Plain(i)
  <2>1. ASSUME NEW i \in DOMAIN asked, NEW k \in 1..(i - 1) PROVE k \in DOMAIN asked
    BY <1>2, <1>3
  <2> QED BY <1>3, <2>1 DEF Plain
<1>10. ASSUME ~crossed', NEW i \in DOMAIN asked', Plain(i)'
       PROVE  i \in Stream(ws)' <=> i \in ToSet(pending')
  <2>1. CASE i = id
    BY <1>5, <1>8, <1>10, <2>1
  <2>2. CASE i # id
    <3>1. i \in DOMAIN asked /\ Plain(i)
      BY <1>3, <1>9, <1>10, <2>2
    <3> QED BY <1>5, <1>8, <1>10, <2>2, <3>1
  <2> QED BY <2>1, <2>2
<1>11. ASSUME ~crossed'
       PROVE  /\ \A i \in ToSet(pending') : phase'[asked'[i].socket] \in {"open", "closing"}
              /\ \A s \in Slots : phase'[s] = "open" =>
                    /\ \A i \in ToSet(pending') : asked'[i].socket = s
                    /\ \A i \in DOMAIN asked' : Plain(i)' =>
                         (i \in Stream(s)' <=> i \in ToSet(pending') /\ asked'[i].socket = s)
  <2>1. /\ \A i \in ToSet(pending') : asked'[i].socket = ws
        /\ phase[ws] = "open" /\ \A s \in Slots : phase[s] = "open" => s = ws
    BY <1>8, <1>11
  <2>2. \A i \in DOMAIN asked' : Plain(i)' => (i \in Stream(ws)' <=> i \in ToSet(pending'))
    BY <1>10, <1>11
  <2>3. \A i \in ToSet(pending') : phase'[asked'[i].socket] \in {"open", "closing"}
    BY <1>1, <2>1
  <2>4. ASSUME NEW s \in Slots, phase'[s] = "open"
        PROVE  /\ \A i \in ToSet(pending') : asked'[i].socket = s
               /\ \A i \in DOMAIN asked' : Plain(i)' =>
                    (i \in Stream(s)' <=> i \in ToSet(pending') /\ asked'[i].socket = s)
    <3>1. s = ws
      BY <1>1, <2>1, <2>4
    <3>2. Stream(s)' = Stream(ws)'
      BY <1>1, <3>1 DEF Stream
    <3> QED BY <2>1, <2>2, <3>1, <3>2
  <2> QED BY <2>3, <2>4
<1> QED BY <1>5, <1>7, <1>11 DEF QueueInv

\* The server takes the commands of a socket in their order.
LEMMA QueueAnswers ==
    ASSUME JsTypeOK, QueueInv, NEW s \in Slots, ServerAnswers(s) PROVE QueueInv'
<1>1. /\ UNCHANGED <<phase, pending, asked, crossed>>
      /\ wire[s] # <<>> /\ wire' = [wire EXCEPT ![s] = Tail(@)]
      /\ answers' = [answers EXCEPT ![s] = Append(@, Head(wire[s]))]
  BY DEF ServerAnswers, conns, history
<1>2. wire[s] \in Seq(Nat) /\ answers[s] \in Seq(Nat)
  BY StreamAsked
<1>3. /\ Increasing(answers[s]) /\ Increasing(wire[s])
      /\ \A i \in ToSet(answers[s]), j \in ToSet(wire[s]) : i < j
  BY DEF QueueInv
<1>4. /\ Head(wire[s]) \in Nat
      /\ ToSet(wire[s]) = {Head(wire[s])} \cup ToSet(Tail(wire[s]))
      /\ Increasing(Tail(wire[s])) /\ \A i \in ToSet(Tail(wire[s])) : Head(wire[s]) < i
  BY <1>1, <1>2, <1>3, TailIs, TailSet, TailIncreasing
<1>5. /\ ToSet(Append(answers[s], Head(wire[s]))) = ToSet(answers[s]) \cup {Head(wire[s])}
      /\ Increasing(Append(answers[s], Head(wire[s])))
  BY <1>2, <1>3, <1>4, AppendSet, AppendIncreasing
<1>6. /\ wire'[s] = Tail(wire[s]) /\ answers'[s] = Append(answers[s], Head(wire[s]))
      /\ \A u \in Slots \ {s} : wire'[u] = wire[u] /\ answers'[u] = answers[u]
  BY <1>1 DEF JsTypeOK
<1>7. ASSUME NEW u \in Slots
      PROVE  /\ Increasing(answers'[u]) /\ Increasing(wire'[u])
             /\ \A i \in ToSet(answers'[u]), j \in ToSet(wire'[u]) : i < j
             /\ phase'[u] \in {"none", "connecting"} => answers'[u] = <<>> /\ wire'[u] = <<>>
             /\ Stream(u)' = Stream(u)
  <2>1. CASE u = s
    <3>1. phase[s] \notin {"none", "connecting"}
      BY <1>1 DEF QueueInv
    <3>2. \A i \in ToSet(answers'[s]), j \in ToSet(wire'[s]) : i < j
      BY <1>3, <1>4, <1>5, <1>6
    <3>3. Stream(s)' = Stream(s)
      BY <1>4, <1>5, <1>6 DEF Stream
    <3> QED BY <1>1, <1>4, <1>5, <1>6, <2>1, <3>1, <3>2, <3>3
  <2>2. CASE u # s
    BY <1>1, <1>6, <2>2 DEF QueueInv, Stream
  <2> QED BY <2>1, <2>2
<1>8. Increasing(pending)
  BY DEF QueueInv
<1>9. ASSUME ~crossed
      PROVE  /\ \A i \in ToSet(pending) : phase[asked[i].socket] \in {"open", "closing"}
             /\ \A u \in Slots : phase[u] = "open" =>
                   /\ Stream(u) # {} => \A i \in ToSet(pending) : asked[i].socket = u
                   /\ \A i \in DOMAIN asked : Plain(i) =>
                         (i \in Stream(u) <=> i \in ToSet(pending) /\ asked[i].socket = u)
  BY <1>9 DEF QueueInv
<1>10. \A i \in DOMAIN asked : Plain(i)' => Plain(i)
  BY <1>1 DEF Plain
<1> QED BY <1>1, <1>7, <1>8, <1>9, <1>10 DEF QueueInv

\* The commands without a bulk before them are the first ones.
LEMMA PlainDown ==
    ASSUME NEW i \in Nat, NEW j \in Nat, i <= j, Plain(j)
    PROVE  Plain(i) /\ (i < j /\ i >= 1 => asked[i].kind # "bulk")
  BY DEF Plain

\* The head of the queue and the head of the answers belong together: as long
\* as there was no bulk, an answer settles its own command, and no other.
LEMMA MessageSettles ==
    ASSUME JsTypeOK, SocketInv, QueueInv, NEW s \in Slots, Message(s), ~crossed,
           NEW n \in 0..Len(pending), Takes(Head(answers[s]), n)
    PROVE  LET id == Head(answers[s])
           IN  /\ id \in DOMAIN asked
               /\ Stream(s) # {} /\ (\A i \in Stream(s) : id <= i) /\ id \in Stream(s)
               /\ \A i \in DOMAIN asked : Plain(i) => (i \in Shift(n).settled <=> i = id)
<1> DEFINE id == Head(answers[s])
<1>1. /\ id \in DOMAIN asked /\ n \in 0..Len(pending)
      /\ asked[id].kind # "bulk" => n <= 1
      /\ pending # <<>> => n >= 1
  BY MessageTyped DEF Takes
<1>2. phase[s] = "open" /\ answers[s] # <<>>
  BY DEF Message
<1>3. /\ answers[s] \in Seq(Nat) /\ pending \in Seq(Nat)
      /\ Stream(s) \subseteq DOMAIN asked /\ DOMAIN asked = 1..Len(asked)
      /\ DOMAIN asked \subseteq Nat /\ Len(asked) \in Nat
  BY StreamAsked
<1>4. /\ Increasing(answers[s]) /\ Increasing(pending)
      /\ \A i \in ToSet(answers[s]), j \in ToSet(wire[s]) : i < j
  BY DEF QueueInv
<1>5. /\ ToSet(answers[s]) = {id} \cup ToSet(Tail(answers[s]))
      /\ \A i \in ToSet(Tail(answers[s])) : id < i
  BY <1>2, <1>3, <1>4, TailSet, TailIncreasing
<1> HIDE DEF id
<1>6. id \in Stream(s) /\ \A i \in Stream(s) : id <= i
  <2>1. id \in ToSet(answers[s]) /\ id \in Nat
    BY <1>1, <1>3, <1>5
  <2>2. \A i \in ToSet(wire[s]) : id < i
    BY <1>4, <2>1
  <2>3. ASSUME NEW i \in Stream(s) PROVE id <= i
    <3>1. i \in Nat
      BY <1>3
    <3>2. i = id \/ id < i
      BY <1>5, <2>2 DEF Stream
    <3> QED BY <2>1, <3>1, <3>2
  <2> QED BY <2>1, <2>3 DEF Stream
<1>7. /\ \A i \in ToSet(pending) : asked[i].socket = s
      /\ \A i \in DOMAIN asked : Plain(i) => (i \in Stream(s) <=> i \in ToSet(pending))
  <2>1. /\ Stream(s) # {} => \A i \in ToSet(pending) : asked[i].socket = s
        /\ \A i \in DOMAIN asked : Plain(i) =>
              (i \in Stream(s) <=> i \in ToSet(pending) /\ asked[i].socket = s)
    BY <1>2 DEF QueueInv
  <2> QED BY <1>6, <2>1
<1>8. /\ Len(pending) \in Nat /\ DOMAIN pending = 1..Len(pending) /\ n \in Nat /\ n <= Len(pending)
      /\ Shift(n).settled = {pending[i] : i \in 1..n}
      /\ \A i \in 1..Len(pending) : pending[i] \in ToSet(pending)
      /\ ToSet(pending) \subseteq DOMAIN asked
  BY <1>1, <1>3, PendingAsked DEF Shift, ToSet
\* The first command that waits, if there was no bulk.
<1>9. ASSUME Plain(id)
      PROVE  n >= 1 /\ pending[1] = id
  <2>1. id \in ToSet(pending)
    BY <1>1, <1>6, <1>7, <1>9
  <2>2. PICK k \in 1..Len(pending) : pending[k] = id
    BY <1>8, <2>1 DEF ToSet
  <2>3. pending[1] <= id /\ pending[1] \in DOMAIN asked
    <3>1. CASE k = 1
      BY <1>1, <1>3, <1>8, <2>2, <3>1
    <3>2. CASE k # 1
      <4>1. 1 \in DOMAIN pending /\ k \in DOMAIN pending /\ 1 < k
        BY <1>8, <3>2
      <4>2. pending[1] < pending[k]
        BY <1>4, <4>1 DEF Increasing
      <4> QED BY <1>1, <1>3, <1>8, <2>2, <4>1, <4>2
    <3> QED BY <3>1, <3>2
  <2>4. Plain(pending[1])
    BY <1>1, <1>3, <1>9, <2>3, PlainDown
  <2>5. pending[1] \in ToSet(pending) /\ pending # <<>>
    BY <1>8, <2>2
  <2>6. id <= pending[1]
    BY <1>6, <1>7, <2>3, <2>4, <2>5
  <2> QED BY <1>1, <1>3, <2>3, <2>5, <2>6
<1>10. ASSUME NEW i \in DOMAIN asked, Plain(i), i = id PROVE i \in Shift(n).settled
  <2>1. n >= 1 /\ pending[1] = id
    BY <1>9, <1>10
  <2> QED BY <1>8, <1>10, <2>1
<1>11. ASSUME NEW i \in DOMAIN asked, Plain(i), i \in Shift(n).settled PROVE i = id
  <2>1. PICK k \in 1..n : i = pending[k]
    BY <1>8, <1>11
  <2>2. i \in Stream(s)
    BY <1>7, <1>8, <1>11, <2>1
  <2>3. Plain(id) /\ (id < i => asked[id].kind # "bulk")
    BY <1>1, <1>3, <1>6, <1>11, <2>2, PlainDown
  <2>4. n >= 1 /\ pending[1] = id
    BY <1>9, <2>3
  <2>5. CASE k = 1
    BY <2>1, <2>4, <2>5
  <2>6. CASE k # 1
    <3>1. 1 \in DOMAIN pending /\ k \in DOMAIN pending /\ 1 < k /\ k <= n
      BY <1>8, <2>1, <2>6
    <3>2. id < i
      BY <1>4, <2>1, <2>4, <3>1 DEF Increasing
    <3> QED BY <1>1, <1>8, <2>3, <3>1, <3>2
  <2> QED BY <2>5, <2>6
<1> QED BY <1>1, <1>6, <1>10, <1>11 DEF id

LEMMA QueueMessage ==
    ASSUME JsTypeOK, SocketInv, QueueInv, NEW s \in Slots, Message(s) PROVE QueueInv'
<1> DEFINE id == Head(answers[s])
<1>1. id \in DOMAIN asked
  BY MessageTyped
<1>0. PICK n \in 0..Len(pending) : Takes(id, n) /\ pending' = Shift(n).left
  BY MessageTyped
<1>2. /\ UNCHANGED <<phase, asked, wire, crossed>>
      /\ phase[s] = "open" /\ answers[s] # <<>>
      /\ answers' = [answers EXCEPT ![s] = Tail(@)]
  BY DEF Message, conns, history
<1>3. /\ answers[s] \in Seq(Nat) /\ Stream(s) \subseteq DOMAIN asked
      /\ DOMAIN asked \subseteq Nat
  BY StreamAsked
<1>4. /\ Increasing(answers[s]) /\ Increasing(wire[s]) /\ Increasing(pending)
      /\ \A i \in ToSet(answers[s]), j \in ToSet(wire[s]) : i < j
  BY DEF QueueInv
<1>5. /\ ToSet(answers[s]) = {id} \cup ToSet(Tail(answers[s]))
      /\ Increasing(Tail(answers[s])) /\ \A i \in ToSet(Tail(answers[s])) : id < i
  BY <1>2, <1>3, <1>4, TailSet, TailIncreasing
<1>6. ~crossed =>
         /\ Stream(s) # {} /\ (\A i \in Stream(s) : id <= i) /\ id \in Stream(s)
         /\ \A i \in DOMAIN asked : Plain(i) => (i \in Shift(n).settled <=> i = id)
  BY <1>0, MessageSettles
<1> HIDE DEF id
<1>7. /\ Increasing(pending') /\ ToSet(pending) = Shift(n).settled \cup ToSet(pending')
      /\ \A i \in Shift(n).settled, j \in ToSet(pending') : i < j
  BY <1>0, <1>4, ShiftIs
<1>8. /\ answers'[s] = Tail(answers[s]) /\ \A u \in Slots \ {s} : answers'[u] = answers[u]
  BY <1>2 DEF JsTypeOK
<1>9. ASSUME NEW u \in Slots
      PROVE  /\ Increasing(answers'[u]) /\ Increasing(wire'[u])
             /\ \A i \in ToSet(answers'[u]), j \in ToSet(wire'[u]) : i < j
             /\ phase'[u] \in {"none", "connecting"} => answers'[u] = <<>> /\ wire'[u] = <<>>
  <2>1. CASE u = s
    BY <1>2, <1>4, <1>5, <1>8, <2>1
  <2>2. CASE u # s
    BY <1>2, <1>8, <2>2 DEF QueueInv
  <2> QED BY <2>1, <2>2
<1>10. Stream(s) = {id} \cup Stream(s)' /\ \A i \in Stream(s)' : id < i
  BY <1>1, <1>2, <1>3, <1>4, <1>5, <1>8 DEF Stream
<1>11. \A i \in ToSet(pending) : i \in DOMAIN asked /\ i \in Nat
  BY PendingAsked
<1>12. ASSUME ~crossed
       PROVE  /\ \A i \in ToSet(pending') : asked[i].socket = s
              /\ \A i \in ToSet(pending') : phase[asked[i].socket] \in {"open", "closing"}
              /\ \A u \in Slots : phase[u] = "open" => u = s
              /\ \A i \in DOMAIN asked : Plain(i) => (i \in Stream(s)' <=> i \in ToSet(pending'))
  <2>1. /\ \A i \in ToSet(pending) : asked[i].socket = s
        /\ \A i \in DOMAIN asked : Plain(i) => (i \in Stream(s) <=> i \in ToSet(pending))
    <3>1. /\ Stream(s) # {} => \A i \in ToSet(pending) : asked[i].socket = s
          /\ \A i \in DOMAIN asked : Plain(i) =>
                (i \in Stream(s) <=> i \in ToSet(pending) /\ asked[i].socket = s)
      BY <1>2, <1>12 DEF QueueInv
    <3> QED BY <1>6, <1>12, <3>1
  <2>2. \A i \in ToSet(pending') : asked[i].socket = s
    BY <1>7, <2>1
  <2>3. \A u \in Slots : phase[u] = "open" => u = s
    BY <1>2, <1>12 DEF SocketInv, OneSocket
  <2>4. ASSUME NEW i \in DOMAIN asked, Plain(i)
        PROVE  i \in Stream(s)' <=> i \in ToSet(pending')
    <3>1. i \in Stream(s)' <=> i \in Stream(s) /\ i # id
      BY <1>1, <1>3, <1>10
    <3>2. i \in Shift(n).settled <=> i = id
      BY <1>6, <1>12, <2>4
    <3>3. ~(i \in Shift(n).settled /\ i \in ToSet(pending'))
      BY <1>3, <1>7
    <3> QED BY <1>7, <2>1, <2>4, <3>1, <3>2, <3>3
  <2> QED BY <1>2, <2>2, <2>3, <2>4
<1>13. \A i \in DOMAIN asked : Plain(i)' => Plain(i)
  BY <1>2 DEF Plain
<1>14. ASSUME ~crossed, NEW u \in Slots, phase[u] = "open"
       PROVE  /\ \A i \in ToSet(pending') : asked[i].socket = u
              /\ \A i \in DOMAIN asked : Plain(i)' =>
                    (i \in Stream(u)' <=> i \in ToSet(pending') /\ asked[i].socket = u)
  <2>1. u = s
    BY <1>12, <1>14
  <2> QED BY <1>12, <1>13, <1>14, <2>1 DEF Stream
<1> QED BY <1>2, <1>7, <1>9, <1>12, <1>14 DEF QueueInv

LEMMA QueueKeeps == JsTypeOK /\ SocketInv /\ QueueInv /\ [JsNext]_jsVars => QueueInv'
<1> SUFFICES ASSUME JsTypeOK, SocketInv, QueueInv, [JsNext]_jsVars PROVE QueueInv'
  OBVIOUS
<1>0. phase \in [Slots -> Phases] /\ ws \in 0..Sockets
  BY DEF JsTypeOK
<1>1. ASSUME NEW s \in Slots, Opens(s), UNCHANGED <<asked, queue>> PROVE QueueInv'
  <2>1. CASE NewSocket(s)
    <3>1. phase[s] = "none" /\ phase' = [phase EXCEPT ![s] = "connecting"]
      BY <2>1 DEF NewSocket
    <3>2. crossed => crossed'
      BY <2>1, Zenon DEF NewSocket
    <3> QED BY <1>0, <1>1, <3>1, <3>2, QueueQuiet DEF queue
  <2>2. CASE NoSocket
    BY <1>1, <2>2, QueueQuiet DEF NoSocket, queue
  <2> QED BY <1>1, <2>1, <2>2 DEF Opens
<1>2. ASSUME NEW s \in Slots, Open(s) PROVE QueueInv'
  <2>1. phase[s] = "connecting" /\ phase' = [phase EXCEPT ![s] = "open"]
    BY <1>2 DEF Open
  <2> QED BY <1>0, <1>2, <2>1, QueueQuiet DEF Open, queue, history
<1>3. ASSUME NEW s \in 0..Sockets, Closing(s), UNCHANGED <<asked, queue, crossed>>
      PROVE  QueueInv'
  <2>1. \A u \in Slots : phase'[u] = IF u = s THEN "closing" ELSE phase[u]
    BY <1>3, ClosingTyped
  <2>2. \A u \in Slots : phase'[u] = "open" => phase[u] = "open"
    BY <2>1
  <2>3. \A u \in Slots : phase'[u] \in {"none", "connecting"} => phase[u] \in {"none", "connecting"}
    BY <2>1
  <2>4. \A u \in Slots : phase[u] \in {"open", "closing"} => phase'[u] \in {"open", "closing"}
    BY <2>1
  <2> QED BY <1>3, <2>2, <2>3, <2>4, QueueQuiet DEF queue
<1>4. CASE UNCHANGED <<asked, queue, crossed, phase>>
  BY <1>4, QueueQuiet DEF queue
<1>5. ASSUME NEW s \in Slots, Connect(s) PROVE QueueInv'
  BY <1>1, <1>5 DEF Connect
<1>6. ASSUME NEW s \in Slots, Fire(s) PROVE QueueInv'
  BY <1>1, <1>4, <1>6 DEF Fire
<1>7. ASSUME NEW s \in Slots, ConnectTimeout(s) PROVE QueueInv'
  BY <1>0, <1>3, <1>4, <1>7 DEF ConnectTimeout, TimeoutCloses, history
<1>8. CASE Disconnect
  BY <1>0, <1>3, <1>8 DEF Disconnect
<1>9. CASE ScheduleReconnect \/ SetTimer \/ ListenerThrows
  BY <1>4, <1>9 DEF ScheduleReconnect, SetTimer, ListenerThrows
<1> QED
  BY <1>2, <1>4, <1>5, <1>6, <1>7, <1>8, <1>9, QueueClose, QueueSend, QueueAnswers, QueueMessage
  DEF JsNext, jsVars, conns, history

\* An answer that settles another command is one of the exceptions.
LEMMA PromisesKeep ==
    JsTypeOK /\ SocketInv /\ QueueInv /\ PromisesMatch /\ [JsNext]_jsVars => PromisesMatch'
<1> SUFFICES ASSUME JsTypeOK, SocketInv, QueueInv, PromisesMatch, [JsNext]_jsVars
             PROVE  PromisesMatch'
  OBVIOUS
<1>0. /\ DOMAIN result = DOMAIN asked /\ DOMAIN asked = 1..Len(asked) /\ Len(asked) \in Nat
      /\ result \in Seq(Nat) /\ asked \in Seq(Asked)
  BY DEF JsTypeOK
<1> DEFINE Excused(i) == crossed \/ ~Plain(i)
<1>1. \A i \in DOMAIN result : result[i] \in {Pending, Rejected, i} \/ Excused(i)
  BY DEF PromisesMatch, Plain
<1>2. SUFFICES \A i \in DOMAIN result' : result'[i] \in {Pending, Rejected, i} \/ Excused(i)'
  BY DEF PromisesMatch, Plain
<1>3. CASE UNCHANGED <<result, asked>> /\ (crossed => crossed')
  BY <1>1, <1>3 DEF Plain
<1>4. ASSUME NEW s \in Slots, CloseEvent(s), NEW i \in DOMAIN result'
      PROVE  result'[i] \in {Pending, Rejected, i} \/ Excused(i)'
  <2>1. /\ result' = [k \in DOMAIN result |->
                       IF Contains(pending, k) /\ result[k] = Pending THEN Rejected ELSE result[k]]
        /\ asked' = asked /\ crossed' = (crossed \/ ws \notin {0, s})
    BY <1>4 DEF CloseEvent, HandleDisconnect, RejectPending
  <2>2. i \in DOMAIN result /\ (result'[i] = Rejected \/ result'[i] = result[i])
    BY <1>4, <2>1
  <2>3. Excused(i) => Excused(i)'
    BY <2>1, Zenon DEF Plain
  <2> QED BY <1>1, <2>2, <2>3
<1>5. ASSUME NEW kind \in {"line", "bulk"}, Send(kind), NEW i \in DOMAIN result'
      PROVE  result'[i] \in {Pending, Rejected, i} \/ Excused(i)'
  <2>1. PICK r \in {Rejected, Pending} : result' = Append(result, r)
    BY <1>5 DEF Send
  <2>2. /\ asked' = Append(asked, [kind |-> kind, socket |-> ws])
        /\ crossed => crossed'
    BY <1>5, Zenon DEF Send
  <2>3. CASE i = Len(result) + 1
    BY <1>0, <2>1, <2>3
  <2>4. CASE i # Len(result) + 1
    <3>1. i \in DOMAIN result /\ result'[i] = result[i]
      BY <1>0, <1>5, <2>1, <2>4
    <3>2. \A k \in 1..(i - 1) : asked'[k] = asked[k]
      BY <1>0, <2>2, <3>1
    <3>3. Excused(i) => Excused(i)'
      BY <2>2, <3>2, Zenon DEF Plain
    <3> QED BY <1>1, <3>1, <3>3
  <2> QED BY <2>3, <2>4
<1>6. ASSUME NEW s \in Slots, Message(s), NEW i \in DOMAIN result'
      PROVE  result'[i] \in {Pending, Rejected, i} \/ Excused(i)'
  <2> DEFINE id == Head(answers[s])
  <2>0. PICK n \in 0..Len(pending) :
           /\ Takes(id, n)
           /\ result' = [k \in DOMAIN result |->
                 IF k \in Shift(n).settled /\ result[k] = Pending THEN id ELSE result[k]]
    BY <1>6, MessageTyped
  <2>1. /\ result' = [k \in DOMAIN result |->
                       IF k \in Shift(n).settled /\ result[k] = Pending THEN id ELSE result[k]]
        /\ UNCHANGED <<asked, crossed>>
    BY <1>6, <2>0 DEF Message, history
  <2>2. ~crossed => \A k \in DOMAIN asked : Plain(k) => (k \in Shift(n).settled <=> k = id)
    BY <1>6, <2>0, MessageSettles
  <2> HIDE DEF id
  <2>3. /\ i \in DOMAIN result
        /\ result'[i] = result[i] \/ (result'[i] = id /\ i \in Shift(n).settled)
    BY <1>6, <2>1
  <2>4. Excused(i)' <=> Excused(i)
    BY <2>1 DEF Plain
  <2>5. CASE result'[i] = id /\ i \in Shift(n).settled
    BY <1>0, <2>2, <2>3, <2>4, <2>5
  <2> QED BY <1>1, <2>3, <2>4, <2>5
<1>7. ASSUME NEW s \in Slots, Opens(s) PROVE crossed => crossed'
  BY <1>7, Zenon DEF Opens, NewSocket, NoSocket
<1> QED
  BY <1>3, <1>4, <1>5, <1>6, <1>7
  DEF JsNext, Connect, Fire, Open, ConnectTimeout, ServerAnswers, Disconnect, ScheduleReconnect,
      SetTimer, ListenerThrows, jsVars, queue, history
-----------------------------------------------------------------------------
\* The invariant of the JavaScript client.
THEOREM JsInvariant == JsSpec => []JsInv
<1>1. JsInit => JsInv
  <2> SUFFICES ASSUME JsInit PROVE JsInv
    OBVIOUS
  <2>1. JsTypeOK
    <3>1. state \in States /\ ws \in 0..Sockets /\ phase \in [Slots -> Phases]
      BY JsAssumption DEF JsInit, States, Phases
    <3>2. asked \in Seq(Asked) /\ pending \in Seq(DOMAIN asked) /\ result \in Seq(Nat)
      BY DEF JsInit
    <3>3. wire \in [Slots -> Seq(DOMAIN asked)] /\ answers \in [Slots -> Seq(DOMAIN asked)]
      BY DEF JsInit
    <3>4. /\ reconnect \in BOOLEAN /\ timers \in Nat /\ held \in BOOLEAN
          /\ Len(result) = Len(asked) /\ off \in {"never", "first", "again"}
          /\ doubled \in BOOLEAN /\ crossed \in BOOLEAN
          /\ overwritten \in BOOLEAN /\ late \in BOOLEAN
          /\ within \in {"none", "disconnect", "reconnecting"}
      BY DEF JsInit
    <3> QED BY <3>1, <3>2, <3>3, <3>4 DEF JsTypeOK
  <2>2. SocketInv /\ TimerInv /\ FirstInv
    BY DEF JsInit, SocketInv, OneSocket, TimerInv, FirstInv
  <2>3. Increasing(<<>>) /\ ToSet(<<>>) = {}
    BY DEF Increasing, ToSet
  <2>4. QueueInv
    BY <2>3 DEF JsInit, QueueInv
  <2>5. PromisesMatch
    BY DEF JsInit, PromisesMatch
  <2> QED BY <2>1, <2>2, <2>4, <2>5 DEF JsInv
<1>2. JsInv /\ [JsNext]_jsVars => JsInv'
  BY JsTypeKeeps, SocketKeeps, TimerKeeps, FirstKeeps, QueueKeeps, PromisesKeep DEF JsInv
<1> QED BY <1>1, <1>2, PTL DEF JsSpec

\* Whatever answers, closed connections, timeouts and calls come in whatever
\* order, those of listeners among them: handleMessage gives a command its own
\* answer, unless there was a command with several lines before it, or two
\* sockets were used at a time.
THEOREM Promises == JsSpec => []PromisesMatch
<1>1. JsInv => PromisesMatch
  BY DEF JsInv
<1> QED BY <1>1, JsInvariant, PTL

\* Until the first disconnect(), however many reconnects there are, a client
\* whose state is connected has an open socket to send on, unless
\* scheduleReconnect overwrote the state of a connect() by a listener.
THEOREM Usable == JsSpec => []ConnectedIsUsable
<1>1. JsInv => ConnectedIsUsable
  <2> SUFFICES ASSUME JsInv, state = "connected", reconnect, ~overwritten
               PROVE  ws # 0 /\ phase[ws] = "open"
    BY DEF ConnectedIsUsable
  <2>1. ~crossed
    BY Zenon DEF JsInv, SocketInv
  <2> QED BY <2>1, Zenon DEF JsInv, SocketInv, OneSocket
<1> QED BY <1>1, JsInvariant, PTL

\* The first disconnect() is the last word until connect() is called, unless
\* two timers were running, the one of the reconnect was yet to be set, or two
\* sockets were in use.
THEOREM Disconnected == JsSpec => []StaysDisconnected
<1>1. JsInv => StaysDisconnected
  BY DEF JsInv, FirstInv, StaysDisconnected
<1> QED BY <1>1, JsInvariant, PTL
-----------------------------------------------------------------------------
(***************************************************************************)
(* CliClient.                                                              *)
(***************************************************************************)
Replies == [of : 0..Len(issued), behind : Nat]

CliTypeOK ==
    /\ conn \in Connections /\ doing \in 0..Len(issued) /\ need \in Nat
    /\ issued \in Seq(Kinds)
    /\ reader \in Seq(Replies)
    /\ requests \in [Connections -> Seq(DOMAIN issued)]
    /\ inbox \in [Connections -> Seq(Replies)]
    /\ gone \subseteq Connections /\ subscribed \subseteq Connections /\ listed \subseteq Connections
    /\ shown \in [id : 0..Len(issued), on : 0..MaxConnections, of : 0..Len(issued)]
    /\ executed \in Seq(DOMAIN issued) /\ failed \subseteq DOMAIN issued
    /\ doing # 0 => doing = Len(issued) /\ need >= 1

\* On the connections to come nothing has happened.
AheadInv ==
    /\ subscribed \subseteq 1..conn
    /\ \A n \in Connections : n > conn => requests[n] = <<>> /\ inbox[n] = <<>>

\* A command that waits for the server, on one connection only, is the one being
\* executed, or it failed, or its connection is gone.
RequestsInv ==
    /\ \A n, m \in Connections : \A i \in DOMAIN requests[n], j \in DOMAIN requests[m] :
          requests[n][i] = requests[m][j] => n = m /\ i = j
    /\ \A n \in Connections : ToSet(requests[n]) \cap ToSet(executed) = {}
    /\ \A n \in Connections \ gone : ToSet(requests[n]) \subseteq failed \cup {doing}
    /\ doing # 0 =>
          /\ \A n \in Connections \ {conn} : doing \notin ToSet(requests[n])
          /\ shown.id = doing => doing \in failed \cup ToSet(executed)

\* Lines answer what was executed.
LinesInv ==
    /\ \A r \in ToSet(reader) : r.of \in {0} \cup ToSet(executed)
    /\ \A n \in Connections : \A r \in ToSet(inbox[n]) : r.of \in {0} \cup ToSet(executed)

Coming == reader \o inbox[conn]

NothingThere ==
    /\ Coming = <<>>
    /\ conn \notin gone => requests[conn] = IF doing = 0 THEN <<>> ELSE <<doing>>
    /\ shown.id # doing \/ doing = 0

WholeAnswer ==
    /\ doing # 0 /\ requests[conn] = <<>> /\ shown.id # doing
    /\ Coming = Answer(doing) /\ issued[doing] # "sub"

SecondLine ==
    /\ doing # 0 /\ requests[conn] = <<>> /\ shown.id = doing /\ need = 1
    /\ Coming = <<Line(doing, 0)>>

\* On a connection without deltas and lists nothing is there but what is left
\* of the one answer.
CleanInv ==
    conn \notin subscribed \cup listed => NothingThere \/ WholeAnswer \/ SecondLine

CliInv == CliTypeOK /\ AheadInv /\ RequestsInv /\ LinesInv /\ CleanInv /\ AnswersMatch /\ OrderKept
-----------------------------------------------------------------------------
\* Sequences that are joined and split.
LEMMA ConcatIs ==
    ASSUME NEW S, NEW s \in Seq(S), NEW u \in Seq(S)
    PROVE  /\ s \o u \in Seq(S) /\ Len(s \o u) = Len(s) + Len(u) /\ Len(s) \in Nat /\ Len(u) \in Nat
           /\ DOMAIN (s \o u) = 1..(Len(s) + Len(u)) /\ DOMAIN s = 1..Len(s) /\ DOMAIN u = 1..Len(u)
           /\ \A i \in 1..Len(s) : (s \o u)[i] = s[i]
           /\ \A i \in 1..Len(u) : (s \o u)[Len(s) + i] = u[i]
  OBVIOUS

LEMMA ConcatSet ==
    ASSUME NEW S, NEW s \in Seq(S), NEW u \in Seq(S)
    PROVE  \A x \in ToSet(s \o u) : x \in ToSet(s) \/ x \in ToSet(u)
<1> DEFINE all == s \o u
<1>1. /\ Len(s) \in Nat /\ Len(u) \in Nat /\ DOMAIN all = 1..(Len(s) + Len(u))
      /\ DOMAIN s = 1..Len(s) /\ DOMAIN u = 1..Len(u)
      /\ \A i \in 1..Len(s) : all[i] = s[i]
      /\ \A i \in 1..Len(u) : all[Len(s) + i] = u[i]
  BY ConcatIs
<1> HIDE DEF all
<1>2. ASSUME NEW i \in DOMAIN all PROVE all[i] \in ToSet(s) \/ all[i] \in ToSet(u)
  <2>1. CASE i <= Len(s)
    BY <1>1, <2>1 DEF ToSet
  <2>2. CASE i > Len(s)
    <3>1. i - Len(s) \in 1..Len(u) /\ i = Len(s) + (i - Len(s))
      BY <1>1, <2>2
    <3>2. all[i] = u[i - Len(s)]
      BY <1>1, <3>1
    <3> QED BY <1>1, <3>1, <3>2 DEF ToSet
  <2> QED BY <1>1, <2>1, <2>2
<1>3. \A x \in ToSet(all) : x \in ToSet(s) \/ x \in ToSet(u)
  BY <1>2 DEF ToSet
<1> QED BY <1>3 DEF all

LEMMA ConcatNothing ==
    ASSUME NEW S, NEW s \in Seq(S), NEW u \in Seq(S)
    PROVE  /\ <<>> \o u = u /\ s \o <<>> = s
           /\ (s \o u = <<>> <=> s = <<>> /\ u = <<>>)
           /\ s # <<>> => Head(s \o u) = Head(s) /\ Tail(s \o u) = Tail(s) \o u
           /\ s # <<>> /\ Len(s \o u) = 1 => u = <<>> /\ Tail(s) = <<>>
<1>1. <<>> \o u = u /\ s \o <<>> = s
  OBVIOUS
<1>2. s \o u = <<>> <=> s = <<>> /\ u = <<>>
  OBVIOUS
<1>3. s # <<>> => Head(s \o u) = Head(s)
  OBVIOUS
<1>4. s # <<>> => Tail(s \o u) = Tail(s) \o u
  OBVIOUS
<1>5. s # <<>> /\ Len(s \o u) = 1 => u = <<>> /\ Tail(s) = <<>>
  OBVIOUS
<1> QED BY <1>1, <1>2, <1>3, <1>4, <1>5

LEMMA SplitIs ==
    ASSUME NEW S, NEW s \in Seq(S), NEW n \in 1..Len(s)
    PROVE  /\ SubSeq(s, 1, n) \in Seq(S) /\ SubSeq(s, n + 1, Len(s)) \in Seq(S)
           /\ SubSeq(s, 1, n) \o SubSeq(s, n + 1, Len(s)) = s
           /\ ToSet(SubSeq(s, 1, n)) \subseteq ToSet(s)
           /\ ToSet(SubSeq(s, n + 1, Len(s))) \subseteq ToSet(s)
<1>1. SubSeq(s, 1, n) \in Seq(S) /\ SubSeq(s, n + 1, Len(s)) \in Seq(S)
  OBVIOUS
<1>2. SubSeq(s, 1, n) \o SubSeq(s, n + 1, Len(s)) = s
  OBVIOUS
<1>3. ToSet(SubSeq(s, 1, n)) \subseteq ToSet(s)
  BY DEF ToSet
<1>4. ToSet(SubSeq(s, n + 1, Len(s))) \subseteq ToSet(s)
  BY DEF ToSet
<1> QED BY <1>1, <1>2, <1>3, <1>4

\* What response.rs makes of an answer: lines that belong to it.
LEMMA AnswerIs ==
    ASSUME CliTypeOK, NEW id \in DOMAIN issued
    PROVE  /\ id \in 1..Len(issued) /\ Len(issued) \in Nat /\ issued[id] \in AllKinds
           /\ Answer(id) \in Seq(Replies) /\ \A r \in ToSet(Answer(id)) : r.of = id
           /\ Answer(id) # <<>> /\ Head(Answer(id)).of = id
           /\ issued[id] = "set" => Answer(id) = <<Line(id, 0)>>
           /\ issued[id] = "get" => Answer(id) = <<Line(id, 1), Line(id, 0)>>
<1>1. id \in 1..Len(issued) /\ Len(issued) \in Nat /\ issued[id] \in AllKinds /\ id \in Nat
  BY CliKindAssumption DEF CliTypeOK
<1>2. \A n \in Nat : Line(id, n) \in Replies /\ Line(id, n).of = id
  BY <1>1 DEF Line, Replies
<1>3. CASE issued[id] \in {"set", "sub"}
  <2>1. Answer(id) = <<Line(id, 0)>>
    BY <1>3 DEF Answer
  <2> QED BY <1>1, <1>2, <1>3, <2>1 DEF ToSet
<1>4. CASE issued[id] = "get"
  <2>1. Answer(id) = <<Line(id, 1), Line(id, 0)>>
    BY <1>4 DEF Answer
  <2> QED BY <1>1, <1>2, <1>4, <2>1 DEF ToSet
<1>5. CASE issued[id] = "keys"
  <2> DEFINE more == [i \in 1..2 * Keys |-> Line(id, IF i % 2 = 1 THEN 1 ELSE 0)]
             one == <<Line(id, Keys)>>
  <2>1. Answer(id) = one \o more
    BY <1>5 DEF Answer
  <2>2. 2 * Keys \in Nat /\ Keys \in Nat
    BY CliBoundAssumption
  <2>3. /\ more \in Seq(Replies) /\ DOMAIN more = 1..2 * Keys
        /\ \A i \in DOMAIN more : more[i].of = id
    BY <1>2, <2>2
  <2>4. one \in Seq(Replies) /\ one # <<>> /\ Head(one).of = id /\ DOMAIN one = {1} /\ one[1].of = id
    BY <1>2, <2>2
  <2> HIDE DEF one, more
  <2>5. Answer(id) \in Seq(Replies) /\ Answer(id) # <<>> /\ Head(Answer(id)).of = id
    BY <2>1, <2>3, <2>4, ConcatNothing
  <2>6. \A r \in ToSet(Answer(id)) : r.of = id
    <3>1. \A r \in ToSet(one) : r.of = id
      BY <2>4 DEF ToSet
    <3>2. \A r \in ToSet(more) : r.of = id
      BY <2>3 DEF ToSet
    <3> QED BY <2>1, <2>3, <2>4, <3>1, <3>2, ConcatSet
  <2> QED BY <1>1, <1>5, <2>5, <2>6
<1> QED BY <1>1, <1>3, <1>4, <1>5 DEF AllKinds

-----------------------------------------------------------------------------
\* The steps keep the types.
LEMMA FailTyped ==
    ASSUME CliTypeOK, NEW id \in Nat, Fail(id)
    PROVE  /\ conn' = conn + 1 /\ conn' \in Connections /\ conn \in Nat
           /\ requests' = requests /\ doing' = 0 /\ need' = 0 /\ reader' = <<>>
           /\ failed' = failed \cup {id}
           /\ \A n \in Connections : n > conn' => n > conn
  BY CliBoundAssumption DEF CliTypeOK, Fail, Connections

LEMMA RequestsTyped ==
    ASSUME CliTypeOK, NEW n \in Connections
    PROVE  /\ requests[n] \in Seq(DOMAIN issued) /\ requests[n] \in Seq(Nat)
           /\ ToSet(requests[n]) \subseteq DOMAIN issued
           /\ DOMAIN issued = 1..Len(issued) /\ Len(issued) \in Nat /\ DOMAIN issued \subseteq Nat
           /\ ToSet(executed) \subseteq DOMAIN issued
           /\ requests[n] # <<>> => Head(requests[n]) \in DOMAIN issued
<1>1. DOMAIN issued = 1..Len(issued) /\ Len(issued) \in Nat /\ DOMAIN issued \subseteq Nat
  BY DEF CliTypeOK
<1>2. requests[n] \in Seq(DOMAIN issued) /\ executed \in Seq(DOMAIN issued)
  BY DEF CliTypeOK
<1>3. \A q \in Seq(DOMAIN issued) : q \in Seq(Nat) /\ ToSet(q) \subseteq DOMAIN issued
  BY <1>1 DEF ToSet
<1> QED BY <1>1, <1>2, <1>3, TailIs

LEMMA ReadTyped ==
    ASSUME CliTypeOK, reader # <<>>
    PROVE  /\ Head(reader) \in Replies /\ Head(reader) \in ToSet(reader)
           /\ Tail(reader) \in Seq(Replies) /\ ToSet(Tail(reader)) \subseteq ToSet(reader)
<1>1. reader \in Seq(Replies)
  BY DEF CliTypeOK
<1> QED BY <1>1, TailIs, TailSet

LEMMA FillTyped ==
    ASSUME CliTypeOK, NEW n \in 1..Len(inbox[conn]), Fill(n)
    PROVE  /\ reader = <<>> /\ reader' \in Seq(Replies) /\ inbox'[conn] \in Seq(Replies)
           /\ reader' \o inbox'[conn] = inbox[conn]
           /\ ToSet(reader') \subseteq ToSet(inbox[conn])
           /\ ToSet(inbox'[conn]) \subseteq ToSet(inbox[conn])
           /\ \A m \in Connections \ {conn} : inbox'[m] = inbox[m]
           /\ DOMAIN inbox' = Connections
           /\ inbox' = [inbox EXCEPT ![conn] = inbox'[conn]]
<1>1. inbox[conn] \in Seq(Replies) /\ conn \in Connections /\ DOMAIN inbox = Connections
  BY DEF CliTypeOK
<1>2. /\ reader = <<>> /\ reader' = SubSeq(inbox[conn], 1, n)
      /\ inbox'[conn] = SubSeq(inbox[conn], n + 1, Len(inbox[conn]))
      /\ \A m \in Connections \ {conn} : inbox'[m] = inbox[m]
      /\ DOMAIN inbox' = Connections
      /\ inbox' = [inbox EXCEPT ![conn] = inbox'[conn]]
  BY <1>1 DEF Fill, CliTypeOK
<1> DEFINE first == SubSeq(inbox[conn], 1, n)
           rest == SubSeq(inbox[conn], n + 1, Len(inbox[conn]))
<1>3. /\ first \in Seq(Replies) /\ rest \in Seq(Replies) /\ first \o rest = inbox[conn]
      /\ ToSet(first) \subseteq ToSet(inbox[conn]) /\ ToSet(rest) \subseteq ToSet(inbox[conn])
  BY <1>1, SplitIs
<1>4. reader' = first /\ inbox'[conn] = rest
  BY <1>2
<1> HIDE DEF first, rest
<1> QED BY <1>2, <1>3, <1>4

LEMMA CliTypeKeeps == CliTypeOK /\ [CliNext]_cliVars => CliTypeOK'
<1> SUFFICES ASSUME CliTypeOK, [CliNext]_cliVars PROVE CliTypeOK'
  OBVIOUS
<1>0. /\ conn \in Connections /\ conn \in Nat /\ Len(issued) \in Nat /\ DOMAIN issued = 1..Len(issued)
      /\ doing \in Nat /\ <<>> \in Seq(Replies)
  BY DEF CliTypeOK, Connections
<1>a. /\ doing \in 0..Len(issued) /\ 0 \in 0..Len(issued) /\ conn \in 0..MaxConnections
       /\ failed \subseteq DOMAIN issued
  <2>1. conn \in 1..MaxConnections /\ doing \in 0..Len(issued) /\ failed \subseteq DOMAIN issued
    BY DEF CliTypeOK, Connections
  <2>2. MaxConnections \in Nat
    BY CliBoundAssumption
  <2>3. conn \in 0..MaxConnections
    BY <2>1, <2>2
  <2> QED BY <1>0, <2>1, <2>3
<1>1. ASSUME NEW kind \in Kinds, Execute(kind) PROVE CliTypeOK'
  <2> DEFINE id == Len(issued) + 1
             Grown == [of : 0..id, behind : Nat]
  <2>1. /\ issued' = Append(issued, kind) /\ issued' \in Seq(Kinds) /\ Len(issued') = id
        /\ DOMAIN issued' = 1..id
    BY <1>1, AppendIs DEF Execute, CliTypeOK
  <2>2. Replies' = Grown
    BY <2>1 DEF Replies
  <2>3. /\ \A q \in Seq(Replies) : q \in Seq(Grown)
        /\ \A q \in Seq(DOMAIN issued) : q \in Seq(1..id)
        /\ 0..Len(issued) \subseteq 0..id /\ DOMAIN issued \subseteq 1..id /\ id \in 1..id /\ id \in Nat
    <3>1. 0..Len(issued) \subseteq 0..id /\ DOMAIN issued \subseteq 1..id /\ id \in 1..id /\ id \in Nat
      BY <1>0
    <3> HIDE DEF id
    <3>2. Replies \subseteq Grown
      BY <3>1 DEF Replies
    <3> HIDE DEF Grown
    <3> QED BY <3>1, <3>2
  <2>4. UNCHANGED <<inbox, gone, deltas, subscribed, shown, executed, listed>>
    BY <1>1 DEF Execute
  <2> HIDE DEF id, Grown
  <2>5. /\ inbox' \in [Connections -> Seq(Grown)] /\ executed' \in Seq(1..id)
        /\ shown' \in [id : 0..id, on : 0..MaxConnections, of : 0..id]
        /\ requests \in [Connections -> Seq(1..id)] /\ reader \in Seq(Grown)
        /\ <<>> \in Seq(Grown)
    BY <2>3, <2>4 DEF CliTypeOK
  <2>6. /\ gone' \subseteq Connections /\ subscribed' \subseteq Connections
        /\ listed' \subseteq Connections
    BY <2>4 DEF CliTypeOK
  <2>7. CASE /\ doing' = id /\ need' = 1 /\ reader' = <<>>
             /\ requests' = [requests EXCEPT ![conn] = Append(@, id)]
             /\ UNCHANGED <<conn, failed>>
    <3>1. Append(requests[conn], id) \in Seq(1..id)
      BY <1>0, <2>3, <2>5, AppendIs
    <3>2. requests' \in [Connections -> Seq(1..id)]
      BY <2>5, <2>7, <3>1
    <3>3. /\ conn' \in Connections /\ need' \in Nat /\ need' >= 1 /\ reader' \in Seq(Grown)
      BY <1>0, <2>5, <2>7
    <3>4. doing' = id /\ doing' \in 0..id
      BY <2>3, <2>7
    <3>5. failed' \subseteq 1..id
      BY <2>3, <2>7 DEF CliTypeOK
    <3> QED BY <2>1, <2>2, <2>5, <2>6, <3>2, <3>3, <3>4, <3>5 DEF CliTypeOK
  <2>8. CASE Fail(id)
    <3>1. /\ conn' \in Connections /\ requests' = requests /\ doing' = 0 /\ need' = 0 /\ reader' = <<>>
          /\ failed' = failed \cup {id}
      BY <2>3, <2>8, FailTyped
    <3>2. failed' \subseteq 1..id /\ 0 \in 0..id /\ 0 \in Nat
      BY <2>3, <3>1 DEF CliTypeOK
    <3> QED BY <2>1, <2>2, <2>5, <2>6, <3>1, <3>2 DEF CliTypeOK
  <2> QED BY <1>1, <2>7, <2>8 DEF Execute, id
<1>2. ASSUME NEW n \in 1..Len(inbox[conn]), Fill(n) PROVE CliTypeOK'
  <2>1. /\ reader' \in Seq(Replies) /\ inbox'[conn] \in Seq(Replies)
        /\ \A m \in Connections \ {conn} : inbox'[m] = inbox[m]
        /\ DOMAIN inbox' = Connections
        /\ inbox' = [inbox EXCEPT ![conn] = inbox'[conn]]
    BY <1>2, FillTyped
  <2>2. inbox' \in [Connections -> Seq(Replies)]
    BY <2>1 DEF CliTypeOK
  <2> QED BY <1>2, <2>1, <2>2 DEF Fill, CliTypeOK, Replies
<1>3. CASE ReadLine
  <2>1. Head(reader) \in Replies /\ Tail(reader) \in Seq(Replies)
    BY <1>3, ReadTyped DEF ReadLine
  <2>2. Head(reader).of \in 0..Len(issued) /\ Head(reader).behind \in Nat
    BY <2>1 DEF Replies
  <2>3. doing # 0 /\ doing \in 0..Len(issued) /\ doing = Len(issued) /\ doing \in DOMAIN issued
    BY <1>0, <1>3 DEF ReadLine, CliTypeOK
  <2>4. shown' \in [id : 0..Len(issued), on : 0..MaxConnections, of : 0..Len(issued)]
    <3>1. Shows(Head(reader).of) \in [id : 0..Len(issued), on : 0..MaxConnections, of : 0..Len(issued)]
      BY <1>0, <2>2, <2>3, CliBoundAssumption DEF Shows, Connections
    <3> QED BY <1>3, <3>1 DEF ReadLine, CliTypeOK
  <2>5. need' \in Nat /\ (need' # 0 => need' >= 1) /\ (doing' # 0 => doing' = doing /\ need' # 0)
    <3>1. need \in Nat /\ need >= 1
      BY <2>3 DEF CliTypeOK
    <3>2. need' = (IF shown.id # doing THEN Head(reader).behind ELSE need - 1)
          /\ doing' = IF need' = 0 THEN 0 ELSE doing
      BY <1>3 DEF ReadLine
    <3>3. need' \in Nat /\ (need' # 0 => need' >= 1)
      BY <2>2, <3>1, <3>2
    <3> QED BY <3>2, <3>3
  <2>6. reader' \in Seq(Replies) /\ listed' \subseteq Connections /\ failed' \subseteq DOMAIN issued
    BY <1>0, <1>3, <2>1, <2>3 DEF ReadLine, CliTypeOK
  <2>7. doing' \in 0..Len(issued)
    BY <1>3, <2>3 DEF ReadLine
  <2>8. UNCHANGED <<conn, issued, requests, inbox, gone, deltas, subscribed, executed>>
    BY <1>3 DEF ReadLine
  <2> QED BY <2>3, <2>4, <2>5, <2>6, <2>7, <2>8 DEF CliTypeOK, Replies
<1>4. ASSUME doing # 0, Fail(doing), UNCHANGED <<issued, inbox, gone, subscribed, executed, listed>>,
             shown' = shown
      PROVE  CliTypeOK'
  <2>1. doing \in DOMAIN issued
    BY <1>0, <1>4 DEF CliTypeOK
  <2>2. /\ conn' \in Connections /\ requests' = requests /\ doing' = 0 /\ need' = 0 /\ reader' = <<>>
        /\ failed' = failed \cup {doing}
    BY <1>0, <1>4, FailTyped
  <2>3. failed' \subseteq DOMAIN issued /\ doing' \in 0..Len(issued) /\ need' \in Nat
    BY <1>a, <2>1, <2>2
  <2>4. Replies' = Replies
    BY <1>4 DEF Replies
  <2> QED BY <1>0, <1>4, <2>2, <2>3, <2>4 DEF CliTypeOK
<1>5. CASE EndOfStream
  <2>1. doing # 0 /\ UNCHANGED <<issued, inbox, gone, deltas, subscribed, executed, listed>>
    BY <1>5 DEF EndOfStream
  <2>2. CASE Fail(doing) /\ UNCHANGED shown
    BY <1>4, <2>1, <2>2
  <2>3. CASE /\ shown' = IF shown.id # doing THEN Shows(0) ELSE shown
             /\ doing' = 0 /\ need' = 0 /\ UNCHANGED <<conn, requests, failed, reader>>
    <3>1. shown' \in [id : 0..Len(issued), on : 0..MaxConnections, of : 0..Len(issued)]
      <4>1. Shows(0) \in [id : 0..Len(issued), on : 0..MaxConnections, of : 0..Len(issued)]
        BY <1>a DEF Shows
      <4>2. shown \in [id : 0..Len(issued), on : 0..MaxConnections, of : 0..Len(issued)]
        BY DEF CliTypeOK
      <4> QED BY <2>3, <4>1, <4>2
    <3>2. doing' \in 0..Len(issued) /\ need' \in Nat /\ doing' = 0 /\ Replies' = Replies
      BY <1>0, <2>1, <2>3 DEF Replies
    <3> QED BY <2>1, <2>3, <3>1, <3>2 DEF CliTypeOK
  <2> QED BY <1>5, <2>2, <2>3 DEF EndOfStream
<1>6. CASE ReadTimeout
  BY <1>4, <1>6 DEF ReadTimeout
<1>7. ASSUME NEW n \in Connections, ServerExecutes(n) PROVE CliTypeOK'
  <2>1. /\ requests[n] # <<>> /\ requests[n] \in Seq(DOMAIN issued)
        /\ Head(requests[n]) \in DOMAIN issued
    BY <1>7, RequestsTyped DEF ServerExecutes
  <2>2. Tail(requests[n]) \in Seq(DOMAIN issued)
    BY <2>1, TailIs
  <2>3. requests' \in [Connections -> Seq(DOMAIN issued)]
    BY <1>7, <2>2 DEF ServerExecutes, CliTypeOK
  <2>4. Answer(Head(requests[n])) \in Seq(Replies)
    BY <2>1, AnswerIs
  <2>5. inbox[n] \o Answer(Head(requests[n])) \in Seq(Replies)
    BY <2>4, ConcatIs DEF CliTypeOK
  <2>6. inbox' \in [Connections -> Seq(Replies)]
    BY <1>7, <2>5 DEF ServerExecutes, CliTypeOK
  <2>7. executed' \in Seq(DOMAIN issued)
    BY <1>7, <2>1, AppendIs DEF ServerExecutes, CliTypeOK
  <2>8. subscribed' \subseteq Connections
    BY <1>7 DEF ServerExecutes, CliTypeOK
  <2>9. UNCHANGED <<conn, doing, need, reader, issued, gone, deltas, shown, failed, listed>>
    BY <1>7 DEF ServerExecutes
  <2> QED BY <2>3, <2>6, <2>7, <2>8, <2>9 DEF CliTypeOK, Replies
<1>10. ASSUME NEW n \in Connections, Publish(n) PROVE CliTypeOK'
  <2>1. Line(0, 0) \in Replies
    BY <1>0 DEF Line, Replies
  <2>2. Append(inbox[n], Line(0, 0)) \in Seq(Replies)
    BY <2>1, AppendIs DEF CliTypeOK
  <2>3. inbox' \in [Connections -> Seq(Replies)]
    BY <1>10, <2>2 DEF Publish, CliTypeOK
  <2> QED BY <1>10, <2>3 DEF Publish, CliTypeOK, Replies
<1>8. ASSUME NEW n \in Connections, Close(n) PROVE CliTypeOK'
  BY <1>8 DEF Close, CliTypeOK, Replies
<1>9. CASE UNCHANGED cliVars
  BY <1>9 DEF cliVars, CliTypeOK, Replies
<1> QED BY <1>1, <1>2, <1>3, <1>4, <1>5, <1>6, <1>7, <1>8, <1>9, <1>10 DEF CliNext

LEMMA AheadKeeps == CliTypeOK /\ AheadInv /\ [CliNext]_cliVars => AheadInv'
<1> SUFFICES ASSUME CliTypeOK, AheadInv, [CliNext]_cliVars PROVE AheadInv'
  OBVIOUS
<1>0. /\ conn \in Nat /\ Connections \subseteq Nat /\ DOMAIN requests = Connections
      /\ DOMAIN inbox = Connections
      /\ \A n \in subscribed : n \in 1..conn
      /\ \A n \in Connections : n > conn => requests[n] = <<>> /\ inbox[n] = <<>>
  BY DEF CliTypeOK, AheadInv, Connections
<1>1. ASSUME conn' = conn + 1, UNCHANGED <<requests, inbox, subscribed>> PROVE AheadInv'
  <2>1. \A n \in 1..conn : n \in 1..(conn + 1)
    BY <1>0
  <2>2. \A n \in Connections : n > conn + 1 => n > conn
    BY <1>0
  <2> QED BY <1>0, <1>1, <2>1, <2>2 DEF AheadInv
<1>2. ASSUME conn' = conn, subscribed' = subscribed, NEW m \in Connections, m <= conn,
             \A n \in Connections \ {m} : requests'[n] = requests[n] /\ inbox'[n] = inbox[n]
      PROVE  AheadInv'
  <2>1. ASSUME NEW n \in Connections, n > conn PROVE requests'[n] = <<>> /\ inbox'[n] = <<>>
    <3>1. n # m
      BY <1>0, <1>2, <2>1
    <3> QED BY <1>0, <1>2, <2>1, <3>1
  <2> QED BY <1>0, <1>2, <2>1 DEF AheadInv
<1>3. conn \in Connections /\ conn <= conn
  BY <1>0 DEF CliTypeOK
<1>4. ASSUME NEW kind \in Kinds, Execute(kind) PROVE AheadInv'
  <2>1. inbox' = inbox /\ subscribed' = subscribed
    BY <1>4 DEF Execute
  <2>2. CASE Fail(Len(issued) + 1)
    BY <1>1, <2>1, <2>2 DEF Fail
  <2>3. CASE /\ conn' = conn
             /\ requests' = [requests EXCEPT ![conn] = Append(@, Len(issued) + 1)]
    <3>1. \A n \in Connections \ {conn} : requests'[n] = requests[n]
      BY <1>0, <2>3
    <3> QED BY <1>2, <1>3, <2>1, <2>3, <3>1
  <2> QED BY <1>4, <2>2, <2>3 DEF Execute
<1>5. ASSUME NEW n \in 1..Len(inbox[conn]), Fill(n) PROVE AheadInv'
  <2>1. \A m \in Connections \ {conn} : inbox'[m] = inbox[m]
    BY <1>5, FillTyped
  <2> QED BY <1>2, <1>3, <1>5, <2>1 DEF Fill
<1>6. CASE UNCHANGED <<conn, subscribed, requests, inbox>>
  BY <1>2, <1>3, <1>6
<1>7. CASE EndOfStream
  BY <1>1, <1>6, <1>7 DEF EndOfStream, Fail
<1>8. CASE ReadTimeout
  BY <1>1, <1>8 DEF ReadTimeout, Fail
<1>9. ASSUME NEW n \in Connections, ServerExecutes(n) PROVE AheadInv'
  <2>1. n <= conn
    BY <1>0, <1>9 DEF ServerExecutes
  <2>2. \A m \in Connections \ {n} : requests'[m] = requests[m] /\ inbox'[m] = inbox[m]
    BY <1>0, <1>9 DEF ServerExecutes
  <2>3. \A m \in Connections : m > conn => requests'[m] = <<>> /\ inbox'[m] = <<>>
    <3>1. \A m \in Connections : m > conn => m # n
      BY <1>0, <2>1
    <3> QED BY <1>0, <2>2, <3>1
  <2>4. conn' = conn /\ subscribed' \subseteq subscribed \cup {n}
    BY <1>9 DEF ServerExecutes
  <2>5. n \in 1..conn
    BY <1>0, <2>1 DEF Connections
  <2> QED BY <1>0, <2>3, <2>4, <2>5 DEF AheadInv
<1>10. ASSUME NEW n \in Connections, Publish(n) PROVE AheadInv'
  <2>1. n <= conn /\ conn' = conn /\ subscribed' = subscribed /\ requests' = requests
    BY <1>0, <1>10 DEF Publish
  <2>2. \A m \in Connections \ {n} : inbox'[m] = inbox[m]
    BY <1>0, <1>10 DEF Publish
  <2> QED BY <1>2, <2>1, <2>2
<1> QED
  BY <1>4, <1>5, <1>6, <1>7, <1>8, <1>9, <1>10 DEF CliNext, ReadLine, Close, cliVars
-----------------------------------------------------------------------------
\* What the client has read of an answer shows that the server executed the
\* command, or the command counts as failed.
LEMMA ReadSettles ==
    ASSUME CliTypeOK, RequestsInv, LinesInv, ReadLine
    PROVE  doing \in failed' \cup ToSet(executed)
<1>1. doing # 0 /\ reader # <<>> /\ Head(reader) \in ToSet(reader)
  BY ReadTyped DEF ReadLine
<1>2. CASE shown.id = doing
  BY <1>1, <1>2 DEF RequestsInv, ReadLine
<1>3. CASE shown.id # doing /\ Head(reader).of # doing
  BY <1>3 DEF ReadLine
<1>4. CASE Head(reader).of = doing
  BY <1>1, <1>4 DEF LinesInv
<1> QED BY <1>2, <1>3, <1>4

\* The requests, when the server executes nothing and the client sends nothing.
LEMMA RequestsQuiet ==
    ASSUME CliTypeOK, RequestsInv, UNCHANGED <<requests, executed>>,
           gone \subseteq gone', failed \subseteq failed',
           \/ /\ doing' = doing /\ conn' = conn
              /\ doing # 0 /\ shown'.id = doing => doing \in failed' \cup ToSet(executed)
           \/ /\ doing' = 0
              /\ doing # 0 =>
                    doing \in failed' \/ doing \notin ToSet(requests[conn]) \/ conn \in gone'
    PROVE  RequestsInv'
<1>1. \A n \in Connections \ gone : ToSet(requests[n]) \subseteq failed \cup {doing}
  BY DEF RequestsInv
<1>2. ASSUME NEW n \in Connections PROVE 0 \notin ToSet(requests[n])
  <2>1. ToSet(requests[n]) \subseteq DOMAIN issued /\ DOMAIN issued = 1..Len(issued)
    BY RequestsTyped
  <2> QED BY <2>1
<1>3. \A n \in Connections \ gone' : ToSet(requests[n]) \subseteq failed' \cup {doing'}
  <2> SUFFICES ASSUME NEW n \in Connections \ gone', NEW x \in ToSet(requests[n])
               PROVE  x \in failed' \cup {doing'}
    OBVIOUS
  <2>1. x \in failed' \/ (x = doing /\ x # 0)
    BY <1>1, <1>2
  <2>2. CASE x = doing /\ x # 0
    <3>1. n = conn
      BY <2>2 DEF RequestsInv
    <3> QED BY <2>2, <3>1
  <2> QED BY <2>1, <2>2
<1>4. doing' # 0 =>
         /\ \A n \in Connections \ {conn'} : doing' \notin ToSet(requests[n])
         /\ shown'.id = doing' => doing' \in failed' \cup ToSet(executed)
  BY DEF RequestsInv
<1> QED BY <1>3, <1>4 DEF RequestsInv

LEMMA RequestsKeep ==
    CliTypeOK /\ RequestsInv /\ LinesInv /\ [CliNext]_cliVars => RequestsInv'
<1> SUFFICES ASSUME CliTypeOK, RequestsInv, LinesInv, [CliNext]_cliVars PROVE RequestsInv'
  OBVIOUS
<1>0. /\ conn \in Connections /\ DOMAIN requests = Connections
      /\ DOMAIN issued = 1..Len(issued) /\ Len(issued) \in Nat
      /\ shown.id \in 0..Len(issued)
      /\ failed \subseteq DOMAIN issued
  BY DEF CliTypeOK
<1>1. ASSUME NEW kind \in Kinds, Execute(kind) PROVE RequestsInv'
  <2> DEFINE id == Len(issued) + 1
  <2>1. doing = 0 /\ UNCHANGED <<gone, executed, shown>>
    BY <1>1 DEF Execute
  <2>2. CASE Fail(id)
    BY <2>1, <2>2, RequestsQuiet DEF Fail
  <2>3. CASE /\ doing' = id /\ requests' = [requests EXCEPT ![conn] = Append(@, id)]
             /\ UNCHANGED <<conn, failed>>
    <3>1. /\ id \in Nat /\ id # 0 /\ id \notin DOMAIN issued /\ shown.id # id
      BY <1>0
    <3> HIDE DEF id
    <3>2. \A n \in Connections :
             /\ requests[n] \in Seq(Nat) /\ ToSet(requests[n]) \subseteq DOMAIN issued
             /\ DOMAIN requests[n] = 1..Len(requests[n]) /\ Len(requests[n]) \in Nat
             /\ \A i \in DOMAIN requests[n] : requests[n][i] # id
      BY <3>1, RequestsTyped DEF ToSet
    <3>3. /\ requests'[conn] = Append(requests[conn], id)
          /\ \A n \in Connections \ {conn} : requests'[n] = requests[n]
      BY <1>0, <2>3
    <3>4. ToSet(requests'[conn]) = ToSet(requests[conn]) \cup {id}
      BY <1>0, <3>1, <3>2, <3>3, AppendSet
    <3>5. /\ DOMAIN requests'[conn] = 1..(Len(requests[conn]) + 1)
          /\ \A i \in 1..Len(requests[conn]) : requests'[conn][i] = requests[conn][i]
          /\ requests'[conn][Len(requests[conn]) + 1] = id
      BY <1>0, <3>1, <3>2, <3>3, AppendIs
    <3>6. ASSUME NEW n \in Connections, NEW i \in DOMAIN requests'[n]
          PROVE  \/ i \in DOMAIN requests[n] /\ requests'[n][i] = requests[n][i]
                 \/ n = conn /\ i = Len(requests[conn]) + 1 /\ requests'[n][i] = id
      <4>1. CASE n # conn
        BY <3>3, <3>6, <4>1
      <4>2. CASE n = conn
        <5>1. DOMAIN requests[conn] = 1..Len(requests[conn]) /\ Len(requests[conn]) \in Nat
          BY <1>0, <3>2
        <5>2. i \in 1..(Len(requests[conn]) + 1)
          BY <3>5, <3>6, <4>2
        <5>3. i \in 1..Len(requests[conn]) \/ i = Len(requests[conn]) + 1
          BY <5>1, <5>2
        <5> QED BY <3>5, <4>2, <5>1, <5>3
      <4> QED BY <4>1, <4>2
    <3>7. ASSUME NEW n \in Connections, NEW m \in Connections,
                 NEW i \in DOMAIN requests'[n], NEW j \in DOMAIN requests'[m],
                 requests'[n][i] = requests'[m][j]
          PROVE  n = m /\ i = j
      <4>1. CASE i \in DOMAIN requests[n] /\ j \in DOMAIN requests[m] /\ requests'[n][i] # id
        BY <3>6, <3>7, <4>1 DEF RequestsInv
      <4>2. CASE requests'[n][i] = id
        <5>1. n = conn /\ i = Len(requests[conn]) + 1
          BY <3>2, <3>6, <4>2
        <5>2. requests'[m][j] = id
          BY <3>7, <4>2
        <5>3. m = conn /\ j = Len(requests[conn]) + 1
          BY <3>2, <3>6, <5>2
        <5> QED BY <5>1, <5>3
      <4> QED BY <3>6, <3>7, <4>1, <4>2
    <3>8. ASSUME NEW n \in Connections
          PROVE  /\ ToSet(requests'[n]) \cap ToSet(executed) = {}
                 /\ n # conn => id \notin ToSet(requests'[n])
                 /\ n \notin gone => ToSet(requests'[n]) \subseteq failed \cup {id}
      <4>1. /\ ToSet(requests[n]) \cap ToSet(executed) = {}
            /\ n \notin gone => ToSet(requests[n]) \subseteq failed \cup {doing}
        BY DEF RequestsInv
      <4>2. doing \notin ToSet(requests[n]) /\ id \notin ToSet(executed) /\ id \notin ToSet(requests[n])
        <5>1. ToSet(requests[n]) \subseteq DOMAIN issued /\ ToSet(executed) \subseteq DOMAIN issued
          BY RequestsTyped
        <5>2. 0 \notin DOMAIN issued
          BY <1>0
        <5> QED BY <2>1, <3>1, <5>1, <5>2
      <4>3. CASE n = conn
        BY <2>1, <3>4, <4>1, <4>2, <4>3
      <4>4. CASE n # conn
        BY <2>1, <3>3, <4>1, <4>2, <4>4
      <4> QED BY <4>3, <4>4
    <3> QED BY <2>1, <2>3, <3>1, <3>7, <3>8 DEF RequestsInv
  <2> QED BY <1>1, <2>2, <2>3 DEF Execute
<1>2. ASSUME NEW n \in 1..Len(inbox[conn]), Fill(n) PROVE RequestsInv'
  BY <1>2, RequestsQuiet DEF Fill, RequestsInv
<1>3. CASE ReadLine
  <2>1. doing \in failed' \cup ToSet(executed)
    BY <1>3, ReadSettles
  <2>2. ToSet(requests[conn]) \cap ToSet(executed) = {}
    BY <1>0 DEF RequestsInv
  <2>3. /\ UNCHANGED <<requests, executed, gone, conn>> /\ failed \subseteq failed'
        /\ doing' = doing \/ doing' = 0
    BY <1>3 DEF ReadLine
  <2> QED BY <2>1, <2>2, <2>3, RequestsQuiet
<1>4. CASE EndOfStream
  <2>1. UNCHANGED <<executed, gone>> /\ conn \in gone
    BY <1>4 DEF EndOfStream
  <2>2. CASE Fail(doing)
    BY <2>1, <2>2, RequestsQuiet DEF Fail
  <2>3. CASE doing' = 0 /\ UNCHANGED <<requests, failed>>
    BY <2>1, <2>3, RequestsQuiet
  <2> QED BY <1>4, <2>2, <2>3 DEF EndOfStream
<1>5. CASE ReadTimeout
  BY <1>5, RequestsQuiet DEF ReadTimeout, Fail
<1>6. ASSUME NEW n \in Connections, ServerExecutes(n) PROVE RequestsInv'
  <2> DEFINE x == Head(requests[n])
  <2>1. /\ requests[n] # <<>> /\ requests[n] \in Seq(DOMAIN issued)
        /\ executed' = Append(executed, x) /\ x \in DOMAIN issued
        /\ UNCHANGED <<conn, doing, gone, failed, shown>>
    BY <1>6, RequestsTyped DEF ServerExecutes
  <2>2. ToSet(executed') = ToSet(executed) \cup {x}
    BY <2>1, AppendSet DEF CliTypeOK
  <2>3. /\ Len(requests[n]) \in Nat \ {0} /\ DOMAIN requests[n] = 1..Len(requests[n])
        /\ DOMAIN Tail(requests[n]) = 1..(Len(requests[n]) - 1)
        /\ \A i \in 1..(Len(requests[n]) - 1) : Tail(requests[n])[i] = requests[n][i + 1]
        /\ x = requests[n][1] /\ ToSet(requests[n]) = {x} \cup ToSet(Tail(requests[n]))
    BY <2>1, TailIs, TailSet
  <2>4. /\ requests'[n] = Tail(requests[n])
        /\ \A m \in Connections \ {n} : requests'[m] = requests[m]
    BY <1>0, <1>6 DEF ServerExecutes
  <2> HIDE DEF x
  <2>5. ASSUME NEW m \in Connections, NEW i \in DOMAIN requests'[m]
        PROVE  /\ m = n => i + 1 \in DOMAIN requests[n] /\ requests'[m][i] = requests[n][i + 1]
               /\ m # n => i \in DOMAIN requests[m] /\ requests'[m][i] = requests[m][i]
               /\ m = n => i \in Nat /\ i >= 1
    <3>1. CASE m # n
      BY <2>4, <2>5, <3>1
    <3>2. CASE m = n
      <4>1. i \in 1..(Len(requests[n]) - 1) /\ requests'[m][i] = Tail(requests[n])[i]
        BY <2>3, <2>4, <2>5, <3>2
      <4>2. i \in Nat /\ i >= 1 /\ i + 1 \in 1..Len(requests[n])
        BY <2>3, <4>1
      <4>3. requests'[m][i] = requests[n][i + 1] /\ i + 1 \in DOMAIN requests[n]
        BY <2>3, <4>1, <4>2
      <4> QED BY <3>2, <4>2, <4>3
    <3> QED BY <3>1, <3>2
  <2>6. ASSUME NEW m \in Connections, NEW k \in Connections,
               NEW i \in DOMAIN requests'[m], NEW j \in DOMAIN requests'[k],
               requests'[m][i] = requests'[k][j]
        PROVE  m = k /\ i = j
    <3>1. CASE m # n /\ k # n
      BY <2>5, <2>6, <3>1 DEF RequestsInv
    <3>2. CASE m = n /\ k = n
      <4>1. i + 1 = j + 1
        BY <2>5, <2>6, <3>2 DEF RequestsInv
      <4> QED BY <2>5, <3>2, <4>1
    <3>3. CASE m = n /\ k # n
      BY <2>5, <2>6, <3>3 DEF RequestsInv
    <3>4. CASE m # n /\ k = n
      BY <2>5, <2>6, <3>4 DEF RequestsInv
    <3> QED BY <3>1, <3>2, <3>3, <3>4
  <2>7. ASSUME NEW m \in Connections PROVE x \notin ToSet(requests'[m])
    <3>1. ASSUME NEW i \in DOMAIN requests'[m] PROVE requests'[m][i] # x
      <4>1. CASE m = n
        <5>1. 1 \in DOMAIN requests[n] /\ i + 1 \in DOMAIN requests[n] /\ i + 1 # 1
          BY <2>3, <2>5, <4>1
        <5> QED BY <2>3, <2>5, <4>1, <5>1 DEF RequestsInv
      <4>2. CASE m # n
        <5>1. 1 \in DOMAIN requests[n]
          BY <2>3
        <5> QED BY <2>3, <2>5, <4>2, <5>1 DEF RequestsInv
      <4> QED BY <4>1, <4>2
    <3> QED BY <3>1 DEF ToSet
  <2>8. \A m \in Connections : ToSet(requests'[m]) \subseteq ToSet(requests[m])
    BY <2>3, <2>4
  <2>9. \A m \in Connections : ToSet(requests'[m]) \cap ToSet(executed') = {}
    BY <2>2, <2>7, <2>8 DEF RequestsInv
  <2>10. \A m \in Connections \ gone : ToSet(requests'[m]) \subseteq failed \cup {doing}
    BY <2>8 DEF RequestsInv
  <2>11. doing # 0 =>
           /\ \A m \in Connections \ {conn} : doing \notin ToSet(requests'[m])
           /\ shown.id = doing => doing \in failed \cup ToSet(executed')
    BY <2>2, <2>8 DEF RequestsInv
  <2> QED BY <2>1, <2>6, <2>9, <2>10, <2>11 DEF RequestsInv
<1>7. ASSUME NEW n \in Connections, Publish(n) PROVE RequestsInv'
  BY <1>7, RequestsQuiet DEF Publish, RequestsInv
<1>8. ASSUME NEW n \in Connections, Close(n) PROVE RequestsInv'
  BY <1>8, RequestsQuiet DEF Close, RequestsInv
<1>9. CASE UNCHANGED cliVars
  BY <1>9, RequestsQuiet DEF cliVars, RequestsInv
<1> QED BY <1>1, <1>2, <1>3, <1>4, <1>5, <1>6, <1>7, <1>8, <1>9 DEF CliNext

LEMMA LinesKeep == CliTypeOK /\ LinesInv /\ [CliNext]_cliVars => LinesInv'
<1> SUFFICES ASSUME CliTypeOK, LinesInv, [CliNext]_cliVars PROVE LinesInv'
  OBVIOUS
<1> DEFINE Of(q) == \A r \in ToSet(q) : r.of \in {0} \cup ToSet(executed)
<1>0. conn \in Connections /\ DOMAIN inbox = Connections /\ \A n \in Connections : inbox[n] \in Seq(Replies)
  BY DEF CliTypeOK
<1>1. Of(reader) /\ Of(<<>>) /\ \A n \in Connections : Of(inbox[n])
  BY DEF LinesInv, ToSet
<1>2. ASSUME executed' = executed, reader' = reader \/ Of(reader'), inbox' = inbox PROVE LinesInv'
  BY <1>1, <1>2 DEF LinesInv
<1>3. ASSUME NEW kind \in Kinds, Execute(kind) PROVE LinesInv'
  <2>1. reader' = <<>>
    BY <1>3 DEF Execute, Fail
  <2> QED BY <1>1, <1>2, <1>3, <2>1 DEF Execute
<1>4. ASSUME NEW n \in 1..Len(inbox[conn]), Fill(n) PROVE LinesInv'
  <2>1. /\ ToSet(reader') \subseteq ToSet(inbox[conn])
        /\ ToSet(inbox'[conn]) \subseteq ToSet(inbox[conn])
        /\ \A m \in Connections \ {conn} : inbox'[m] = inbox[m]
    BY <1>4, FillTyped
  <2>2. executed' = executed
    BY <1>4 DEF Fill
  <2>3. Of(reader') /\ \A m \in Connections : Of(inbox'[m])
    BY <1>0, <1>1, <2>1
  <2> QED BY <2>2, <2>3 DEF LinesInv
<1>5. CASE ReadLine
  <2>1. ToSet(Tail(reader)) \subseteq ToSet(reader)
    BY <1>5, ReadTyped DEF ReadLine
  <2>2. Of(reader')
    BY <1>1, <1>5, <2>1 DEF ReadLine
  <2> QED BY <1>2, <1>5, <2>2 DEF ReadLine
<1>6. CASE EndOfStream
  <2>1. reader' = <<>>
    BY <1>6 DEF EndOfStream, Fail
  <2> QED BY <1>1, <1>2, <1>6, <2>1 DEF EndOfStream
<1>7. CASE ReadTimeout
  <2>1. reader' = <<>>
    BY <1>7 DEF ReadTimeout, Fail
  <2> QED BY <1>1, <1>2, <1>7, <2>1 DEF ReadTimeout
<1>8. ASSUME NEW n \in Connections, ServerExecutes(n) PROVE LinesInv'
  <2> DEFINE x == Head(requests[n])
             lines == Answer(x)
  <2>1. x \in DOMAIN issued /\ executed \in Seq(DOMAIN issued) /\ executed' = Append(executed, x)
    BY <1>8, RequestsTyped DEF ServerExecutes, CliTypeOK
  <2>2. ToSet(executed') = ToSet(executed) \cup {x}
    BY <2>1, AppendSet
  <2>3. lines \in Seq(Replies) /\ \A r \in ToSet(lines) : r.of = x
    BY <2>1, AnswerIs
  <2>4. /\ inbox'[n] = inbox[n] \o lines /\ reader' = reader
        /\ \A m \in Connections \ {n} : inbox'[m] = inbox[m]
    BY <1>0, <1>8 DEF ServerExecutes
  <2> HIDE DEF lines, x
  <2>5. \A r \in ToSet(inbox[n] \o lines) : r \in ToSet(inbox[n]) \/ r \in ToSet(lines)
    BY <1>0, <2>3, ConcatSet
  <2>6. \A m \in Connections : \A r \in ToSet(inbox'[m]) : r.of \in {0} \cup ToSet(executed')
    <3>1. \A r \in ToSet(inbox'[n]) : r.of \in {0} \cup ToSet(executed')
      BY <1>1, <2>2, <2>3, <2>4, <2>5
    <3> QED BY <1>1, <2>2, <2>4, <3>1
  <2>7. \A r \in ToSet(reader') : r.of \in {0} \cup ToSet(executed')
    BY <1>1, <2>2, <2>4
  <2> QED BY <2>6, <2>7 DEF LinesInv
<1>9. ASSUME NEW n \in Connections, Publish(n) PROVE LinesInv'
  <2>1. /\ inbox'[n] = Append(inbox[n], Line(0, 0)) /\ UNCHANGED <<reader, executed>>
        /\ \A m \in Connections \ {n} : inbox'[m] = inbox[m]
    BY <1>0, <1>9 DEF Publish
  <2>2. Line(0, 0) \in Replies /\ Line(0, 0).of = 0
    BY DEF Line, Replies, CliTypeOK
  <2>3. ToSet(inbox'[n]) = ToSet(inbox[n]) \cup {Line(0, 0)}
    BY <1>0, <2>1, <2>2, AppendSet
  <2>4. \A m \in Connections : Of(inbox'[m])
    BY <1>1, <2>1, <2>2, <2>3
  <2> QED BY <1>1, <2>1, <2>4 DEF LinesInv
<1>10. CASE UNCHANGED <<reader, inbox, executed>>
  BY <1>2, <1>10
<1> QED BY <1>3, <1>4, <1>5, <1>6, <1>7, <1>8, <1>9, <1>10 DEF CliNext, Close, cliVars

\* What the server executes is the command being executed, the last one issued,
\* or one that failed.
LEMMA OrderKeeps == CliTypeOK /\ RequestsInv /\ OrderKept /\ [CliNext]_cliVars => OrderKept'
<1> SUFFICES ASSUME CliTypeOK, RequestsInv, OrderKept, [CliNext]_cliVars PROVE OrderKept'
  OBVIOUS
<1>1. CASE executed' = executed /\ failed \subseteq failed'
  BY <1>1 DEF OrderKept
<1>2. ASSUME NEW n \in Connections, ServerExecutes(n) PROVE OrderKept'
  <2> DEFINE x == Head(requests[n])
  <2>1. /\ requests[n] # <<>> /\ requests[n] \in Seq(DOMAIN issued) /\ n \notin gone
        /\ executed' = Append(executed, x) /\ failed' = failed /\ x \in DOMAIN issued
    BY <1>2, RequestsTyped DEF ServerExecutes
  <2>2. x \in ToSet(requests[n])
    BY <2>1, TailSet
  <2> HIDE DEF x
  <2>3. x \notin ToSet(executed) /\ (x \in failed \/ x = doing)
    BY <2>1, <2>2 DEF RequestsInv
  <2>4. /\ executed \in Seq(DOMAIN issued) /\ DOMAIN issued = 1..Len(issued) /\ Len(issued) \in Nat
        /\ DOMAIN executed' = 1..(Len(executed) + 1) /\ DOMAIN executed = 1..Len(executed)
        /\ Len(executed) \in Nat
        /\ \A i \in 1..Len(executed) : executed'[i] = executed[i]
        /\ executed'[Len(executed) + 1] = x
    BY <2>1, AppendIs DEF CliTypeOK
  <2>5. \A i \in DOMAIN executed : executed[i] \in 1..Len(issued) /\ executed[i] # x
    BY <2>3, <2>4 DEF ToSet
  <2>6. x \in failed \/ \A i \in DOMAIN executed : executed[i] < x
    <3>1. CASE x \in failed
      BY <3>1
    <3>2. CASE x = doing
      <4>1. x = Len(issued)
        BY <2>1, <2>4, <3>2 DEF CliTypeOK
      <4> QED BY <2>4, <2>5, <4>1
    <3> QED BY <2>3, <3>1, <3>2
  <2>7. ASSUME NEW i \in DOMAIN executed', NEW j \in DOMAIN executed', i < j
        PROVE  executed'[i] < executed'[j] \/ (executed'[i] # executed'[j] /\ executed'[j] \in failed')
    <3>1. i \in DOMAIN executed /\ executed'[i] = executed[i]
      BY <2>4, <2>7
    <3>2. CASE j \in DOMAIN executed
      BY <2>1, <2>4, <2>7, <3>1, <3>2 DEF OrderKept
    <3>3. CASE j = Len(executed) + 1
      BY <2>1, <2>4, <2>5, <2>6, <3>1, <3>3
    <3> QED BY <2>4, <3>2, <3>3
  <2> QED BY <2>7 DEF OrderKept
<1> QED
  BY <1>1, <1>2
  DEF CliNext, Execute, Fill, ReadLine, EndOfStream, ReadTimeout, Publish, Close, Fail, cliVars

\* A connection that nothing happened on.
LEMMA FreshIs ==
    ASSUME CliTypeOK, AheadInv, NEW id \in Nat, Fail(id), inbox' = inbox
    PROVE  NothingThere'
<1>1. /\ conn' = conn + 1 /\ conn' \in Connections /\ conn \in Nat
      /\ requests' = requests /\ doing' = 0 /\ reader' = <<>>
  BY FailTyped
<1>2. conn' > conn
  BY <1>1
<1>3. requests[conn'] = <<>> /\ inbox[conn'] = <<>>
  BY <1>1, <1>2 DEF AheadInv
<1>4. <<>> \o <<>> = <<>>
  OBVIOUS
<1> QED BY <1>1, <1>3, <1>4 DEF NothingThere, Coming

LEMMA ComingTyped ==
    ASSUME CliTypeOK
    PROVE  /\ reader \in Seq(Replies) /\ conn \in Connections
           /\ \A n \in Connections : inbox[n] \in Seq(Replies)
           /\ DOMAIN inbox = Connections /\ DOMAIN requests = Connections
           /\ Coming \in Seq(Replies)
           /\ Coming = <<>> <=> reader = <<>> /\ inbox[conn] = <<>>
           /\ reader # <<>> => /\ Coming # <<>> /\ Head(Coming) = Head(reader)
                               /\ Tail(Coming) = Tail(reader) \o inbox[conn]
           /\ reader # <<>> /\ Len(Coming) = 1 => inbox[conn] = <<>> /\ Tail(reader) = <<>>
           /\ <<>> \o inbox[conn] = inbox[conn]
<1>1. /\ reader \in Seq(Replies) /\ conn \in Connections
      /\ \A n \in Connections : inbox[n] \in Seq(Replies)
      /\ DOMAIN inbox = Connections /\ DOMAIN requests = Connections
  BY DEF CliTypeOK
<1>2. inbox[conn] \in Seq(Replies)
  BY <1>1
<1> QED BY <1>1, <1>2, ConcatIs, ConcatNothing DEF Coming

\* The line that is read on such a connection belongs to the command.
LEMMA ReadIs ==
    ASSUME CliTypeOK, CleanInv, ReadLine, conn \notin subscribed \cup listed
    PROVE  /\ doing # 0 /\ doing \in DOMAIN issued /\ Head(reader).of = doing
           /\ WholeAnswer \/ SecondLine
<1>1. doing # 0 /\ reader # <<>>
  BY DEF ReadLine
<1>2. doing \in DOMAIN issued
  BY <1>1 DEF CliTypeOK
<1>3. Coming # <<>> /\ Head(Coming) = Head(reader)
  BY <1>1, ComingTyped
<1>4. CASE WholeAnswer
  BY <1>1, <1>2, <1>3, <1>4, AnswerIs DEF WholeAnswer
<1>5. CASE SecondLine
  <2>1. Head(reader) = Line(doing, 0)
    BY <1>3, <1>5 DEF SecondLine
  <2> QED BY <1>1, <1>2, <1>5, <2>1 DEF Line
<1>6. ~NothingThere
  BY <1>3 DEF NothingThere
<1> QED BY <1>4, <1>5, <1>6 DEF CleanInv

LEMMA CleanRead == ASSUME CliTypeOK, CleanInv, ReadLine PROVE CleanInv'
<1> SUFFICES ASSUME conn' \notin subscribed' \cup listed'
             PROVE  (NothingThere \/ WholeAnswer \/ SecondLine)'
  BY DEF CleanInv
<1> DEFINE line == Head(reader)
<1>1. /\ UNCHANGED <<conn, issued, requests, inbox, gone, subscribed>>
      /\ doing # 0 /\ reader # <<>>
      /\ shown' = IF shown.id # doing THEN Shows(line.of) ELSE shown
      /\ need' = IF shown.id # doing THEN line.behind ELSE need - 1
      /\ doing' = IF need' = 0 THEN 0 ELSE doing
      /\ reader' = IF need' = 0 THEN <<>> ELSE Tail(reader)
      /\ listed' = IF line.of # 0 /\ issued[line.of] = "keys"
                     THEN listed \cup {conn} ELSE listed
  BY DEF ReadLine
<1>2. conn \notin subscribed \cup listed /\ ~(line.of # 0 /\ issued[line.of] = "keys")
  BY <1>1
<1>3. doing \in DOMAIN issued /\ line.of = doing /\ (WholeAnswer \/ SecondLine)
  BY <1>2, ReadIs
<1>4. issued[doing] # "keys"
  BY <1>1, <1>2, <1>3
<1>5. /\ conn \in Connections /\ Head(Coming) = line /\ Coming # <<>>
      /\ Tail(Coming) = Tail(reader) \o inbox[conn]
      /\ Len(Coming) = 1 => inbox[conn] = <<>> /\ Tail(reader) = <<>>
      /\ <<>> \o inbox[conn] = inbox[conn]
  BY <1>1, ComingTyped
\* The last line: the next command finds nothing.
<1>6. ASSUME need' = 0, Len(Coming) = 1, requests[conn] = <<>> PROVE NothingThere'
  <2>1. Coming' = <<>>
    BY <1>1, <1>5, <1>6 DEF Coming
  <2> QED BY <1>1, <1>6, <2>1 DEF NothingThere
<1> HIDE DEF line
<1>7. CASE SecondLine
  <2>1. Len(Coming) = 1 /\ requests[conn] = <<>> /\ need' = 0
    BY <1>1, <1>7 DEF SecondLine
  <2> QED BY <1>6, <2>1
<1>8. CASE WholeAnswer /\ issued[doing] = "set"
  <2>1. Coming = <<Line(doing, 0)>> /\ requests[conn] = <<>> /\ shown.id # doing
    BY <1>3, <1>8, AnswerIs DEF WholeAnswer
  <2>2. Len(Coming) = 1 /\ line = Line(doing, 0)
    BY <1>5, <2>1
  <2>3. need' = 0
    BY <1>1, <2>1, <2>2 DEF Line
  <2> QED BY <1>6, <2>1, <2>2, <2>3
<1>9. CASE WholeAnswer /\ issued[doing] = "get"
  <2>1. Coming = <<Line(doing, 1), Line(doing, 0)>> /\ requests[conn] = <<>> /\ shown.id # doing
    BY <1>3, <1>9, AnswerIs DEF WholeAnswer
  <2>2. line = Line(doing, 1) /\ Tail(Coming) = <<Line(doing, 0)>>
    BY <1>5, <2>1
  <2>3. need' = 1 /\ shown'.id = doing
    BY <1>1, <2>1, <2>2 DEF Line, Shows
  <2>4. doing' = doing /\ reader' = Tail(reader)
    BY <1>1, <2>3
  <2>5. Coming' = <<Line(doing, 0)>>
    BY <1>1, <1>5, <2>2, <2>4 DEF Coming
  <2> QED BY <1>1, <2>1, <2>3, <2>4, <2>5 DEF SecondLine, Line
<1>10. issued[doing] \in {"set", "get"} \/ ~WholeAnswer
  BY <1>3, <1>4, AnswerIs DEF AllKinds, WholeAnswer
<1> QED BY <1>3, <1>7, <1>8, <1>9, <1>10

LEMMA CleanKeeps == CliTypeOK /\ AheadInv /\ CleanInv /\ [CliNext]_cliVars => CleanInv'
<1> SUFFICES ASSUME CliTypeOK, AheadInv, CleanInv, [CliNext]_cliVars PROVE CleanInv'
  OBVIOUS
<1>0. /\ conn \in Connections /\ DOMAIN inbox = Connections /\ DOMAIN requests = Connections
      /\ \A n \in Connections : inbox[n] \in Seq(Replies)
  BY ComingTyped
<1>1. ASSUME UNCHANGED <<conn, doing, need, reader, issued, shown>>,
             requests'[conn] = requests[conn], inbox'[conn] = inbox[conn],
             gone \subseteq gone', subscribed \subseteq subscribed', listed \subseteq listed'
      PROVE  CleanInv'
  <2>1. Coming' = Coming /\ Answer(doing)' = Answer(doing)
    BY <1>1 DEF Coming, Answer
  <2>2. NothingThere => NothingThere'
    BY <1>1, <2>1 DEF NothingThere
  <2>3. WholeAnswer => WholeAnswer'
    BY <1>1, <2>1 DEF WholeAnswer
  <2>4. SecondLine => SecondLine'
    BY <1>1, <2>1 DEF SecondLine, Line
  <2> QED BY <1>1, <2>2, <2>3, <2>4 DEF CleanInv
<1>2. ASSUME NEW kind \in Kinds, Execute(kind) PROVE CleanInv'
  <2> DEFINE id == Len(issued) + 1
  <2>1. /\ id \in Nat /\ id # 0 /\ shown.id # id /\ doing = 0
        /\ UNCHANGED <<inbox, gone, subscribed, shown, listed>>
    BY <1>2 DEF Execute, CliTypeOK
  <2>2. CASE Fail(id)
    BY <2>1, <2>2, FreshIs DEF CleanInv
  <2>3. CASE /\ doing' = id /\ reader' = <<>> /\ conn' = conn
             /\ requests' = [requests EXCEPT ![conn] = Append(@, id)]
    <3>1. ASSUME conn \notin subscribed \cup listed PROVE NothingThere'
      <4>1. NothingThere
        BY <2>1, <3>1 DEF CleanInv, WholeAnswer, SecondLine
      <4>2. inbox[conn] = <<>> /\ (conn \notin gone => requests[conn] = <<>>)
        BY <2>1, <4>1, ComingTyped DEF NothingThere
      <4>3. conn \notin gone => requests'[conn] = <<id>>
        BY <1>0, <2>3, <4>2
      <4>4. Coming' = <<>>
        BY <2>1, <2>3, <4>2 DEF Coming
      <4> QED BY <2>1, <2>3, <4>3, <4>4 DEF NothingThere
    <3> QED BY <2>1, <2>3, <3>1 DEF CleanInv
  <2> QED BY <1>2, <2>2, <2>3 DEF Execute
<1>3. ASSUME NEW n \in 1..Len(inbox[conn]), Fill(n) PROVE CleanInv'
  <2>1. /\ UNCHANGED <<conn, doing, need, issued, requests, gone, subscribed, shown, listed>>
        /\ reader = <<>> /\ reader' \o inbox'[conn] = inbox[conn]
    BY <1>3, FillTyped DEF Fill
  <2>2. Coming' = Coming /\ Answer(doing)' = Answer(doing)
    BY <2>1, ComingTyped DEF Coming, Answer
  <2>3. NothingThere => NothingThere'
    BY <2>1, <2>2 DEF NothingThere
  <2>4. WholeAnswer => WholeAnswer'
    BY <2>1, <2>2 DEF WholeAnswer
  <2>5. SecondLine => SecondLine'
    BY <2>1, <2>2 DEF SecondLine, Line
  <2> QED BY <2>1, <2>3, <2>4, <2>5 DEF CleanInv
<1>4. CASE ReadLine
  BY <1>4, CleanRead
<1>5. doing \in Nat
  BY DEF CliTypeOK
<1>6. CASE EndOfStream
  <2>1. /\ reader = <<>> /\ inbox[conn] = <<>> /\ conn \in gone
        /\ UNCHANGED <<inbox, gone, subscribed>>
    BY <1>6 DEF EndOfStream
  <2>2. CASE Fail(doing)
    BY <1>5, <2>1, <2>2, FreshIs DEF CleanInv
  <2>3. CASE doing' = 0 /\ UNCHANGED <<conn, requests, reader>>
    <3>1. Coming' = <<>>
      BY <2>1, <2>3 DEF Coming
    <3> QED BY <2>1, <2>3, <3>1 DEF CleanInv, NothingThere
  <2> QED BY <1>6, <2>2, <2>3 DEF EndOfStream
<1>7. CASE ReadTimeout
  BY <1>5, <1>7, FreshIs DEF ReadTimeout, CleanInv
<1>8. ASSUME NEW n \in Connections, ServerExecutes(n) PROVE CleanInv'
  <2>1. /\ UNCHANGED <<conn, doing, need, reader, issued, gone, shown, listed>>
        /\ n \notin gone /\ requests[n] # <<>> /\ subscribed \subseteq subscribed'
        /\ issued[Head(requests[n])] = "sub" => n \in subscribed'
    BY <1>8 DEF ServerExecutes
  <2>2. CASE n # conn
    <3>1. requests'[conn] = requests[conn] /\ inbox'[conn] = inbox[conn]
      BY <1>0, <1>8, <2>2 DEF ServerExecutes
    <3> QED BY <1>1, <2>1, <3>1
  <2>3. CASE n = conn
    <3>1. ASSUME conn \notin subscribed' \cup listed PROVE WholeAnswer'
      <4>1. NothingThere
        BY <2>1, <2>3, <3>1 DEF CleanInv, WholeAnswer, SecondLine
      <4>2. /\ doing # 0 /\ requests[conn] = <<doing>> /\ shown.id # doing
            /\ reader = <<>> /\ inbox[conn] = <<>>
        BY <2>1, <2>3, <4>1, ComingTyped DEF NothingThere
      <4>3. doing \in DOMAIN issued /\ Head(requests[conn]) = doing /\ Tail(requests[conn]) = <<>>
        BY <4>2 DEF CliTypeOK
      <4>4. Answer(doing) \in Seq(Replies)
        BY <4>3, AnswerIs
      <4>5. /\ requests'[conn] = <<>>
            /\ inbox'[conn] = <<>> \o Answer(doing)
        BY <1>0, <1>8, <2>3, <4>2, <4>3 DEF ServerExecutes
      <4>6. Coming' = Answer(doing)
        BY <2>1, <4>2, <4>4, <4>5 DEF Coming
      <4>7. Answer(doing)' = Answer(doing)
        BY <2>1 DEF Answer
      <4> QED BY <2>1, <2>3, <3>1, <4>2, <4>3, <4>5, <4>6, <4>7 DEF WholeAnswer
    <3> QED BY <2>1, <3>1 DEF CleanInv
  <2> QED BY <2>2, <2>3
<1>9. ASSUME NEW n \in Connections, Publish(n) PROVE CleanInv'
  <2>1. /\ n \in subscribed
        /\ UNCHANGED <<conn, doing, need, reader, issued, requests, gone, shown, subscribed, listed>>
    BY <1>9 DEF Publish
  <2>2. CASE n = conn
    BY <2>1, <2>2 DEF CleanInv
  <2>3. CASE n # conn
    <3>1. inbox'[conn] = inbox[conn]
      BY <1>0, <1>9, <2>3 DEF Publish
    <3> QED BY <1>1, <2>1, <3>1
  <2> QED BY <2>2, <2>3
<1>10. ASSUME NEW n \in Connections, Close(n) PROVE CleanInv'
  BY <1>1, <1>10 DEF Close
<1>11. CASE UNCHANGED cliVars
  BY <1>1, <1>11 DEF cliVars
<1> QED
  BY <1>2, <1>3, <1>4, <1>6, <1>7, <1>8, <1>9, <1>10, <1>11 DEF CliNext

LEMMA AnswersKeep ==
    CliTypeOK /\ CleanInv /\ AnswersMatch /\ [CliNext]_cliVars => AnswersMatch'
<1> SUFFICES ASSUME CliTypeOK, CleanInv, AnswersMatch, [CliNext]_cliVars PROVE AnswersMatch'
  OBVIOUS
<1>1. CASE shown' = shown /\ subscribed \subseteq subscribed' /\ listed \subseteq listed'
  BY <1>1 DEF AnswersMatch
<1>2. CASE ReadLine
  <2>1. /\ shown' = shown \/ (shown' = Shows(Head(reader).of) /\ conn' = conn)
        /\ subscribed' = subscribed /\ listed \subseteq listed'
    BY <1>2 DEF ReadLine
  <2>2. CASE shown' = Shows(Head(reader).of)
    <3>1. conn \in subscribed \cup listed \/ Head(reader).of = doing
      BY <1>2, ReadIs
    <3> QED BY <2>1, <2>2, <3>1 DEF AnswersMatch, Shows
  <2> QED BY <1>1, <2>1, <2>2
<1>3. CASE EndOfStream
  <2>1. /\ shown' = shown \/ shown' = Shows(0)
        /\ UNCHANGED <<subscribed, listed>>
    BY <1>3 DEF EndOfStream
  <2> QED BY <1>1, <2>1 DEF AnswersMatch, Shows
<1> QED
  BY <1>1, <1>2, <1>3
  DEF CliNext, Execute, Fill, ReadTimeout, ServerExecutes, Publish, Close, cliVars
-----------------------------------------------------------------------------
\* The invariant of the command line client.
THEOREM CliInvariant == CliSpec => []CliInv
<1>1. CliInit => CliInv
  <2> SUFFICES ASSUME CliInit PROVE CliInv
    OBVIOUS
  <2>1. CliTypeOK
    <3>1. conn \in Connections /\ doing \in 0..Len(issued) /\ need \in Nat /\ issued \in Seq(Kinds)
      BY CliBoundAssumption DEF CliInit, Connections
    <3>2. reader \in Seq(Replies) /\ inbox \in [Connections -> Seq(Replies)]
      BY DEF CliInit
    <3>3. requests \in [Connections -> Seq(DOMAIN issued)] /\ executed \in Seq(DOMAIN issued)
      BY DEF CliInit
    <3>4. shown \in [id : 0..Len(issued), on : 0..MaxConnections, of : 0..Len(issued)]
      BY CliBoundAssumption DEF CliInit
    <3> QED BY <3>1, <3>2, <3>3, <3>4 DEF CliInit, CliTypeOK
  <2>2. ToSet(<<>>) = {} /\ <<>> \o <<>> = <<>>
    BY DEF ToSet
  <2>3. AheadInv /\ RequestsInv /\ LinesInv
    BY <2>2 DEF CliInit, AheadInv, RequestsInv, LinesInv
  <2>4. Coming = <<>> /\ requests[conn] = <<>>
    BY <2>1, <2>2 DEF CliInit, Coming, CliTypeOK
  <2>5. CleanInv
    BY <2>4 DEF CliInit, CleanInv, NothingThere
  <2>6. AnswersMatch /\ OrderKept
    BY DEF CliInit, AnswersMatch, OrderKept
  <2> QED BY <2>1, <2>3, <2>5, <2>6 DEF CliInv
<1>2. CliInv /\ [CliNext]_cliVars => CliInv'
  BY CliTypeKeeps, AheadKeeps, RequestsKeep, LinesKeep, CleanKeeps, AnswersKeep, OrderKeeps DEF CliInv
<1> QED BY <1>1, <1>2, PTL DEF CliSpec

\* However late answers come and connections break: execute_command shows the
\* answer to its command, or nothing, on a connection without deltas and lists.
THEOREM Answers == CliSpec => []AnswersMatch
<1>1. CliInv => AnswersMatch
  BY DEF CliInv
<1> QED BY <1>1, CliInvariant, PTL

\* The server executes the commands of the client once and in order, but for
\* those the client gave up.
THEOREM Order == CliSpec => []OrderKept
<1>1. CliInv => OrderKept
  BY DEF CliInv
<1> QED BY <1>1, CliInvariant, PTL
=============================================================================
