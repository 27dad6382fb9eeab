--------------------------- MODULE ConnectionProofs ---------------------------
(***************************************************************************)
(* One connection, for any number of lines, cuts, deltas and any size of   *)
(* the buffer and of the ring: answers match lines, nothing gated runs     *)
(* before authentication, and what is due to a subscriber arrives.         *)
(***************************************************************************)
EXTENDS Connection, NaturalsInduction, WellFoundedInduction, TLAPS

-----------------------------------------------------------------------------
\* The place of a piece in the stream the client sent, and how much of the
\* stream was read.
Pos(p) == 2 * p.line - (IF p.ends THEN 0 ELSE 1)
Read == 2 * Len(sent) - Len(wire)

\* What is on the wire is the end of the stream.
WireInv ==
    /\ Read >= 0
    /\ \A i \in DOMAIN wire : wire[i].line # 0 /\ Pos(wire[i]) = Read + i

\* In the buffer are pieces of what was read, in its order.
BufferInv ==
    /\ \A i \in DOMAIN buffer :
          IF buffer[i].line = 0 THEN buffer[i].ends ELSE Pos(buffer[i]) <= Read
    /\ \A i, j \in DOMAIN buffer :
          i < j /\ buffer[i].line # 0 /\ buffer[j].line # 0 => Pos(buffer[i]) < Pos(buffer[j])

\* Answered lines were read, before what is in the buffer, and in their order.
MessagesInv ==
    /\ \A i \in DOMAIN Messages :
          Messages[i].line # 0 =>
             /\ 2 * Messages[i].line <= Read
             /\ \A k \in DOMAIN buffer :
                   buffer[k].line # 0 => 2 * Messages[i].line < Pos(buffer[k])
    /\ \A i, j \in DOMAIN Messages :
          i < j /\ Messages[i].line # 0 /\ Messages[j].line # 0 =>
             Messages[i].line < Messages[j].line

\* Answers are no deltas, and the task waits when it has written them.
BatchInv ==
    /\ \A i \in DOMAIN out :
          IF out[i].reply = "DELTA" THEN out[i].line = 0 /\ out[i].delta \in 1..(next - 1)
          ELSE out[i].delta = 0
    /\ \A i \in DOMAIN batch : batch[i].reply # "DELTA" /\ batch[i].delta = 0
    /\ pc = "select" => batch = <<>>

\* A client is authenticated by a line that ran, and lines that ran are
\* answered.
AuthInv ==
    /\ RequireAuth /\ authenticated => \E i \in DOMAIN executed : Admits(executed[i])
    /\ \A i \in DOMAIN executed :
          executed[i].line # 0 => \E j \in DOMAIN Messages : Messages[j].line = executed[i].line

StrandedInv ==
    pc \in {"write", "select"} /\ Ends(buffer) # {} =>
        \E i \in DOMAIN Messages :
            /\ Messages[i].reply \in {"PARSE_ERROR", "TOO_LARGE"}
            /\ \A j \in (i + 1)..Len(Messages) : Messages[j].reply = "DELTA"

\* Lines 1..n are answered, each after those before it.
AnsweredTo(messages, n) ==
    LET answers == {i \in DOMAIN messages : messages[i].reply # "DELTA"}
        lines(is) == {messages[i].line : i \in is}
    IN  /\ lines(answers) = 1..n
        /\ \A i \in answers : lines({j \in answers : j < i}) = 1..(messages[i].line - 1)

\* The lines 1..n are answered, and what comes after them is in the buffer and
\* on the wire.
Aligned(n) ==
    /\ Read - Len(buffer) = 2 * n
    /\ \A i \in DOMAIN buffer : buffer[i].line # 0 /\ Pos(buffer[i]) = 2 * n + i
    /\ AnsweredTo(Messages, n)

IntactInv == intact => \E n \in Nat : Aligned(n)

\* Who was told to be subscribed is, but for a line nobody sent.
SubscribedInv == SaysSubscribed(Messages) => subscribed \/ MangledUnsub

DueInv ==
    /\ SubscribedInv
    /\ due # {} =>
          /\ Acknowledged
          /\ \A i \in DOMAIN sent : sent[i] = "UNSUB" => \E j \in DOMAIN out : out[j].line = i

IInv ==
    /\ TypeOK /\ WireInv /\ BufferInv /\ MessagesInv /\ BatchInv /\ IntactInv
    /\ AuthInv /\ AuthGate /\ StrandedInv /\ DueInv /\ DueArrives
-----------------------------------------------------------------------------
\* Every non-empty set of numbers has a least one.
LEMMA LeastNat ==
    ASSUME NEW T \in SUBSET Nat, T # {}
    PROVE  \E x \in T : \A y \in T : x <= y
<1>1. \E R : IsWellFoundedOn(R, Nat) /\ \A x, y \in Nat : <<y, x>> \in R <=> y < x
  <2>1. \A x, y \in Nat : <<y, x>> \in OpToRel(<, Nat) <=> y < x
    BY DEF OpToRel
  <2> QED BY <2>1, NatLessThanWellFounded
<1>2. PICK R : IsWellFoundedOn(R, Nat) /\ \A x, y \in Nat : <<y, x>> \in R <=> y < x
  BY <1>1
<1>3. PICK x \in T : \A y \in T : ~(<<y, x>> \in R)
  BY <1>2, WFMin
<1>4. ASSUME NEW y \in T PROVE x <= y
  <2>1. x \in Nat /\ y \in Nat
    OBVIOUS
  <2>2. ~(y < x)
    BY <2>1, <1>2, <1>3, Zenon
  <2> QED BY <2>1, <2>2
<1> QED BY <1>4

\* The first newline of the buffer is where process() cuts it.
LEMMA LineEndFirst ==
    ASSUME TypeOK, Ends(buffer) # {}
    PROVE  /\ LineEnd \in DOMAIN buffer /\ buffer[LineEnd].ends
           /\ \A j \in DOMAIN buffer : buffer[j].ends => LineEnd <= j
<1>1. Ends(buffer) \in SUBSET Nat /\ \A i \in DOMAIN buffer : i \in Ends(buffer) <=> buffer[i].ends
  BY DEF TypeOK, Ends
<1>2. \E i \in Ends(buffer) : \A j \in Ends(buffer) : i <= j
  BY <1>1, LeastNat
<1>3. LineEnd \in Ends(buffer) /\ \A j \in Ends(buffer) : LineEnd <= j
  BY <1>2 DEF LineEnd
<1> QED BY <1>1, <1>3 DEF Ends

\* A piece is known by its place, and by its place from its line.
LEMMA PosIs ==
    ASSUME NEW p \in Piece
    PROVE  /\ Pos(p) \in Int
           /\ p.ends => Pos(p) = 2 * p.line
           /\ ~p.ends => Pos(p) = 2 * p.line - 1
  BY DEF Pos, Piece

\* What the next line is: two pieces of one line that follow each other, or
\* what nobody sent.
LEMMA LineIs ==
    ASSUME TypeOK, WireInv, BufferInv, MessagesInv, Ends(buffer) # {}
    PROVE  /\ LineNo \in Nat
           /\ Len(AfterLine) = Len(buffer) - LineEnd /\ LineEnd \in 1..Len(buffer)
           /\ AfterLine \in Seq(Piece)
           /\ \A i \in 1..(Len(buffer) - LineEnd) : AfterLine[i] = buffer[LineEnd + i]
           /\ Readings \subseteq AllKinds
           /\ LineNo # 0 =>
                /\ LineNo \in DOMAIN sent /\ Readings = {sent[LineNo]}
                /\ 2 * LineNo <= Read
                /\ \A i \in DOMAIN Messages : Messages[i].line < LineNo
                /\ \A i \in DOMAIN AfterLine :
                      AfterLine[i].line # 0 => 2 * LineNo < Pos(AfterLine[i])
<1>1. /\ buffer \in Seq(Piece) /\ wire \in Seq(Piece) /\ Len(sent) \in Nat /\ Len(wire) \in Nat
      /\ \A i \in DOMAIN Messages : Messages[i] \in Message
  <2>1. Messages \in Seq(Message)
    BY DEF TypeOK, Messages
  <2>2. \A i \in DOMAIN Messages : Messages[i] \in Message
    BY <2>1
  <2> QED BY <2>2 DEF TypeOK
<1>2. /\ LineEnd \in 1..Len(buffer) /\ buffer[LineEnd].ends
      /\ \A j \in DOMAIN buffer : buffer[j].ends => LineEnd <= j
  BY <1>1, LineEndFirst
<1> DEFINE n == LineEnd
           m == Len(buffer)
<1>3. m \in Nat /\ n \in 1..m
  BY <1>1, <1>2
<1> HIDE DEF n, m
<1>4. /\ AfterLine \in Seq(Piece) /\ Len(AfterLine) = m - n
      /\ \A i \in 1..(m - n) : AfterLine[i] = buffer[n + i]
  BY <1>1, <1>3 DEF AfterLine, n, m
<1>5. /\ Line \in Seq(Piece) /\ Len(Line) = n
      /\ \A i \in 1..n : Line[i] = buffer[i]
  BY <1>1, <1>3 DEF Line, n, m
<1>6. Line[1] = buffer[1] /\ Line[1] \in Piece /\ 1 \in 1..m
  BY <1>1, <1>3, <1>5 DEF m
<1>7. CASE ~Whole
  <2>1. LineNo = 0 /\ Readings = AllKinds
    BY <1>7 DEF LineNo, Readings
  <2> QED BY <1>3, <1>4, <2>1 DEF n, m
<1>8. CASE Whole
  <2> DEFINE l == Line[1].line
  <2>1. LineNo = l /\ l \in Nat
    BY <1>6, <1>8 DEF LineNo, Piece
  <2>2. Line = <<[line |-> l, ends |-> FALSE], [line |-> l, ends |-> TRUE]>>
    BY <1>8 DEF Whole, Pieces
  <2> HIDE DEF l
  <2>3. n = 2 /\ buffer[1] = [line |-> l, ends |-> FALSE] /\ buffer[2] = [line |-> l, ends |-> TRUE]
    <3>1. /\ Len(Line) = 2 /\ Line[1] = [line |-> l, ends |-> FALSE]
          /\ Line[2] = [line |-> l, ends |-> TRUE]
      BY <2>2
    <3>2. n = 2
      BY <1>5, <3>1
    <3>3. Line[1] = buffer[1] /\ Line[2] = buffer[2]
      BY <1>5, <3>2
    <3> QED BY <3>1, <3>2, <3>3
  <2>4. l # 0
    BY <1>6, <2>3 DEF BufferInv, m
  <2>5. Pos(buffer[1]) = 2 * l - 1 /\ Pos(buffer[2]) = 2 * l
    BY <2>1, <2>3 DEF Pos
  <2>6. 2 * l <= Read /\ 1 \in DOMAIN buffer /\ 2 \in DOMAIN buffer
    BY <1>1, <1>3, <2>3, <2>4, <2>5 DEF BufferInv, m
  <2>7. l \in DOMAIN sent
    BY <1>1, <2>1, <2>4, <2>6 DEF Read, TypeOK
  <2>8. \A i \in DOMAIN Messages : Messages[i].line < l
    <3> SUFFICES ASSUME NEW i \in DOMAIN Messages PROVE Messages[i].line < l
      OBVIOUS
    <3>1. Messages[i].line \in Nat
      BY <1>1 DEF Message
    <3>2. CASE Messages[i].line # 0
      <4>1. 2 * Messages[i].line < Pos(buffer[1])
        <5>1. buffer[1].line # 0
          BY <2>3, <2>4
        <5> QED BY <2>6, <3>2, <5>1 DEF MessagesInv
      <4> QED BY <2>1, <2>5, <3>1, <4>1
    <3>3. CASE Messages[i].line = 0
      BY <2>1, <2>4, <3>3
    <3> QED BY <3>2, <3>3
  <2>9. \A i \in DOMAIN AfterLine : AfterLine[i].line # 0 => 2 * l < Pos(AfterLine[i])
    <3> SUFFICES ASSUME NEW i \in 1..(m - 2), buffer[2 + i].line # 0
                 PROVE  2 * l < Pos(buffer[2 + i])
      <4>1. DOMAIN AfterLine = 1..(m - 2) /\ \A i \in 1..(m - 2) : AfterLine[i] = buffer[2 + i]
        BY <1>4, <2>3
      <4> QED BY <4>1
    <3>1. 2 + i \in DOMAIN buffer /\ 2 < 2 + i /\ buffer[2].line # 0
      BY <1>1, <1>3, <2>3, <2>4 DEF m
    <3> QED BY <2>5, <2>6, <3>1 DEF BufferInv
  <2>10. Readings = {sent[l]}
    BY <1>8, <2>1 DEF Readings
  <2>11. sent[l] \in AllKinds
    <3>1. sent \in Seq(Kinds)
      BY DEF TypeOK
    <3> QED BY <2>7, <3>1, KindAssumption
  <2> QED BY <1>3, <1>4, <2>1, <2>4, <2>6, <2>7, <2>8, <2>9, <2>10, <2>11 DEF n, m
<1> QED BY <1>7, <1>8

LEMMA AppendIs ==
    ASSUME NEW S, NEW s \in Seq(S), NEW e \in S
    PROVE  /\ Append(s, e) \in Seq(S) /\ Len(Append(s, e)) = Len(s) + 1 /\ Len(s) \in Nat
           /\ DOMAIN Append(s, e) = 1..(Len(s) + 1) /\ DOMAIN s = 1..Len(s)
           /\ \A i \in 1..Len(s) : Append(s, e)[i] = s[i]
           /\ Append(s, e)[Len(s) + 1] = e
  OBVIOUS

LEMMA ConcatIs ==
    ASSUME NEW S, NEW s \in Seq(S), NEW t \in Seq(S)
    PROVE  /\ s \o t \in Seq(S) /\ Len(s \o t) = Len(s) + Len(t) /\ Len(s) \in Nat /\ Len(t) \in Nat
           /\ DOMAIN (s \o t) = 1..(Len(s) + Len(t)) /\ DOMAIN s = 1..Len(s)
           /\ \A i \in 1..Len(s) : (s \o t)[i] = s[i]
           /\ \A i \in 1..Len(t) : (s \o t)[Len(s) + i] = t[i]
  OBVIOUS

\* The next line is answered.
LEMMA AnsweredAppend ==
    ASSUME NEW ms \in Seq(Message), NEW n \in Nat, AnsweredTo(ms, n),
           NEW m \in Message, m.reply # "DELTA", m.line = n + 1
    PROVE  AnsweredTo(Append(ms, m), n + 1)
<1> DEFINE more == Append(ms, m)
           answers == {i \in DOMAIN ms : ms[i].reply # "DELTA"}
           answers2 == {i \in DOMAIN more : more[i].reply # "DELTA"}
           L == Len(ms)
<1>1. /\ L \in Nat /\ DOMAIN more = 1..(L + 1) /\ DOMAIN ms = 1..L
      /\ \A i \in 1..L : more[i] = ms[i]
      /\ more[L + 1] = m
  BY AppendIs
<1> HIDE DEF more, L
<1>2. /\ {ms[i].line : i \in answers} = 1..n
      /\ \A i \in answers : {ms[j].line : j \in {k \in answers : k < i}} = 1..(ms[i].line - 1)
  BY DEF AnsweredTo
<1>3. answers2 = answers \cup {L + 1} /\ answers \subseteq 1..L
  BY <1>1
<1> HIDE DEF answers, answers2
<1>4. {more[i].line : i \in answers2} = 1..(n + 1)
  <2>1. \A x : x \in {more[i].line : i \in answers2} <=> x \in {ms[i].line : i \in answers} \/ x = n + 1
    BY <1>1, <1>3
  <2>2. {more[i].line : i \in answers2} = {ms[i].line : i \in answers} \cup {n + 1}
    BY <2>1
  <2>3. (1..n) \cup {n + 1} = 1..(n + 1)
    OBVIOUS
  <2> QED BY <1>2, <2>2, <2>3
<1>5. ASSUME NEW i \in answers2
      PROVE  {more[j].line : j \in {k \in answers2 : k < i}} = 1..(more[i].line - 1)
  <2>1. CASE i \in answers
    <3>1. {k \in answers2 : k < i} = {k \in answers : k < i}
      BY <1>1, <1>3, <2>1
    <3>2. {more[j].line : j \in {k \in answers2 : k < i}} = {ms[j].line : j \in {k \in answers : k < i}}
      BY <1>1, <1>3, <3>1
    <3>3. more[i] = ms[i]
      BY <1>1, <1>3, <2>1
    <3> QED BY <1>2, <2>1, <3>2, <3>3
  <2>2. CASE i = L + 1
    <3>1. {k \in answers2 : k < i} = answers
      <4>1. \A k \in answers : k < L + 1
        BY <1>1, <1>3
      <4>2. ~(L + 1 < L + 1)
        BY <1>1
      <4> QED BY <1>3, <2>2, <4>1, <4>2
    <3>2. {more[j].line : j \in {k \in answers2 : k < i}} = {ms[j].line : j \in answers}
      BY <1>1, <1>3, <3>1
    <3>3. more[i].line - 1 = n
      BY <1>1, <2>2
    <3> QED BY <1>2, <3>2, <3>3
  <2> QED BY <1>3, <2>1, <2>2
<1>6. AnsweredTo(more, n + 1)
  BY <1>4, <1>5 DEF AnsweredTo, answers2
<1> QED BY <1>6 DEF more

\* A delta is no answer.
LEMMA AnsweredDelta ==
    ASSUME NEW ms \in Seq(Message), NEW n \in Nat, AnsweredTo(ms, n),
           NEW m \in Message, m.reply = "DELTA"
    PROVE  AnsweredTo(Append(ms, m), n)
<1> DEFINE more == Append(ms, m)
           answers == {i \in DOMAIN ms : ms[i].reply # "DELTA"}
           answers2 == {i \in DOMAIN more : more[i].reply # "DELTA"}
           L == Len(ms)
<1>1. /\ L \in Nat /\ DOMAIN more = 1..(L + 1) /\ DOMAIN ms = 1..L
      /\ \A i \in 1..L : more[i] = ms[i]
      /\ more[L + 1] = m
  BY AppendIs
<1> HIDE DEF more, L
<1>2. /\ {ms[i].line : i \in answers} = 1..n
      /\ \A i \in answers : {ms[j].line : j \in {k \in answers : k < i}} = 1..(ms[i].line - 1)
  BY DEF AnsweredTo
<1>3. answers2 = answers /\ answers \subseteq 1..L
  BY <1>1
<1> HIDE DEF answers, answers2
<1>4. {more[i].line : i \in answers2} = 1..n
  BY <1>1, <1>2, <1>3
<1>5. ASSUME NEW i \in answers2
      PROVE  {more[j].line : j \in {k \in answers2 : k < i}} = 1..(more[i].line - 1)
  <2>1. {more[j].line : j \in {k \in answers2 : k < i}} = {ms[j].line : j \in {k \in answers : k < i}}
    BY <1>1, <1>3
  <2> QED BY <1>1, <1>2, <1>3, <2>1
<1>6. AnsweredTo(more, n)
  BY <1>4, <1>5 DEF AnsweredTo, answers2
<1> QED BY <1>6 DEF more

\* As long as framing is intact the next line is the first one not answered.
LEMMA IntactLine ==
    ASSUME TypeOK, NEW n \in Nat, Aligned(n), Ends(buffer) # {}
    PROVE  LineNo = n + 1 /\ LineEnd = 2 /\ Len(buffer) >= 2
<1>1. /\ LineEnd \in 1..Len(buffer) /\ buffer[LineEnd].ends /\ Len(buffer) \in Nat
      /\ \A j \in 1..Len(buffer) : buffer[j].ends => LineEnd <= j
  BY LineEndFirst DEF TypeOK
<1>2. \A i \in 1..Len(buffer) : buffer[i] \in Piece /\ Pos(buffer[i]) = 2 * n + i
  BY DEF TypeOK, Aligned
<1>3. ~buffer[1].ends /\ buffer[1].line = n + 1
  <2>1. buffer[1] \in Piece /\ Pos(buffer[1]) = 2 * n + 1
    BY <1>1, <1>2
  <2> QED BY <2>1 DEF Pos, Piece
<1>4. LineEnd >= 2 /\ Len(buffer) >= 2
  BY <1>1, <1>3
<1>5. buffer[2].ends /\ buffer[2].line = n + 1
  <2>1. buffer[2] \in Piece /\ Pos(buffer[2]) = 2 * n + 2
    BY <1>2, <1>4, <1>1
  <2> QED BY <2>1 DEF Pos, Piece
<1>6. LineEnd = 2
  BY <1>1, <1>4, <1>5
<1>7. Line \in Seq(Piece) /\ Len(Line) = 2 /\ Line[1] = buffer[1] /\ Line[2] = buffer[2]
  BY <1>4, <1>6 DEF Line, TypeOK
<1>8. buffer[1] = [line |-> n + 1, ends |-> FALSE] /\ buffer[2] = [line |-> n + 1, ends |-> TRUE]
  <2>1. buffer[1] \in Piece /\ buffer[2] \in Piece
    BY <1>1, <1>2, <1>4
  <2>2. buffer[1].ends = FALSE /\ buffer[2].ends = TRUE
    BY <2>1, <1>3, <1>5 DEF Piece
  <2> QED BY <2>1, <2>2, <1>3, <1>5 DEF Piece
<1>9. Line[1].line = n + 1 /\ Line = Pieces(n + 1)
  <2>1. Line[1].line = n + 1
    BY <1>7, <1>3
  <2>2. Line = <<Line[1], Line[2]>>
    BY <1>7
  <2> QED BY <2>1, <2>2, <1>7, <1>8 DEF Pieces
<1> QED BY <1>4, <1>6, <1>9 DEF LineNo, Whole

LEMMA AnswerTyped ==
    ASSUME NEW l \in Nat, NEW r \in Replies
    PROVE  /\ Answer(l, r) \in Message /\ Answer(l, r).line = l /\ Answer(l, r).reply = r
           /\ Answer(l, r).delta = 0 /\ r # "DELTA"
  BY DEF Answer, Message, Replies

LEMMA MessagesGrow ==
    ASSUME TypeOK, NEW m \in Message, out' = out, batch' = Append(batch, m)
    PROVE  /\ Messages \in Seq(Message) /\ Messages' = Append(Messages, m)
           /\ batch' \in Seq(Message)
  BY DEF TypeOK, Messages

\* What process() does with a line keeps the order of lines and of answers.
LEMMA TakeLineKeeps ==
    ASSUME IInv, NEW r \in Replies, NEW then \in {"process", "write"}, TakeLine(r, then)
    PROVE  /\ buffer' \in Seq(Piece) /\ Len(buffer') <= BufferSize /\ batch' \in Seq(Message)
           /\ Messages' = Append(Messages, Answer(LineNo, r))
           /\ WireInv' /\ BufferInv' /\ MessagesInv' /\ BatchInv' /\ IntactInv'
<1> USE DEF IInv
<1>1. /\ Ends(buffer) # {} /\ buffer' = AfterLine /\ pc' = then
      /\ batch' = Append(batch, Answer(LineNo, r))
      /\ UNCHANGED <<transport, sent, wire, published, next, out, intact, due, missed>>
  BY DEF TakeLine
<1>2. /\ LineNo \in Nat /\ LineEnd \in 1..Len(buffer)
      /\ Len(AfterLine) = Len(buffer) - LineEnd /\ AfterLine \in Seq(Piece)
      /\ \A i \in 1..(Len(buffer) - LineEnd) : AfterLine[i] = buffer[LineEnd + i]
      /\ LineNo # 0 =>
           /\ 2 * LineNo <= Read
           /\ \A i \in DOMAIN Messages : Messages[i].line < LineNo
           /\ \A i \in DOMAIN AfterLine :
                 AfterLine[i].line # 0 => 2 * LineNo < Pos(AfterLine[i])
  BY <1>1, LineIs
<1> DEFINE a == Answer(LineNo, r)
           L == Len(Messages)
           n == LineEnd
           m == Len(buffer)
<1>3. /\ a \in Message /\ a.line = LineNo /\ a.delta = 0 /\ a.reply = r /\ r # "DELTA"
  BY <1>2, AnswerTyped
<1>4. Messages \in Seq(Message) /\ Messages' = Append(Messages, a) /\ batch' \in Seq(Message)
  BY <1>1, <1>3, MessagesGrow
<1>5. /\ L \in Nat /\ DOMAIN Messages = 1..L /\ DOMAIN Messages' = 1..(L + 1)
      /\ \A i \in 1..L : Messages'[i] = Messages[i]
      /\ Messages'[L + 1] = a
  BY <1>3, <1>4, AppendIs
<1>6. m \in Nat /\ n \in 1..m /\ Len(buffer') = m - n /\ DOMAIN buffer = 1..m /\ DOMAIN buffer' = 1..(m - n)
      /\ \A i \in 1..(m - n) : buffer'[i] = buffer[n + i] /\ n + i \in 1..m
  BY <1>1, <1>2 DEF TypeOK
<1> HIDE DEF a, L, n, m
<1>7. Len(buffer') <= BufferSize
  BY <1>6, SizeAssumption DEF TypeOK, m
<1>8. Read' = Read /\ WireInv'
  BY <1>1 DEF Read, WireInv, Pos
<1>9. BufferInv'
  <2>1. \A i \in DOMAIN buffer' :
          IF buffer'[i].line = 0 THEN buffer'[i].ends ELSE Pos(buffer'[i]) <= Read
    BY <1>6 DEF BufferInv
  <2>2. ASSUME NEW i \in DOMAIN buffer', NEW j \in DOMAIN buffer', i < j,
               buffer'[i].line # 0, buffer'[j].line # 0
        PROVE  Pos(buffer'[i]) < Pos(buffer'[j])
    <3>1. /\ n + i \in DOMAIN buffer /\ n + j \in DOMAIN buffer /\ n + i < n + j
          /\ buffer'[i] = buffer[n + i] /\ buffer'[j] = buffer[n + j]
      BY <1>6, <2>2
    <3> QED BY <2>2, <3>1 DEF BufferInv
  <2> QED BY <1>8, <2>1, <2>2 DEF BufferInv, Pos
<1>10. MessagesInv'
  <2>1. ASSUME NEW i \in DOMAIN Messages', Messages'[i].line # 0
        PROVE  /\ 2 * Messages'[i].line <= Read
               /\ \A k \in DOMAIN buffer' :
                     buffer'[k].line # 0 => 2 * Messages'[i].line < Pos(buffer'[k])
    <3>1. CASE i = L + 1
      BY <1>1, <1>2, <1>3, <1>5, <2>1, <3>1
    <3>2. CASE i \in 1..L
      <4>1. i \in DOMAIN Messages /\ Messages'[i] = Messages[i]
        BY <1>5, <3>2
      <4>2. ASSUME NEW k \in DOMAIN buffer', buffer'[k].line # 0
            PROVE  2 * Messages[i].line < Pos(buffer'[k])
        <5>1. n + k \in DOMAIN buffer /\ buffer'[k] = buffer[n + k]
          BY <1>6
        <5> QED BY <2>1, <4>1, <4>2, <5>1 DEF MessagesInv
      <4> QED BY <2>1, <4>1, <4>2 DEF MessagesInv
    <3> QED BY <1>5, <3>1, <3>2
  <2>2. ASSUME NEW i \in DOMAIN Messages', NEW j \in DOMAIN Messages', i < j,
               Messages'[i].line # 0, Messages'[j].line # 0
        PROVE  Messages'[i].line < Messages'[j].line
    <3>1. i \in 1..L
      BY <1>5, <2>2
    <3>2. CASE j = L + 1
      BY <1>2, <1>3, <1>5, <2>2, <3>1, <3>2
    <3>3. CASE j \in 1..L
      BY <1>5, <2>2, <3>1, <3>3 DEF MessagesInv
    <3> QED BY <1>5, <3>2, <3>3
  <2> QED BY <1>8, <2>1, <2>2 DEF MessagesInv, Pos
<1>11. BatchInv'
  <2>1. \A i \in DOMAIN batch' : batch'[i].reply # "DELTA" /\ batch'[i].delta = 0
    <3>1. /\ DOMAIN batch' = 1..(Len(batch) + 1) /\ DOMAIN batch = 1..Len(batch) /\ Len(batch) \in Nat
          /\ \A i \in 1..Len(batch) : batch'[i] = batch[i]
          /\ batch'[Len(batch) + 1] = a
      BY <1>1, <1>3, AppendIs DEF TypeOK, a
    <3> QED BY <3>1, <1>3 DEF BatchInv
  <2> QED BY <2>1, <1>1 DEF BatchInv
<1>12. IntactInv'
  <2> SUFFICES ASSUME intact PROVE \E k \in Nat : Aligned(k)'
    BY <1>1 DEF IntactInv
  <2>1. PICK k \in Nat : Aligned(k)
    BY DEF IntactInv
  <2>2. LineNo = k + 1 /\ n = 2
    BY <1>1, <2>1, IntactLine DEF n
  <2>3. AnsweredTo(Messages', k + 1)
    BY <1>3, <1>4, <2>1, <2>2, AnsweredAppend DEF Aligned
  <2>4. Read' - Len(buffer') = 2 * (k + 1)
    <3>1. Read \in Int
      BY DEF Read, TypeOK
    <3>2. Read - m = 2 * k
      BY <2>1 DEF Aligned, m
    <3> QED BY <1>6, <1>8, <2>2, <3>1, <3>2
  <2>5. \A i \in DOMAIN buffer' : buffer'[i].line # 0 /\ Pos(buffer'[i]) = 2 * (k + 1) + i
    <3> SUFFICES ASSUME NEW i \in DOMAIN buffer'
                 PROVE  buffer'[i].line # 0 /\ Pos(buffer'[i]) = 2 * (k + 1) + i
      OBVIOUS
    <3>1. i \in Nat /\ buffer'[i] = buffer[2 + i] /\ 2 + i \in DOMAIN buffer
      BY <1>6, <2>2
    <3>2. buffer[2 + i].line # 0 /\ Pos(buffer[2 + i]) = 2 * k + (2 + i)
      BY <2>1, <3>1 DEF Aligned
    <3> QED BY <3>1, <3>2
  <2>6. Aligned(k + 1)' /\ k + 1 \in Nat
    BY <2>3, <2>4, <2>5 DEF Aligned, Pos
  <2> QED BY <2>6
<1> QED BY <1>1, <1>2, <1>4, <1>7, <1>8, <1>9, <1>10, <1>11, <1>12 DEF a

\* A message that changes what the client knows of its subscription.
IsChange(m) == m.line # 0 /\ m.reply = "OK" /\ sent[m.line] \in {"SUB", "UNSUB"}

LEMMA SaysAppend ==
    ASSUME NEW ms \in Seq(Message), NEW m \in Message
    PROVE  SaysSubscribed(Append(ms, m))
           <=> IF IsChange(m) THEN sent[m.line] = "SUB" ELSE SaysSubscribed(ms)
<1> DEFINE more == Append(ms, m)
           L == Len(ms)
<1>1. /\ L \in Nat /\ DOMAIN more = 1..(L + 1) /\ DOMAIN ms = 1..L
      /\ \A i \in 1..L : more[i] = ms[i]
      /\ more[L + 1] = m
  BY AppendIs
<1> HIDE DEF more, L
<1>2. /\ Changes(ms) \subseteq 1..L
      /\ \A i \in 1..L : i \in Changes(ms) <=> IsChange(ms[i])
      /\ Changes(more) \subseteq 1..(L + 1)
      /\ \A i \in 1..(L + 1) : i \in Changes(more) <=> IsChange(more[i])
  BY <1>1 DEF Changes, IsChange
<1>3. CASE IsChange(m)
  <2>1. L + 1 \in Changes(more) /\ \A j \in Changes(more) : j <= L + 1
    BY <1>1, <1>2, <1>3
  <2>2. SaysSubscribed(more) => sent[m.line] = "SUB"
    <3> SUFFICES ASSUME SaysSubscribed(more) PROVE sent[m.line] = "SUB"
      OBVIOUS
    <3>1. PICK i \in Changes(more) : sent[more[i].line] = "SUB" /\ \A j \in Changes(more) : j <= i
      BY DEF SaysSubscribed
    <3>2. i = L + 1
      BY <1>1, <1>2, <2>1, <3>1
    <3> QED BY <1>1, <3>1, <3>2
  <2>3. sent[m.line] = "SUB" => SaysSubscribed(more)
    BY <1>1, <2>1 DEF SaysSubscribed
  <2> QED BY <1>3, <2>2, <2>3 DEF more
<1>4. CASE ~IsChange(m)
  <2>1. Changes(more) = Changes(ms) /\ \A i \in Changes(ms) : more[i] = ms[i]
    <3>1. L + 1 \notin Changes(more)
      BY <1>1, <1>2, <1>4
    <3>2. \A i \in 1..L : more[i] = ms[i] /\ (i \in Changes(more) <=> i \in Changes(ms))
      <4> SUFFICES ASSUME NEW i \in 1..L
                   PROVE  more[i] = ms[i] /\ (i \in Changes(more) <=> i \in Changes(ms))
        OBVIOUS
      <4>1. i \in 1..(L + 1) /\ more[i] = ms[i]
        BY <1>1
      <4> QED BY <1>2, <4>1
    <3>3. \A i \in 1..(L + 1) : i \in 1..L \/ i = L + 1
      BY <1>1
    <3>4. \A i : i \in Changes(more) <=> i \in Changes(ms)
      BY <1>2, <3>1, <3>2, <3>3
    <3> QED BY <1>2, <3>2, <3>4
  <2>2. SaysSubscribed(more) <=> SaysSubscribed(ms)
    BY <2>1 DEF SaysSubscribed
  <2> QED BY <1>4, <2>2 DEF more
<1> QED BY <1>3, <1>4

\* What a line with the right password admits, it admits for good.
LEMMA GateKeeps ==
    ASSUME AuthInv, AuthGate, executed \in Seq(Execution),
           \A i \in DOMAIN executed :
              executed[i].line # 0 => sent'[executed[i].line] = sent[executed[i].line],
           \A i \in DOMAIN Messages : i \in DOMAIN Messages' /\ Messages'[i] = Messages[i],
           \/ executed' = executed /\ (RequireAuth /\ authenticated' => authenticated)
           \/ \E e \in Execution :
                 /\ executed' = Append(executed, e)
                 /\ RequireAuth /\ e.kind \in Gated => authenticated
                 /\ RequireAuth /\ authenticated' => authenticated \/ Admits(e)'
                 /\ e.line # 0 => /\ \A i \in DOMAIN Messages : Messages[i].line < e.line
                                  /\ \E i \in DOMAIN Messages' : Messages'[i].line = e.line
    PROVE  AuthInv' /\ AuthGate'
<1>1. \A i \in DOMAIN executed :
         executed[i].line # 0 => \E j \in DOMAIN Messages' : Messages'[j].line = executed[i].line
  BY DEF AuthInv
<1>2. \A i \in DOMAIN executed : Admits(executed[i]) => Admits(executed[i])'
      \/ executed'[i] # executed[i]
  BY DEF Admits
<1>3. CASE executed' = executed /\ (RequireAuth /\ authenticated' => authenticated)
  <2>1. AuthInv'
    BY <1>1, <1>2, <1>3 DEF AuthInv
  <2>2. AuthGate'
    <3> SUFFICES ASSUME RequireAuth, NEW i \in DOMAIN executed, executed[i].kind \in Gated
                 PROVE  \E j \in 1..(i - 1) :
                           /\ Admits(executed[j])'
                           /\ executed[i].line # 0 => executed[j].line < executed[i].line
      BY <1>3 DEF AuthGate
    <3>1. PICK j \in 1..(i - 1) :
             Admits(executed[j]) /\ (executed[i].line # 0 => executed[j].line < executed[i].line)
      BY DEF AuthGate
    <3>2. j \in DOMAIN executed
      BY <3>1
    <3> QED BY <1>2, <1>3, <3>1, <3>2
  <2> QED BY <2>1, <2>2
<1>4. ASSUME NEW e \in Execution, executed' = Append(executed, e),
             RequireAuth /\ e.kind \in Gated => authenticated,
             RequireAuth /\ authenticated' => authenticated \/ Admits(e)',
             e.line # 0 => /\ \A i \in DOMAIN Messages : Messages[i].line < e.line
                           /\ \E i \in DOMAIN Messages' : Messages'[i].line = e.line
      PROVE  AuthInv' /\ AuthGate'
  <2>1. PICK N \in Nat :
           /\ DOMAIN executed' = 1..(N + 1) /\ DOMAIN executed = 1..N
           /\ executed'[N + 1] = e
           /\ \A k \in 1..N : executed'[k] = executed[k]
    <3>1. Len(executed) \in Nat
      OBVIOUS
    <3> QED BY <1>4, <3>1, AppendIs
  <2>2. \A k \in 1..N : Admits(executed[k]) => Admits(executed[k])'
    BY <1>2, <2>1
  <2>3. Admits(e)' => Admits(executed[N + 1])'
    BY <2>1 DEF Admits
  <2>4. AuthInv'
    <3>1. RequireAuth /\ authenticated' => \E i \in DOMAIN executed' : Admits(executed[i])'
      <4> SUFFICES ASSUME RequireAuth, authenticated' PROVE \E i \in DOMAIN executed' : Admits(executed[i])'
        OBVIOUS
      <4>1. CASE authenticated
        <5>1. PICK i \in DOMAIN executed : Admits(executed[i])
          BY <4>1 DEF AuthInv
        <5>2. i \in DOMAIN executed' /\ Admits(executed[i])'
          BY <2>1, <2>2, <5>1
        <5> QED BY <5>2
      <4>2. CASE Admits(e)'
        <5>1. N + 1 \in DOMAIN executed'
          BY <2>1
        <5> QED BY <2>3, <4>2, <5>1
      <4> QED BY <1>4, <4>1, <4>2
    <3>2. ASSUME NEW i \in DOMAIN executed', executed'[i].line # 0
          PROVE  \E j \in DOMAIN Messages' : Messages'[j].line = executed'[i].line
      <4>1. CASE i \in 1..N
        BY <1>1, <2>1, <3>2, <4>1
      <4>2. CASE i = N + 1
        BY <1>4, <2>1, <3>2, <4>2
      <4> QED BY <2>1, <4>1, <4>2
    <3> QED BY <3>1, <3>2 DEF AuthInv
  <2>5. AuthGate'
    <3> SUFFICES ASSUME RequireAuth, NEW i \in DOMAIN executed', executed'[i].kind \in Gated
                 PROVE  \E j \in 1..(i - 1) :
                           /\ Admits(executed[j])'
                           /\ executed'[i].line # 0 => executed'[j].line < executed'[i].line
      BY DEF AuthGate, Gated
    <3>1. CASE i \in 1..N
      <4>1. executed'[i] = executed[i] /\ i \in DOMAIN executed
        BY <2>1, <3>1
      <4>2. PICK j \in 1..(i - 1) :
               Admits(executed[j]) /\ (executed[i].line # 0 => executed[j].line < executed[i].line)
        BY <4>1 DEF AuthGate
      <4>3. j \in 1..N /\ executed'[j] = executed[j]
        BY <2>1, <3>1, <4>2
      <4> QED BY <2>2, <4>1, <4>2, <4>3
    <3>2. CASE i = N + 1
      <4>1. executed'[i] = e /\ authenticated
        BY <1>4, <2>1, <3>2
      <4>2. PICK j \in DOMAIN executed : Admits(executed[j])
        BY <4>1 DEF AuthInv
      <4>3. j \in 1..(i - 1) /\ executed'[j] = executed[j] /\ Admits(executed[j])'
        BY <2>1, <2>2, <3>2, <4>2
      <4>4. e.line # 0 => executed[j].line < e.line
        <5> SUFFICES ASSUME e.line # 0 PROVE executed[j].line < e.line
          OBVIOUS
        <5>1. executed[j] \in Execution
          BY <4>2
        <5>2. executed[j].line \in Nat /\ e.line \in Nat
          BY <5>1 DEF Execution
        <5>3. executed[j].line # 0 => executed[j].line < e.line
          BY <1>4, <4>2 DEF AuthInv
        <5> QED BY <5>2, <5>3
      <4> QED BY <4>1, <4>3, <4>4
    <3> QED BY <2>1, <3>1, <3>2
  <2> QED BY <2>4, <2>5
<1> QED BY <1>3, <1>4

\* A step that adds at most a message loses none.
LEMMA MessagesStay ==
    ASSUME Messages \in Seq(Message),
           Messages' = Messages \/ \E m \in Message : Messages' = Append(Messages, m)
    PROVE  \A i \in DOMAIN Messages : i \in DOMAIN Messages' /\ Messages'[i] = Messages[i]
<1>1. ASSUME NEW m \in Message, Messages' = Append(Messages, m)
      PROVE  \A i \in DOMAIN Messages : i \in DOMAIN Messages' /\ Messages'[i] = Messages[i]
  BY <1>1, AppendIs
<1> QED BY <1>1

\* What the client was told and what is due to it are the same.
Untold == sent' = sent /\ out' = out /\ due' = due /\ missed' = missed /\ next' = next

LEMMA UntoldKeeps ==
    ASSUME DueInv, DueArrives, Untold, pc # "closed" \/ pc' = "closed",
           MangledUnsub => MangledUnsub'
    PROVE  /\ DueArrives'
           /\ due' # {} =>
                /\ Acknowledged'
                /\ \A i \in DOMAIN sent' :
                      sent'[i] = "UNSUB" => \E j \in DOMAIN out' : out'[j].line = i
<1>1. DueArrives'
  BY DEF DueArrives, Untold
<1>2. Acknowledged' <=> Acknowledged
  BY DEF Acknowledged, SaysSubscribed, Changes, Untold
<1> QED BY <1>1, <1>2 DEF DueInv, Untold

\* The command of one line, with what it does to the gate and to the
\* subscription.
LEMMA ProcessKeeps ==
    ASSUME IInv, NEW r \in Replies, NEW then \in {"process", "write"}, TakeLine(r, then),
           authenticated' \in BOOLEAN, subscribed' \in BOOLEAN,
           \/ executed' = executed /\ (RequireAuth /\ authenticated' => authenticated)
           \/ \E k \in Readings :
                 /\ Runs(k)
                 /\ RequireAuth /\ k \in Gated => authenticated
                 /\ RequireAuth /\ authenticated' => authenticated \/ k = "AUTH",
           (IF IsChange(Answer(LineNo, r)) THEN sent[LineNo] = "SUB" ELSE subscribed)
              => subscribed' \/ MangledUnsub',
           then = "write" => r = "PARSE_ERROR"
    PROVE  IInv'
<1> USE DEF IInv
<1>1. /\ Ends(buffer) # {} /\ pc = "process" /\ pc' = then
      /\ batch' = Append(batch, Answer(LineNo, r))
      /\ UNCHANGED <<transport, sent, wire, published, next, out, intact, due, missed>>
  BY DEF TakeLine
<1>2. /\ buffer' \in Seq(Piece) /\ Len(buffer') <= BufferSize /\ batch' \in Seq(Message)
      /\ Messages' = Append(Messages, Answer(LineNo, r))
      /\ WireInv' /\ BufferInv' /\ MessagesInv' /\ BatchInv' /\ IntactInv'
  BY TakeLineKeeps
<1> DEFINE a == Answer(LineNo, r)
<1>3. /\ LineNo \in Nat /\ a \in Message /\ a.line = LineNo /\ a.reply = r
      /\ LineNo # 0 => \A i \in DOMAIN Messages : Messages[i].line < LineNo
      /\ Messages \in Seq(Message)
      /\ Readings \subseteq AllKinds /\ (LineNo # 0 => Readings = {sent[LineNo]})
  BY <1>1, LineIs, AnswerTyped, MessagesGrow
<1>4. executed \in Seq(Execution) /\ \A k \in Readings : [line |-> LineNo, kind |-> k] \in Execution
  BY <1>3 DEF TypeOK, Execution
<1>5. /\ executed' \in Seq(Execution)
      /\ MangledUnsub => MangledUnsub'
  <2>1. ASSUME NEW k \in Readings, Runs(k)
        PROVE  executed' \in Seq(Execution) /\ (MangledUnsub => MangledUnsub')
    <3> DEFINE e == [line |-> LineNo, kind |-> k]
    <3>1. executed' = Append(executed, e) /\ e \in Execution
      BY <1>4, <2>1 DEF Runs
    <3> HIDE DEF e
    <3>2. /\ executed' \in Seq(Execution)
          /\ \A i \in DOMAIN executed : i \in DOMAIN executed' /\ executed'[i] = executed[i]
      BY <1>4, <3>1, AppendIs
    <3> QED BY <3>2 DEF MangledUnsub
  <2> QED BY <1>4, <2>1 DEF MangledUnsub
<1>6. TypeOK'
  BY <1>1, <1>2, <1>5 DEF TypeOK, Pcs
<1>7. \A i \in DOMAIN Messages : i \in DOMAIN Messages' /\ Messages'[i] = Messages[i]
  BY <1>2, <1>3, MessagesStay
<1>8. /\ DOMAIN Messages' = 1..(Len(Messages) + 1) /\ Len(Messages) \in Nat
      /\ Messages'[Len(Messages) + 1] = a
  BY <1>2, <1>3, AppendIs
<1> HIDE DEF a
<1>9. AuthInv' /\ AuthGate'
  <2>1. ASSUME NEW k \in Readings, Runs(k),
               RequireAuth /\ k \in Gated => authenticated,
               RequireAuth /\ authenticated' => authenticated \/ k = "AUTH"
        PROVE  \E e \in Execution :
                 /\ executed' = Append(executed, e)
                 /\ RequireAuth /\ e.kind \in Gated => authenticated
                 /\ RequireAuth /\ authenticated' => authenticated \/ Admits(e)'
                 /\ e.line # 0 => /\ \A i \in DOMAIN Messages : Messages[i].line < e.line
                                  /\ \E i \in DOMAIN Messages' : Messages'[i].line = e.line
    <3>1. PICK e \in Execution :
             e = [line |-> LineNo, kind |-> k] /\ e.line = LineNo /\ e.kind = k
      BY <1>4
    <3>2. executed' = Append(executed, e)
      BY <2>1, <3>1 DEF Runs
    <3>3. k = "AUTH" => Admits(e)'
      <4>1. e.line # 0 => sent'[e.line] = k
        BY <1>1, <1>3, <3>1
      <4> QED BY <3>1, <4>1 DEF Admits
    <3>4. \E i \in DOMAIN Messages' : Messages'[i].line = LineNo
      <4>1. Len(Messages) + 1 \in DOMAIN Messages'
        BY <1>8
      <4> QED BY <1>3, <1>8, <4>1
    <3>5. RequireAuth /\ authenticated' => authenticated \/ Admits(e)'
      BY <2>1, <3>3, Zenon
    <3>6. RequireAuth /\ e.kind \in Gated => authenticated
      BY <2>1, <3>1, Zenon
    <3>7. e.line # 0 => /\ \A i \in DOMAIN Messages : Messages[i].line < e.line
                        /\ \E i \in DOMAIN Messages' : Messages'[i].line = e.line
      BY <1>3, <3>1, <3>4
    <3> QED BY <3>2, <3>5, <3>6, <3>7
  <2>2. \A i \in DOMAIN executed :
          executed[i].line # 0 => sent'[executed[i].line] = sent[executed[i].line]
    BY <1>1
  <2> QED BY <1>4, <1>7, <2>1, <2>2, GateKeeps
<1>10. StrandedInv'
  <2>1. ASSUME pc' \in {"write", "select"}
        PROVE  \E i \in DOMAIN Messages' :
                  /\ Messages'[i].reply \in {"PARSE_ERROR", "TOO_LARGE"}
                  /\ \A j \in (i + 1)..Len(Messages') : Messages'[j].reply = "DELTA"
    <3>1. Messages'[Len(Messages) + 1].reply = "PARSE_ERROR"
      BY <1>1, <1>3, <1>8, <2>1
    <3>2. Len(Messages') = Len(Messages) + 1
      BY <1>2, <1>3, AppendIs DEF a
    <3> QED BY <1>8, <3>1, <3>2
  <2> QED BY <2>1 DEF StrandedInv
<1>11. DueInv' /\ DueArrives'
  <2>1. SaysSubscribed(Messages') <=> IF IsChange(a) THEN sent[a.line] = "SUB" ELSE SaysSubscribed(Messages)
    BY <1>2, <1>3, SaysAppend DEF a
  <2>2. SaysSubscribed(Messages') => subscribed' \/ MangledUnsub'
    BY <1>3, <1>5, <2>1 DEF DueInv, SubscribedInv, a
  <2>3. SaysSubscribed(Messages)' <=> SaysSubscribed(Messages')
    BY <1>1 DEF SaysSubscribed, Changes
  <2> QED BY <1>1, <1>5, <2>2, <2>3, UntoldKeeps DEF DueInv, SubscribedInv, Untold
<1> QED BY <1>2, <1>9, <1>10, <1>11, <1>6

\* A step that adds no message and leaves the stream alone.
LEMMA SameMessages ==
    ASSUME IInv, Messages' = Messages,
           UNCHANGED <<sent, wire, buffer, intact, authenticated, executed, subscribed>>,
           pc' \in {"write", "select"} /\ Ends(buffer) # {} => pc \in {"write", "select"}
    PROVE  /\ WireInv' /\ BufferInv' /\ MessagesInv' /\ IntactInv'
           /\ AuthInv' /\ AuthGate' /\ StrandedInv'
           /\ SubscribedInv' /\ (MangledUnsub => MangledUnsub')
<1>1. Read' = Read
  BY DEF Read
<1>2. WireInv' /\ BufferInv' /\ MessagesInv' /\ IntactInv'
  BY <1>1 DEF IInv, WireInv, BufferInv, MessagesInv, IntactInv, Aligned, Pos
<1>3. AuthInv' /\ AuthGate' /\ StrandedInv'
  BY DEF IInv, AuthInv, AuthGate, Admits, StrandedInv, Ends
<1>4. SaysSubscribed(Messages)' <=> SaysSubscribed(Messages)
  BY DEF SaysSubscribed, Changes
<1>5. MangledUnsub' <=> MangledUnsub
  BY DEF MangledUnsub
<1> QED BY <1>2, <1>3, <1>4, <1>5 DEF IInv, DueInv, SubscribedInv

\* A step that only moves the task.
LEMMA QuietKeeps ==
    ASSUME IInv, pc' \in Pcs,
           UNCHANGED <<transport, sent, wire, buffer, batch, authenticated, subscribed,
                       published, next, out, executed, intact, due, missed>>,
           pc' = "select" => batch = <<>>,
           pc' \in {"write", "select"} /\ Ends(buffer) # {} => pc \in {"write", "select"},
           pc # "closed" \/ pc' = "closed"
    PROVE  IInv'
<1>1. Messages' = Messages
  BY DEF Messages
<1>2. TypeOK' /\ BatchInv'
  BY DEF IInv, TypeOK, BatchInv
<1>3. DueInv' /\ DueArrives'
  BY <1>1, SameMessages, UntoldKeeps DEF IInv, DueInv, Untold
<1> QED BY <1>1, <1>2, <1>3, SameMessages DEF IInv

LEMMA ProcessSteps == IInv /\ Process => IInv'
<1> SUFFICES ASSUME IInv, Process PROVE IInv'
  OBVIOUS
<1>1. /\ authenticated \in BOOLEAN /\ subscribed \in BOOLEAN
      /\ {"PARSE_ERROR", "RATE_LIMITED", "PONG", "Goodbye", "OK", "WRONGPASS", "NOAUTH"}
           \subseteq Replies
  BY DEF IInv, TypeOK, Replies
<1>2. \A r \in Replies : /\ Answer(LineNo, r).line = LineNo /\ Answer(LineNo, r).reply = r
  BY DEF Answer
<1>3. \A r \in Replies \ {"OK"} : ~IsChange(Answer(LineNo, r))
  BY <1>2 DEF IsChange
<1>4. Ends(buffer) # {} /\ LineNo # 0 => Readings = {sent[LineNo]}
  BY LineIs DEF IInv
<1>5. CASE NeedMoreData
  BY <1>5, QuietKeeps DEF NeedMoreData, hist, Pcs
<1>6. CASE ParseError
  BY <1>1, <1>3, <1>6, ProcessKeeps DEF ParseError
<1>7. CASE RateLimited
  BY <1>1, <1>3, <1>7, ProcessKeeps DEF RateLimited
<1>8. CASE PingOrQuit
  BY <1>1, <1>3, <1>8, ProcessKeeps DEF PingOrQuit
<1>9. CASE HandleAuth
  <2>1. CASE /\ TakeLine("WRONGPASS", "process") /\ UNCHANGED authenticated
             /\ "WRONG" \in Readings /\ Runs("WRONG")
    <3>1. "WRONG" \notin Gated
      BY DEF Gated
    <3> QED BY <1>1, <1>3, <1>9, <2>1, <3>1, ProcessKeeps DEF HandleAuth
  <2>2. CASE /\ TakeLine("OK", "process") /\ authenticated' = TRUE
             /\ \E k \in Readings \cap {"AUTH", "WRONG"} : Runs(k) /\ (k = "AUTH" \/ ~RequireAuth)
    <3>1. Ends(buffer) # {}
      BY <2>2 DEF TakeLine
    <3>2. PICK k \in Readings \cap {"AUTH", "WRONG"} : Runs(k) /\ (k = "AUTH" \/ ~RequireAuth)
      BY <2>2
    <3>3. k \notin Gated
      BY DEF Gated
    <3>4. ~IsChange(Answer(LineNo, "OK"))
      <4>1. LineNo # 0 => sent[LineNo] = k
        BY <1>4, <3>1
      <4> QED BY <1>1, <1>2, <4>1 DEF IsChange
    <3>5. RequireAuth /\ authenticated' => k = "AUTH"
      BY <3>2, Zenon
    <3> QED BY <1>1, <1>9, <2>2, <3>2, <3>3, <3>4, <3>5, ProcessKeeps DEF HandleAuth
  <2> QED BY <1>9, <2>1, <2>2 DEF HandleAuth
<1>10. CASE NoAuth
  BY <1>1, <1>3, <1>10, ProcessKeeps DEF NoAuth
<1>11. CASE HandleCommand
  <2>1. TakeLine("OK", "process") /\ Ends(buffer) # {}
    BY <1>11 DEF HandleCommand, TakeLine
  <2>2. PICK k \in Readings \cap Gated :
           /\ Runs(k)
           /\ subscribed' = CASE k = "SUB" -> TRUE
                              [] k = "UNSUB" -> FALSE
                              [] k = "SET" -> subscribed
    BY <1>11 DEF HandleCommand
  <2>3. subscribed' = IF k = "SUB" THEN TRUE ELSE IF k = "UNSUB" THEN FALSE ELSE subscribed
    BY <2>2 DEF Gated
  <2>4. LineNo # 0 => k = sent[LineNo]
    BY <1>4, <2>1, <2>2
  <2>5. LineNo = 0 /\ k = "UNSUB" => MangledUnsub'
    <3> SUFFICES ASSUME LineNo = 0, k = "UNSUB" PROVE MangledUnsub'
      OBVIOUS
    <3> DEFINE e == [line |-> 0, kind |-> "UNSUB"]
    <3>1. executed \in Seq(Execution) /\ e \in Execution /\ executed' = Append(executed, e)
      BY <2>2 DEF IInv, TypeOK, Execution, AllKinds, Runs
    <3>2. Len(executed) + 1 \in DOMAIN executed' /\ executed'[Len(executed) + 1] = e
      BY <3>1, AppendIs
    <3> QED BY <3>2 DEF MangledUnsub
  <2>6. subscribed' \in BOOLEAN
        /\ ((IF IsChange(Answer(LineNo, "OK")) THEN sent[LineNo] = "SUB" ELSE subscribed)
              => subscribed' \/ MangledUnsub')
    BY <1>1, <1>2, <2>2, <2>3, <2>4, <2>5 DEF IsChange, Gated
  <2>7. RequireAuth => authenticated
    BY <1>11 DEF HandleCommand
  <2>8. authenticated' = authenticated
    BY <1>11 DEF HandleCommand
  <2> QED BY <1>1, <2>1, <2>2, <2>6, <2>7, <2>8, ProcessKeeps
<1> QED BY <1>5, <1>6, <1>7, <1>8, <1>9, <1>10, <1>11 DEF Process

\* The client sends: what was said of lines sent before stays.
LEMMA SendKeeps == ASSUME IInv, NEW k \in Kinds, Send(k) PROVE IInv'
<1> USE DEF IInv
<1>1. /\ sent' = Append(sent, k) /\ wire' = wire \o Pieces(Len(sent) + 1)
      /\ due' = IF k = "UNSUB" THEN {} ELSE due
      /\ UNCHANGED <<transport, buffer, pc, batch, authenticated, subscribed,
                     published, next, out, executed, intact, missed>>
  BY DEF Send
<1> DEFINE L == Len(sent)
           w == Len(wire)
           more == Pieces(L + 1)
<1>2. /\ L \in Nat /\ Len(sent') = L + 1 /\ DOMAIN sent = 1..L /\ DOMAIN sent' = 1..(L + 1)
      /\ \A i \in 1..L : sent'[i] = sent[i]
      /\ sent'[L + 1] = k /\ sent' \in Seq(Kinds)
  BY <1>1, AppendIs DEF TypeOK
<1>3. /\ more \in Seq(Piece) /\ Len(more) = 2
      /\ more[1] = [line |-> L + 1, ends |-> FALSE] /\ more[2] = [line |-> L + 1, ends |-> TRUE]
  BY <1>2 DEF Pieces, Piece
<1> HIDE DEF more
<1>4. /\ wire' \in Seq(Piece) /\ w \in Nat /\ Len(wire') = w + 2
      /\ DOMAIN wire = 1..w /\ DOMAIN wire' = 1..(w + 2)
      /\ \A i \in 1..w : wire'[i] = wire[i]
      /\ wire'[w + 1] = more[1] /\ wire'[w + 2] = more[2]
  <2>1. wire \in Seq(Piece) /\ wire' = wire \o more
    BY <1>1 DEF TypeOK, more
  <2>2. /\ wire' \in Seq(Piece) /\ w \in Nat /\ Len(wire') = w + Len(more)
        /\ DOMAIN wire = 1..w /\ DOMAIN wire' = 1..(w + Len(more))
        /\ \A i \in 1..w : wire'[i] = wire[i]
        /\ \A i \in 1..Len(more) : wire'[w + i] = more[i]
    <3>1. more \in Seq(Piece)
      BY <1>3
    <3> QED BY <2>1, <3>1, ConcatIs
  <2>3. Len(more) = 2 /\ 1 \in 1..2 /\ 2 \in 1..2
    BY <1>3
  <2> QED BY <2>2, <2>3
<1> HIDE DEF L, w
<1>5. Read' = Read /\ Read = 2 * L - w
  BY <1>2, <1>4 DEF Read, L, w
<1>6. Messages' = Messages /\ Messages \in Seq(Message)
  BY <1>1 DEF Messages, TypeOK
<1>7. TypeOK'
  BY <1>1, <1>2, <1>4 DEF TypeOK
<1>8. WireInv'
  <2>1. ASSUME NEW i \in DOMAIN wire' PROVE wire'[i].line # 0 /\ Pos(wire'[i]) = Read + i
    <3>1. CASE i \in 1..w
      BY <1>4, <3>1 DEF WireInv
    <3>2. CASE i = w + 1
      <4>1. wire'[i] = [line |-> L + 1, ends |-> FALSE]
        BY <1>3, <1>4, <3>2
      <4>2. wire'[i].line = L + 1 /\ wire'[i].ends = FALSE
        BY <4>1
      <4>3. Pos(wire'[i]) = 2 * (L + 1) - 1
        BY <1>2, <4>2 DEF Pos
      <4>4. w \in Nat /\ L \in Nat /\ L + 1 # 0
        BY <1>2, <1>4
      <4> QED BY <1>5, <3>2, <4>2, <4>3, <4>4
    <3>3. CASE i = w + 2
      <4>1. wire'[i] = [line |-> L + 1, ends |-> TRUE]
        BY <1>3, <1>4, <3>3
      <4>2. wire'[i].line = L + 1 /\ wire'[i].ends = TRUE
        BY <4>1
      <4>3. Pos(wire'[i]) = 2 * (L + 1) - 0
        BY <1>2, <4>2 DEF Pos
      <4>4. w \in Nat /\ L \in Nat /\ L + 1 # 0
        BY <1>2, <1>4
      <4> QED BY <1>5, <3>3, <4>2, <4>3, <4>4
    <3> QED BY <1>4, <3>1, <3>2, <3>3
  <2> QED BY <1>5, <2>1 DEF WireInv, Pos
<1>9. BufferInv' /\ MessagesInv' /\ IntactInv'
  BY <1>1, <1>5, <1>6 DEF BufferInv, MessagesInv, IntactInv, Aligned, Pos
<1>10. BatchInv' /\ StrandedInv'
  BY <1>1, <1>6 DEF BatchInv, StrandedInv, Ends
<1>11. \A i \in DOMAIN Messages : Messages[i].line # 0 => Messages[i].line \in 1..L
  <2>1. \A i \in DOMAIN Messages : Messages[i] \in Message
    BY <1>6
  <2>2. \A i \in DOMAIN Messages : Messages[i].line \in Nat
    BY <2>1 DEF Message
  <2> QED BY <1>2, <1>4, <1>5, <2>2 DEF MessagesInv
<1>12. AuthInv' /\ AuthGate'
  <2>1. \A i \in DOMAIN executed :
          executed[i].line # 0 => sent'[executed[i].line] = sent[executed[i].line]
    BY <1>2, <1>11 DEF AuthInv
  <2>2. executed \in Seq(Execution)
    BY DEF TypeOK
  <2> QED BY <1>1, <1>6, <2>1, <2>2, GateKeeps
<1>13. Changes(Messages)' = Changes(Messages) /\ (SaysSubscribed(Messages)' <=> SaysSubscribed(Messages))
  <2>1. \A i \in DOMAIN Messages : Messages[i].line # 0 => sent'[Messages[i].line] = sent[Messages[i].line]
    BY <1>2, <1>11
  <2>2. Changes(Messages)' = Changes(Messages)
    BY <1>6, <2>1 DEF Changes
  <2>3. \A i \in Changes(Messages) : sent'[Messages[i].line] = sent[Messages[i].line]
    BY <2>1 DEF Changes
  <2> QED BY <1>6, <2>2, <2>3 DEF SaysSubscribed
<1>14. Acknowledged' <=> Acknowledged
  <2>1. \A i \in DOMAIN out : i \in DOMAIN Messages /\ Messages[i] = out[i]
    BY DEF Messages, TypeOK
  <2>2. \A i \in DOMAIN out : out[i].line # 0 => sent'[out[i].line] = sent[out[i].line]
    BY <1>2, <1>11, <2>1
  <2>3. Changes(out)' = Changes(out)
    BY <1>1, <2>2 DEF Changes
  <2>4. \A i \in Changes(out) : sent'[out[i].line] = sent[out[i].line]
    BY <2>2 DEF Changes
  <2> QED BY <1>1, <2>3, <2>4 DEF Acknowledged, SaysSubscribed
<1>15. DueInv' /\ DueArrives'
  <2>1. SubscribedInv' /\ (MangledUnsub' <=> MangledUnsub)
    BY <1>1, <1>13 DEF DueInv, SubscribedInv, MangledUnsub
  <2>2. ASSUME due' # {}
        PROVE  /\ Acknowledged'
               /\ \A i \in DOMAIN sent' : sent'[i] = "UNSUB" => \E j \in DOMAIN out' : out'[j].line = i
    <3>1. k # "UNSUB" /\ due # {}
      BY <1>1, <2>2
    <3> QED BY <1>1, <1>2, <1>14, <3>1 DEF DueInv
  <2>3. DueArrives'
    BY <1>1, <2>1 DEF DueArrives
  <2> QED BY <2>1, <2>2, <2>3 DEF DueInv
<1> QED BY <1>7, <1>8, <1>9, <1>10, <1>12, <1>15

\* Reading n pieces takes the next n of the stream.
LEMMA Reads ==
    ASSUME IInv, NEW n \in DOMAIN wire, sent' = sent, wire' = SubSeq(wire, n + 1, Len(wire))
    PROVE  /\ wire' \in Seq(Piece) /\ WireInv' /\ Read' = Read + n /\ Read \in Int
           /\ n \in Nat /\ n >= 1 /\ n <= Len(wire)
           /\ \A i \in 1..n : wire[i] \in Piece /\ wire[i].line # 0 /\ Pos(wire[i]) = Read + i
<1> DEFINE w == Len(wire)
<1>1. /\ wire \in Seq(Piece) /\ w \in Nat /\ DOMAIN wire = 1..w /\ n \in 1..w /\ Len(sent) \in Nat
      /\ \A i \in 1..w : wire[i] \in Piece
  BY DEF IInv, TypeOK
<1>2. /\ wire' \in Seq(Piece) /\ Len(wire') = w - n /\ DOMAIN wire' = 1..(w - n)
      /\ \A i \in 1..(w - n) : wire'[i] = wire[n + i]
  BY <1>1
<1> HIDE DEF w
<1>3. Read' = Read + n /\ Read \in Int
  BY <1>1, <1>2 DEF Read, w
<1>4. \A i \in 1..w : wire[i].line # 0 /\ Pos(wire[i]) = Read + i
  BY <1>1 DEF IInv, WireInv
<1>5. Read >= 0
  BY DEF IInv, WireInv
<1>6. ASSUME NEW i \in DOMAIN wire' PROVE wire'[i].line # 0 /\ Pos(wire'[i]) = (Read + n) + i
  <2>1. n + i \in 1..w /\ wire'[i] = wire[n + i] /\ i \in Nat
    BY <1>1, <1>2
  <2>2. Pos(wire[n + i]) = Read + (n + i) /\ wire[n + i].line # 0
    BY <1>4, <2>1
  <2>3. Read + (n + i) = (Read + n) + i
    BY <1>1, <1>3, <2>1
  <2> QED BY <2>1, <2>2, <2>3
<1>7. WireInv'
  BY <1>1, <1>3, <1>5, <1>6 DEF WireInv, Pos
<1> QED BY <1>1, <1>2, <1>3, <1>4, <1>7 DEF w

\* What the parser accepts goes to the end of its buffer.
LEMMA FrameIs ==
    ASSUME IInv, NEW n \in DOMAIN wire
    PROVE  /\ Frame(n) \in Seq(Piece) /\ Len(Frame(n)) \in {n, n + 1}
           /\ \A i \in 1..n : Frame(n)[i] = wire[i]
           /\ Len(Frame(n)) = n + 1 => Frame(n)[n + 1] = AddedNewline
<1> DEFINE pieces == SubSeq(wire, 1, n)
<1>1. wire \in Seq(Piece) /\ n \in 1..Len(wire) /\ Len(wire) \in Nat
  BY DEF IInv, TypeOK
<1>2. pieces \in Seq(Piece) /\ Len(pieces) = n /\ \A i \in 1..n : pieces[i] = wire[i]
  BY <1>1
<1>3. Frame(n) = IF transport = "text" /\ ~pieces[n].ends THEN Append(pieces, AddedNewline) ELSE pieces
  BY DEF Frame
<1> HIDE DEF pieces
<1>4. AddedNewline \in Piece
  BY DEF AddedNewline, Newline, Piece
<1>5. /\ Append(pieces, AddedNewline) \in Seq(Piece) /\ Len(Append(pieces, AddedNewline)) = n + 1
      /\ \A i \in 1..n : Append(pieces, AddedNewline)[i] = wire[i]
      /\ Append(pieces, AddedNewline)[n + 1] = AddedNewline
  BY <1>2, <1>4, AppendIs
<1> QED BY <1>1, <1>2, <1>3, <1>5

LEMMA AcceptKeeps ==
    ASSUME IInv, NEW n \in DOMAIN wire, pc = "select",
           wire' = SubSeq(wire, n + 1, Len(wire)),
           Len(buffer) + Len(Frame(n)) <= BufferSize,
           buffer' = buffer \o Frame(n), pc' = "process", batch' = <<>>,
           intact' = (intact /\ Len(Frame(n)) = n),
           UNCHANGED <<transport, sent, authenticated, subscribed, published, next,
                       out, executed, due, missed>>
    PROVE  IInv'
<1> USE DEF IInv
<1> DEFINE m == Len(buffer)
           f == Frame(n)
<1>1. /\ wire' \in Seq(Piece) /\ WireInv' /\ Read' = Read + n /\ Read \in Int
      /\ n \in Nat /\ n >= 1
      /\ \A i \in 1..n : wire[i] \in Piece /\ wire[i].line # 0 /\ Pos(wire[i]) = Read + i
  BY Reads
<1>2. /\ f \in Seq(Piece) /\ Len(f) \in {n, n + 1}
      /\ \A i \in 1..n : f[i] = wire[i]
      /\ Len(f) = n + 1 => f[n + 1] = AddedNewline
  BY FrameIs
<1> HIDE DEF f
<1>3. /\ buffer' \in Seq(Piece) /\ m \in Nat /\ Len(buffer') = m + Len(f)
      /\ DOMAIN buffer = 1..m /\ DOMAIN buffer' = 1..(m + Len(f))
      /\ \A i \in 1..m : buffer'[i] = buffer[i]
      /\ \A i \in 1..Len(f) : buffer'[m + i] = f[i]
  BY <1>2, ConcatIs DEF TypeOK, f
<1> HIDE DEF m
<1>4. Messages' = Messages /\ batch = <<>>
  BY DEF Messages, BatchInv
<1>5. TypeOK'
  <2>1. Len(buffer') <= BufferSize
    BY <1>3 DEF f, m
  <2>2. intact' \in BOOLEAN
    BY Zenon
  <2>3. batch' \in Seq(Message)
    OBVIOUS
  <2>4. TypeOK
    OBVIOUS
  <2> HIDE DEF IInv
  <2> QED BY <1>1, <1>3, <2>1, <2>2, <2>3, <2>4 DEF TypeOK, Pcs
\* A piece of the new buffer is one of the old, one of the wire, or the newline
\* that was added.
<1>6. ASSUME NEW i \in DOMAIN buffer'
      PROVE  \/ i \in DOMAIN buffer /\ buffer'[i] = buffer[i]
             \/ \E k \in 1..n : i = m + k /\ buffer'[i] = wire[k]
             \/ i = m + n + 1 /\ Len(f) = n + 1 /\ buffer'[i] = AddedNewline
  <2>1. CASE i \in 1..m
    BY <1>3, <2>1
  <2>2. CASE i \notin 1..m
    <3>1. PICK k \in 1..Len(f) : i = m + k
      <4>1. m \in Nat /\ Len(f) \in Nat /\ i \in 1..(m + Len(f)) /\ i \notin 1..m
        BY <1>1, <1>2, <1>3, <2>2
      <4>2. i - m \in 1..Len(f) /\ i = m + (i - m)
        BY <4>1
      <4> QED BY <4>2
    <3>2. buffer'[i] = f[k]
      BY <1>3, <3>1
    <3>3. CASE k \in 1..n
      BY <1>2, <3>1, <3>2, <3>3
    <3>4. CASE k \notin 1..n
      <4>1. k = n + 1 /\ Len(f) = n + 1
        BY <1>1, <1>2, <3>1, <3>4
      <4> QED BY <1>1, <1>2, <1>3, <3>1, <3>2, <4>1
    <3> QED BY <3>3, <3>4
  <2> QED BY <2>1, <2>2
<1>7. AddedNewline.line = 0 /\ AddedNewline.ends = TRUE
  BY DEF AddedNewline, Newline
<1>8. \A i \in DOMAIN buffer : buffer[i] \in Piece /\ Pos(buffer[i]) \in Int
  <2>1. \A i \in DOMAIN buffer : buffer[i] \in Piece
    BY DEF TypeOK
  <2> QED BY <2>1, PosIs
<1>9. BufferInv'
  <2>1. ASSUME NEW i \in DOMAIN buffer'
        PROVE  IF buffer'[i].line = 0 THEN buffer'[i].ends ELSE Pos(buffer'[i]) <= Read + n
    <3>1. CASE i \in DOMAIN buffer /\ buffer'[i] = buffer[i]
      <4>1. IF buffer[i].line = 0 THEN buffer[i].ends ELSE Pos(buffer[i]) <= Read
        BY <3>1 DEF BufferInv
      <4> QED BY <1>1, <1>8, <3>1, <4>1
    <3>2. ASSUME NEW k \in 1..n, i = m + k, buffer'[i] = wire[k]
          PROVE  IF buffer'[i].line = 0 THEN buffer'[i].ends ELSE Pos(buffer'[i]) <= Read + n
      <4>1. wire[k].line # 0 /\ Pos(wire[k]) = Read + k
        BY <1>1
      <4>2. Read + k <= Read + n
        BY <1>1
      <4> QED BY <3>2, <4>1, <4>2
    <3> QED BY <1>6, <1>7, <3>1, <3>2
  <2>2. ASSUME NEW i \in DOMAIN buffer', NEW j \in DOMAIN buffer', i < j,
               buffer'[i].line # 0, buffer'[j].line # 0
        PROVE  Pos(buffer'[i]) < Pos(buffer'[j])
    <3>1. CASE j \in DOMAIN buffer
      <4>1. i \in DOMAIN buffer
        BY <1>3, <2>2, <3>1
      <4> QED BY <1>3, <2>2, <3>1, <4>1 DEF BufferInv
    <3>2. ASSUME NEW k \in 1..n, j = m + k, buffer'[j] = wire[k]
          PROVE  Pos(buffer'[i]) < Pos(buffer'[j])
      <4>1. Pos(wire[k]) = Read + k
        BY <1>1
      <4>2. CASE i \in DOMAIN buffer /\ buffer'[i] = buffer[i]
        <5>1. Pos(buffer[i]) <= Read /\ Pos(buffer[i]) \in Int
          BY <1>8, <2>2, <4>2 DEF BufferInv
        <5>2. Pos(buffer[i]) < Read + k
          BY <1>1, <5>1
        <5> QED BY <3>2, <4>1, <4>2, <5>2
      <4>3. ASSUME NEW h \in 1..n, i = m + h, buffer'[i] = wire[h]
            PROVE  Pos(buffer'[i]) < Pos(buffer'[j])
        <5>1. Pos(wire[h]) = Read + h /\ h < k
          BY <1>1, <1>3, <2>2, <3>2, <4>3
        <5>2. Read + h < Read + k
          BY <1>1, <5>1
        <5> QED BY <3>2, <4>1, <4>3, <5>1, <5>2
      <4> QED BY <1>6, <1>7, <2>2, <4>2, <4>3
    <3> QED BY <1>6, <1>7, <2>2, <3>1, <3>2
  <2> QED BY <1>1, <2>1, <2>2 DEF BufferInv, Pos
<1>10. MessagesInv'
  <2>1. \A i \in DOMAIN Messages : Messages[i].line \in Nat
    <3>1. Messages \in Seq(Message)
      BY DEF Messages, TypeOK
    <3>2. \A i \in DOMAIN Messages : Messages[i] \in Message
      BY <3>1
    <3> QED BY <3>2 DEF Message
  <2>2. ASSUME NEW i \in DOMAIN Messages, Messages[i].line # 0
        PROVE  /\ 2 * Messages[i].line <= Read + n
               /\ \A k \in DOMAIN buffer' :
                     buffer'[k].line # 0 => 2 * Messages[i].line < Pos(buffer'[k])
    <3>1. 2 * Messages[i].line <= Read
      BY <2>2 DEF MessagesInv
    <3>2. ASSUME NEW k \in DOMAIN buffer', buffer'[k].line # 0
          PROVE  2 * Messages[i].line < Pos(buffer'[k])
      <4>1. CASE k \in DOMAIN buffer /\ buffer'[k] = buffer[k]
        BY <2>2, <3>2, <4>1 DEF MessagesInv
      <4>2. ASSUME NEW h \in 1..n, buffer'[k] = wire[h]
            PROVE  2 * Messages[i].line < Pos(buffer'[k])
        <5>1. Pos(wire[h]) = Read + h
          BY <1>1
        <5>2. 2 * Messages[i].line < Read + h
          BY <1>1, <2>1, <3>1
        <5> QED BY <4>2, <5>1, <5>2
      <4> QED BY <1>6, <1>7, <3>2, <4>1, <4>2
    <3>3. 2 * Messages[i].line <= Read + n
      BY <1>1, <2>1, <3>1
    <3> QED BY <3>2, <3>3
  <2> QED BY <1>1, <1>4, <2>2 DEF MessagesInv, Pos
<1>11. BatchInv'
  BY DEF BatchInv
<1>12. IntactInv'
  <2> SUFFICES ASSUME intact, Len(f) = n PROVE \E k \in Nat : Aligned(k)'
    BY DEF IntactInv, f
  <2>1. PICK k \in Nat : Aligned(k)
    BY DEF IntactInv
  <2>2. Read - m = 2 * k /\ AnsweredTo(Messages, k)
    BY <2>1 DEF Aligned, m
  <2>3. Read' - Len(buffer') = 2 * k
    BY <1>1, <1>3, <2>2
  <2>4. ASSUME NEW i \in DOMAIN buffer'
        PROVE  buffer'[i].line # 0 /\ Pos(buffer'[i]) = 2 * k + i
    <3>1. CASE i \in DOMAIN buffer /\ buffer'[i] = buffer[i]
      BY <2>1, <3>1 DEF Aligned
    <3>2. ASSUME NEW h \in 1..n, i = m + h, buffer'[i] = wire[h]
          PROVE  buffer'[i].line # 0 /\ Pos(buffer'[i]) = 2 * k + i
      <4>1. wire[h].line # 0 /\ Pos(wire[h]) = Read + h
        BY <1>1
      <4>2. Read + h = 2 * k + i
        BY <1>1, <1>3, <2>2, <3>2
      <4> QED BY <3>2, <4>1, <4>2
    <3>3. ~(Len(f) = n + 1)
      BY <1>1
    <3> QED BY <1>6, <3>1, <3>2, <3>3
  <2>5. Aligned(k)'
    BY <1>4, <2>2, <2>3, <2>4 DEF Aligned, Pos, AnsweredTo
  <2> QED BY <2>5
<1>13. AuthInv' /\ AuthGate' /\ StrandedInv'
  BY <1>4 DEF AuthInv, AuthGate, Admits, StrandedInv
<1>14. DueInv' /\ DueArrives'
  <2>1. SaysSubscribed(Messages)' <=> SaysSubscribed(Messages)
    BY <1>4 DEF SaysSubscribed, Changes
  <2>2. MangledUnsub' <=> MangledUnsub
    BY DEF MangledUnsub
  <2> QED BY <2>1, <2>2, UntoldKeeps DEF DueInv, SubscribedInv, Untold
<1> QED BY <1>1, <1>5, <1>9, <1>10, <1>11, <1>12, <1>13, <1>14

LEMMA RefuseKeeps ==
    ASSUME IInv, NEW n \in DOMAIN wire, pc = "select",
           wire' = SubSeq(wire, n + 1, Len(wire)),
           pc' = "write", batch' = <<Answer(0, "TOO_LARGE")>>, intact' = FALSE,
           UNCHANGED <<transport, sent, buffer, authenticated, subscribed, published, next,
                       out, executed, due, missed>>
    PROVE  IInv'
<1> USE DEF IInv
<1> DEFINE a == Answer(0, "TOO_LARGE")
           L == Len(Messages)
<1>1. wire' \in Seq(Piece) /\ WireInv' /\ Read' = Read + n /\ Read \in Int /\ n \in Nat
  BY Reads
<1>2. a \in Message /\ a.line = 0 /\ a.reply = "TOO_LARGE" /\ a.delta = 0
  BY AnswerTyped DEF Replies
<1> HIDE DEF a
<1>3. batch = <<>> /\ batch' = Append(batch, a)
  BY DEF BatchInv, a
<1>4. Messages \in Seq(Message) /\ Messages' = Append(Messages, a) /\ batch' \in Seq(Message)
  BY <1>2, <1>3, MessagesGrow
<1>5. /\ L \in Nat /\ DOMAIN Messages = 1..L /\ DOMAIN Messages' = 1..(L + 1)
      /\ \A i \in 1..L : Messages'[i] = Messages[i]
      /\ Messages'[L + 1] = a /\ Len(Messages') = L + 1
  BY <1>2, <1>4, AppendIs
<1> HIDE DEF L
<1>6. TypeOK'
  BY <1>1, <1>4 DEF TypeOK, Pcs
<1>7. BufferInv'
  <2>1. \A i \in DOMAIN buffer : buffer[i] \in Piece
    BY DEF TypeOK
  <2>2. \A i \in DOMAIN buffer : Pos(buffer[i]) \in Int
    BY <2>1, PosIs
  <2> QED BY <1>1, <2>2 DEF BufferInv, Pos
<1>8. MessagesInv'
  <2>1. \A i \in DOMAIN Messages : Messages[i].line \in Nat
    <3>1. \A i \in DOMAIN Messages : Messages[i] \in Message
      BY <1>4
    <3> QED BY <3>1 DEF Message
  <2>2. ASSUME NEW i \in DOMAIN Messages', Messages'[i].line # 0
        PROVE  i \in DOMAIN Messages /\ Messages'[i] = Messages[i]
    BY <1>2, <1>5, <2>2
  <2>3. \A i \in DOMAIN Messages : Messages[i].line # 0 => 2 * Messages[i].line <= Read + n
    BY <1>1, <2>1 DEF MessagesInv
  <2> QED BY <1>1, <2>2, <2>3 DEF MessagesInv, Pos
<1>9. BatchInv'
  <2>1. \A i \in DOMAIN batch' : batch'[i] = a
    BY DEF a
  <2> QED BY <1>2, <2>1 DEF BatchInv
<1>10. IntactInv'
  BY DEF IntactInv
<1>11. \A i \in DOMAIN Messages : i \in DOMAIN Messages' /\ Messages'[i] = Messages[i]
  BY <1>2, <1>4, MessagesStay
<1>12. AuthInv' /\ AuthGate'
  <2>1. executed \in Seq(Execution)
    BY DEF TypeOK
  <2> QED BY <1>11, <2>1, GateKeeps
<1>13. StrandedInv'
  <2>1. Messages'[L + 1].reply \in {"PARSE_ERROR", "TOO_LARGE"} /\ L + 1 \in DOMAIN Messages'
    BY <1>2, <1>5
  <2>2. \A j \in ((L + 1) + 1)..Len(Messages') : FALSE
    BY <1>5
  <2> QED BY <2>1, <2>2 DEF StrandedInv
<1>14. DueInv' /\ DueArrives'
  <2>1. SaysSubscribed(Messages') <=> SaysSubscribed(Messages)
    BY <1>2, <1>4, SaysAppend DEF IsChange
  <2>2. SaysSubscribed(Messages)' <=> SaysSubscribed(Messages')
    BY DEF SaysSubscribed, Changes
  <2>3. MangledUnsub' <=> MangledUnsub
    BY DEF MangledUnsub
  <2> QED BY <2>1, <2>2, <2>3, UntoldKeeps DEF DueInv, SubscribedInv, Untold
<1> QED BY <1>1, <1>6, <1>7, <1>8, <1>9, <1>10, <1>12, <1>13, <1>14

\* An answer that is written is one the client knows of; nothing else changes.
LEMMA WriteKeeps == IInv /\ Write => IInv'
<1> SUFFICES ASSUME IInv, Write PROVE IInv'
  OBVIOUS
<1> DEFINE h == Head(batch)
           L == Len(out)
<1>1. /\ batch # <<>> /\ out' = Append(out, h) /\ batch' = Tail(batch) /\ pc = "write"
      /\ pc' \in {"closed", "write"}
      /\ UNCHANGED <<transport, sent, wire, buffer, authenticated, subscribed,
                     published, next, executed, intact, due, missed>>
  BY DEF Write, Written
<1>2. batch \in Seq(Message) /\ out \in Seq(Message) /\ TypeOK
  BY DEF IInv, TypeOK
<1>3. /\ h \in Message /\ h = batch[1] /\ 1 \in DOMAIN batch /\ batch' \in Seq(Message)
      /\ \A i \in DOMAIN batch' : i + 1 \in DOMAIN batch /\ batch'[i] = batch[i + 1]
  BY <1>1, <1>2
<1>4. Messages' = Messages /\ Messages \in Seq(Message)
  BY <1>1, <1>2 DEF Messages
<1>5. /\ L + 1 \in DOMAIN Messages /\ Messages[L + 1] = h
      /\ \A i \in 1..L : i \in DOMAIN Messages /\ Messages[i] = out[i]
  <2>1. 1 \in 1..Len(batch)
    BY <1>2, <1>3
  <2> QED BY <1>2, <1>3, <2>1, ConcatIs DEF Messages
<1> HIDE DEF h
<1>6. /\ out' \in Seq(Message) /\ L \in Nat /\ DOMAIN out = 1..L /\ DOMAIN out' = 1..(L + 1)
      /\ \A i \in 1..L : out'[i] = out[i]
      /\ out'[L + 1] = h
  BY <1>1, <1>2, <1>3, AppendIs
<1> HIDE DEF L
<1>7. TypeOK'
  BY <1>1, <1>2, <1>3, <1>6 DEF TypeOK, Pcs
<1>8. h.reply # "DELTA" /\ h.delta = 0
  BY <1>3 DEF IInv, BatchInv
<1>9. BatchInv'
  <2>1. ASSUME NEW i \in DOMAIN out'
        PROVE  IF out'[i].reply = "DELTA" THEN out'[i].line = 0 /\ out'[i].delta \in 1..(next' - 1)
               ELSE out'[i].delta = 0
    BY <1>1, <1>6, <1>8 DEF IInv, BatchInv
  <2>2. \A i \in DOMAIN batch' : batch'[i].reply # "DELTA" /\ batch'[i].delta = 0
    BY <1>3 DEF IInv, BatchInv
  <2>3. pc' # "select"
    BY <1>1
  <2> QED BY <2>1, <2>2, <2>3 DEF BatchInv
<1>10. due # {} => Acknowledged'
  <2> SUFFICES ASSUME due # {} PROVE Acknowledged'
    OBVIOUS
  <2>1. SaysSubscribed(out) /\ \A i \in DOMAIN sent : sent[i] = "UNSUB" => \E j \in DOMAIN out : out[j].line = i
    BY DEF IInv, DueInv, Acknowledged
  <2>2. SaysSubscribed(out') <=> IF IsChange(h) THEN sent[h.line] = "SUB" ELSE SaysSubscribed(out)
    BY <1>1, <1>2, <1>3, SaysAppend
  <2>3. IsChange(h) => sent[h.line] # "UNSUB"
    <3> SUFFICES ASSUME IsChange(h), sent[h.line] = "UNSUB" PROVE FALSE
      OBVIOUS
    <3>1. h.line # 0 /\ h.line \in Nat
      BY <1>3 DEF IsChange, Message
    <3>2. 2 * h.line <= Read
      BY <1>5, <3>1 DEF IInv, MessagesInv
    <3>3. h.line \in DOMAIN sent
      BY <1>2, <3>1, <3>2 DEF Read, TypeOK
    <3>4. PICK j \in DOMAIN out : out[j].line = h.line
      BY <2>1, <3>3
    <3>5. j \in DOMAIN Messages /\ Messages[j].line = h.line /\ j < L + 1
      BY <1>5, <1>6, <3>4
    <3>6. Messages[j].line < Messages[L + 1].line
      BY <1>5, <3>1, <3>5 DEF IInv, MessagesInv
    <3> QED BY <1>5, <3>1, <3>5, <3>6
  <2>4. SaysSubscribed(out')
    BY <2>1, <2>2, <2>3 DEF IsChange
  <2>5. SaysSubscribed(out') <=> SaysSubscribed(out)'
    BY <1>1 DEF SaysSubscribed, Changes
  <2> QED BY <2>4, <2>5 DEF Acknowledged
<1>11. DueInv'
  <2>1. SubscribedInv'
    BY <1>1, <1>4, SameMessages
  <2>2. ASSUME due # {}
        PROVE  \A i \in DOMAIN sent : sent[i] = "UNSUB" => \E j \in DOMAIN out' : out'[j].line = i
    BY <1>6, <2>2 DEF IInv, DueInv
  <2> QED BY <1>1, <1>10, <2>1, <2>2 DEF DueInv
<1>12. DueArrives'
  <2>1. ASSUME NEW n \in due, n < next, n \notin missed
        PROVE  MangledUnsub \/ \E i \in DOMAIN out' : out'[i].delta = n
    <3>1. MangledUnsub \/ \E i \in DOMAIN out : out[i].delta = n
      BY <1>1, <2>1 DEF IInv, DueArrives
    <3> QED BY <1>6, <3>1
  <2>2. ASSUME NEW i \in DOMAIN out', NEW j \in DOMAIN out', i < j,
               0 \notin {out'[i].delta, out'[j].delta}
        PROVE  out'[i].delta < out'[j].delta
    <3>1. i \in DOMAIN out /\ j \in DOMAIN out
      BY <1>6, <1>8, <2>2
    <3> QED BY <1>6, <2>2, <3>1 DEF IInv, DueArrives
  <2>3. MangledUnsub' <=> MangledUnsub
    BY <1>1 DEF MangledUnsub
  <2> QED BY <1>1, <2>1, <2>2, <2>3 DEF DueArrives
<1>13. pc' \in {"write", "select"} /\ Ends(buffer) # {} => pc \in {"write", "select"}
  BY <1>1
<1> QED BY <1>1, <1>4, <1>7, <1>9, <1>11, <1>12, <1>13, SameMessages DEF IInv

LEMMA PublishKeeps == IInv /\ Publish => IInv'
<1> SUFFICES ASSUME IInv, Publish PROVE IInv'
  OBVIOUS
<1>1. /\ published' = published + 1
      /\ \/ due' = due
         \/ /\ due' = due \cup {published + 1} /\ Acknowledged
            /\ \A i \in DOMAIN sent : sent[i] = "UNSUB" => \E j \in DOMAIN out : out[j].line = i
      /\ UNCHANGED <<transport, sent, wire, buffer, pc, batch, authenticated,
                     subscribed, next, out, executed, intact, missed>>
  BY DEF Publish
<1>2. Messages' = Messages
  BY <1>1 DEF Messages
<1>3. TypeOK /\ published \in Nat /\ next \in 1..(published + 1) /\ due \subseteq 1..published
  BY DEF IInv, TypeOK
<1>4. TypeOK'
  <2>1. next' \in 1..(published' + 1) /\ due' \subseteq 1..published' /\ published' \in Nat
    <3>1. 1..published \subseteq 1..(published + 1) /\ published + 1 \in 1..(published + 1)
      BY <1>3
    <3>2. due' \subseteq 1..(published + 1)
      BY <1>1, <1>3, <3>1, Zenon
    <3> QED BY <1>1, <1>3, <3>2
  <2>2. missed' \subseteq 1..published'
    <3>1. missed \subseteq 1..published
      BY <1>3 DEF TypeOK
    <3> QED BY <1>1, <1>3, <3>1
  <2> QED BY <1>1, <1>3, <2>1, <2>2 DEF TypeOK
<1>5. BatchInv'
  BY <1>1 DEF IInv, BatchInv
<1>6. Acknowledged' <=> Acknowledged
  BY <1>1 DEF Acknowledged, SaysSubscribed, Changes
<1>7. DueInv'
  <2>1. SubscribedInv'
    BY <1>1, <1>2, SameMessages
  <2> QED BY <1>1, <1>6, <2>1 DEF IInv, DueInv
<1>8. DueArrives'
  <2>1. ASSUME NEW n \in due', n < next, n \notin missed, pc # "closed"
        PROVE  MangledUnsub \/ \E i \in DOMAIN out : out[i].delta = n
    <3>1. n \in due
      BY <1>1, <1>3, <2>1
    <3> QED BY <2>1, <3>1 DEF IInv, DueArrives
  <2>2. MangledUnsub' <=> MangledUnsub
    BY <1>1 DEF MangledUnsub
  <2> QED BY <1>1, <2>1, <2>2 DEF IInv, DueArrives
<1> QED BY <1>1, <1>2, <1>4, <1>5, <1>7, <1>8, SameMessages DEF IInv

\* The receiver is in the ring or ahead of it.
LEMMA OldestIs ==
    ASSUME TypeOK
    PROVE  Oldest \in 1..(published + 1)
  BY SizeAssumption DEF TypeOK, Oldest

LEMMA LaggedKeeps == IInv /\ Lagged => IInv'
<1> SUFFICES ASSUME IInv, Lagged PROVE IInv'
  OBVIOUS
<1>1. /\ next < Oldest /\ next' = Oldest /\ missed' = missed \cup (next..(Oldest - 1))
      /\ UNCHANGED <<transport, sent, wire, buffer, pc, batch, authenticated,
                     subscribed, published, out, executed, intact, due>>
  BY DEF Lagged
<1>2. Messages' = Messages
  BY <1>1 DEF Messages
<1>3. /\ TypeOK /\ published \in Nat /\ next \in 1..(published + 1) /\ Oldest \in 1..(published + 1)
      /\ missed \subseteq 1..published /\ due \subseteq 1..published
  BY OldestIs DEF IInv, TypeOK
<1>4. TypeOK'
  <2>1. missed' \subseteq 1..published
    BY <1>1, <1>3
  <2> QED BY <1>1, <1>3, <2>1 DEF TypeOK
<1>5. BatchInv'
  <2>1. 1..(next - 1) \subseteq 1..(next' - 1)
    BY <1>1, <1>3
  <2> QED BY <1>1, <2>1 DEF IInv, BatchInv
<1>6. Acknowledged' <=> Acknowledged
  BY <1>1 DEF Acknowledged, SaysSubscribed, Changes
<1>7. DueInv'
  <2>1. SubscribedInv'
    BY <1>1, <1>2, SameMessages
  <2> QED BY <1>1, <1>6, <2>1 DEF IInv, DueInv
<1>8. DueArrives'
  <2>1. ASSUME NEW n \in due, n < next', n \notin missed', pc # "closed"
        PROVE  MangledUnsub \/ \E i \in DOMAIN out : out[i].delta = n
    <3>1. n < next /\ n \notin missed
      BY <1>1, <1>3, <2>1
    <3> QED BY <2>1, <3>1 DEF IInv, DueArrives
  <2>2. MangledUnsub' <=> MangledUnsub
    BY <1>1 DEF MangledUnsub
  <2> QED BY <1>1, <2>1, <2>2 DEF IInv, DueArrives
<1> QED BY <1>1, <1>2, <1>4, <1>5, <1>7, <1>8, SameMessages DEF IInv

\* A delta that is sent to the client, or that does not concern it.
LEMMA DeltaKeeps == IInv /\ Delta => IInv'
<1> SUFFICES ASSUME IInv, Delta PROVE IInv'
  OBVIOUS
<1> DEFINE d == DeltaMsg(next)
           L == Len(out)
<1>1. /\ pc = "select" /\ Oldest <= next /\ next <= published /\ next' = next + 1
      /\ \/ subscribed /\ out' = Append(out, d) /\ pc' = pc
         \/ subscribed /\ pc' = "closed" /\ out' = out
         \/ ~subscribed /\ pc' = pc /\ out' = out
      /\ UNCHANGED <<transport, sent, wire, buffer, batch, authenticated, subscribed,
                     published, executed, intact, due, missed>>
  BY DEF Delta
<1>2. /\ TypeOK /\ published \in Nat /\ next \in 1..(published + 1) /\ out \in Seq(Message)
      /\ batch = <<>> /\ due \subseteq 1..published
  BY <1>1 DEF IInv, TypeOK, BatchInv
<1>3. Messages = out /\ Messages' = out' /\ Messages \in Seq(Message)
  <2>1. out' \in Seq(Message) => out' \o <<>> = out'
    OBVIOUS
  <2>2. d \in Message
    BY <1>2 DEF DeltaMsg, Message
  <2>3. out' \in Seq(Message)
    <3>1. Append(out, d) \in Seq(Message)
      BY <1>2, <2>2, AppendIs
    <3> QED BY <1>1, <1>2, <3>1
  <2> QED BY <1>1, <1>2, <2>1, <2>3 DEF Messages
<1>4. next' \in 1..(published + 1) /\ next \in Nat /\ 1..(next - 1) \subseteq 1..(next' - 1)
  BY <1>1, <1>2
<1>5. SaysSubscribed(out) => subscribed \/ MangledUnsub
  BY <1>3 DEF IInv, DueInv, SubscribedInv
<1>6. (due # {} => subscribed \/ MangledUnsub) /\ (MangledUnsub' <=> MangledUnsub)
  BY <1>1, <1>5 DEF IInv, DueInv, Acknowledged, MangledUnsub
<1>7. CASE ~(subscribed /\ out' = Append(out, d) /\ pc' = pc)
  <2>1. out' = out /\ (pc' = "closed" \/ (~subscribed /\ pc' = pc))
    BY <1>1, <1>7
  <2>2. Messages' = Messages /\ (pc' \in {"write", "select"} => pc \in {"write", "select"})
    BY <1>1, <1>3, <2>1
  <2>3. TypeOK'
    BY <1>1, <1>2, <1>4, <2>1 DEF TypeOK, Pcs
  <2>4. BatchInv'
    BY <1>1, <1>2, <1>4, <2>1 DEF IInv, BatchInv
  <2>5. Acknowledged' <=> Acknowledged
    BY <1>1, <2>1 DEF Acknowledged, SaysSubscribed, Changes
  <2>6. DueInv'
    <3>1. SubscribedInv'
      BY <1>1, <2>2, SameMessages
    <3> QED BY <1>1, <2>1, <2>5, <3>1 DEF IInv, DueInv
  <2>7. DueArrives'
    <3>1. pc' = "closed" \/ due = {} \/ MangledUnsub'
      BY <1>6, <2>1
    <3>2. pc' # "closed" => MangledUnsub' \/ \A n \in due' : FALSE
      BY <1>1, <3>1
    <3> QED BY <2>1, <3>2 DEF IInv, DueArrives
  <2> QED BY <1>1, <2>2, <2>3, <2>4, <2>6, <2>7, SameMessages DEF IInv
<1>8. CASE subscribed /\ out' = Append(out, d) /\ pc' = pc
  <2>1. d \in Message /\ d.line = 0 /\ d.reply = "DELTA" /\ d.delta = next
    BY <1>2 DEF DeltaMsg, Message
  <2> HIDE DEF d
  <2>2. /\ out' \in Seq(Message) /\ L \in Nat /\ DOMAIN out = 1..L /\ DOMAIN out' = 1..(L + 1)
        /\ \A i \in 1..L : out'[i] = out[i]
        /\ out'[L + 1] = d /\ Len(out') = L + 1
    BY <1>2, <1>8, <2>1, AppendIs
  <2>3. Len(Messages) = L /\ Messages' = Append(Messages, d)
    BY <1>3, <1>8
  <2> HIDE DEF L
  <2>4. TypeOK'
    BY <1>1, <1>2, <1>4, <1>8, <2>2 DEF TypeOK
  <2>5. Read' = Read /\ WireInv' /\ BufferInv'
    BY <1>1 DEF IInv, Read, WireInv, BufferInv, Pos
  <2>6. MessagesInv'
    <3>1. ASSUME NEW i \in DOMAIN out', out'[i].line # 0
          PROVE  i \in DOMAIN out /\ out'[i] = out[i]
      BY <2>1, <2>2, <3>1
    <3> QED BY <1>1, <1>3, <2>5, <3>1 DEF IInv, MessagesInv, Pos
  <2>7. BatchInv'
    <3>1. ASSUME NEW i \in DOMAIN out'
          PROVE  IF out'[i].reply = "DELTA" THEN out'[i].line = 0 /\ out'[i].delta \in 1..(next' - 1)
                 ELSE out'[i].delta = 0
      <4>1. CASE i \in 1..L
        <5>1. i \in DOMAIN out /\ out'[i] = out[i]
          BY <2>2, <4>1
        <5> QED BY <1>4, <5>1 DEF IInv, BatchInv
      <4>2. CASE i = L + 1
        <5>1. next \in 1..(next' - 1)
          BY <1>1, <1>2
        <5> QED BY <2>1, <2>2, <4>2, <5>1
      <4> QED BY <2>2, <4>1, <4>2
    <3> QED BY <1>1, <1>2, <3>1 DEF IInv, BatchInv
  <2>8. IntactInv'
    <3> SUFFICES ASSUME intact PROVE \E k \in Nat : Aligned(k)'
      BY <1>1 DEF IntactInv
    <3>1. PICK k \in Nat : Aligned(k)
      BY DEF IInv, IntactInv
    <3>2. AnsweredTo(Messages', k)
      BY <1>3, <2>1, <2>3, <3>1, AnsweredDelta DEF Aligned
    <3>3. Aligned(k)'
      BY <1>1, <2>5, <3>1, <3>2 DEF Aligned, Pos
    <3> QED BY <3>3
  <2>9. AuthInv' /\ AuthGate'
    <3>1. \A i \in DOMAIN Messages : i \in DOMAIN Messages' /\ Messages'[i] = Messages[i]
      BY <1>3, <2>1, <2>3, MessagesStay
    <3>2. executed \in Seq(Execution)
      BY <1>2 DEF TypeOK
    <3>3. AuthInv /\ AuthGate
      BY DEF IInv
    <3> QED BY <1>1, <3>1, <3>2, <3>3, GateKeeps
  <2>10. StrandedInv'
    <3> SUFFICES ASSUME Ends(buffer) # {}
                 PROVE  \E i \in DOMAIN out' :
                          /\ out'[i].reply \in {"PARSE_ERROR", "TOO_LARGE"}
                          /\ \A j \in (i + 1)..Len(out') : out'[j].reply = "DELTA"
      BY <1>1, <1>3 DEF StrandedInv, Ends
    <3>1. PICK i \in DOMAIN out :
             /\ out[i].reply \in {"PARSE_ERROR", "TOO_LARGE"}
             /\ \A j \in (i + 1)..Len(out) : out[j].reply = "DELTA"
      BY <1>1, <1>3 DEF IInv, StrandedInv
    <3>2. i \in DOMAIN out' /\ out'[i] = out[i] /\ i \in 1..L
      BY <2>2
    <3>3. ASSUME NEW j \in (i + 1)..Len(out') PROVE out'[j].reply = "DELTA"
      <4>1. CASE j = L + 1
        BY <2>1, <2>2, <4>1
      <4>2. CASE j # L + 1
        <5>1. j \in (i + 1)..L /\ j \in 1..L
          BY <2>2, <3>2, <4>2
        <5> QED BY <2>2, <3>1, <5>1 DEF L
      <4> QED BY <4>1, <4>2
    <3> QED BY <3>1, <3>2, <3>3
  <2>11. SaysSubscribed(out') <=> SaysSubscribed(out)
    BY <1>2, <2>1, <1>8, SaysAppend DEF IsChange
  <2>12. DueInv'
    <3>1. SubscribedInv'
      BY <1>1, <1>8 DEF SubscribedInv
    <3>2. due # {} => SaysSubscribed(out)'
      <4>1. due # {} => SaysSubscribed(out')
        BY <2>11 DEF IInv, DueInv, Acknowledged
      <4>2. SaysSubscribed(out') <=> SaysSubscribed(out)'
        BY <1>1 DEF SaysSubscribed, Changes
      <4> QED BY <4>1, <4>2
    <3>3. ASSUME due # {}
          PROVE  \A i \in DOMAIN sent : sent[i] = "UNSUB" => \E j \in DOMAIN out' : out'[j].line = i
      BY <2>2, <3>3 DEF IInv, DueInv
    <3> QED BY <1>1, <3>1, <3>2, <3>3 DEF DueInv, Acknowledged
  <2>13. DueArrives'
    <3>1. ASSUME NEW n \in due, n < next', n \notin missed, pc # "closed"
          PROVE  MangledUnsub \/ \E i \in DOMAIN out' : out'[i].delta = n
      <4>1. CASE n = next
        <5>1. L + 1 \in DOMAIN out'
          BY <2>2
        <5> QED BY <2>1, <2>2, <4>1, <5>1
      <4>2. CASE n # next
        <5>1. n < next
          BY <1>1, <1>2, <3>1, <4>2
        <5>2. MangledUnsub \/ \E i \in DOMAIN out : out[i].delta = n
          BY <3>1, <5>1 DEF IInv, DueArrives
        <5> QED BY <2>2, <5>2
      <4> QED BY <4>1, <4>2
    <3>2. ASSUME NEW i \in DOMAIN out', NEW j \in DOMAIN out', i < j,
                 0 \notin {out'[i].delta, out'[j].delta}
          PROVE  out'[i].delta < out'[j].delta
      <4>1. i \in DOMAIN out /\ out'[i] = out[i]
        BY <2>2, <3>2
      <4>2. CASE j \in 1..L
        BY <2>2, <3>2, <4>1, <4>2 DEF IInv, DueArrives
      <4>3. CASE j = L + 1
        <5>1. out[i].delta \in 1..(next - 1)
          BY <3>2, <4>1 DEF IInv, BatchInv
        <5> QED BY <1>2, <2>1, <2>2, <4>1, <4>3, <5>1
      <4> QED BY <2>2, <4>2, <4>3
    <3> QED BY <1>1, <1>6, <3>1, <3>2 DEF DueArrives
  <2> QED BY <2>4, <2>5, <2>6, <2>7, <2>8, <2>9, <2>10, <2>12, <2>13 DEF IInv
<1> QED BY <1>7, <1>8

LEMMA InitHolds == Init => IInv
<1> SUFFICES ASSUME Init PROVE IInv
  OBVIOUS
<1> USE DEF Init
<1>1. Messages = <<>> /\ Read = 0
  BY DEF Messages, Read
<1>2. TypeOK
  <2>1. authenticated \in BOOLEAN
    BY ConfigAssumption
  <2>2. Len(buffer) <= BufferSize
    BY SizeAssumption
  <2>3. subscribed \in BOOLEAN /\ intact \in BOOLEAN
    BY Zenon
  <2>4. /\ sent \in Seq(Kinds) /\ wire \in Seq(Piece) /\ buffer \in Seq(Piece)
        /\ batch \in Seq(Message) /\ out \in Seq(Message) /\ executed \in Seq(Execution)
    OBVIOUS
  <2>5. /\ transport \in Transports /\ pc \in Pcs /\ published \in Nat /\ next \in 1..(published + 1)
        /\ due \subseteq 1..published /\ missed \subseteq 1..published
    BY DEF Pcs
  <2> HIDE DEF Init
  <2> QED BY <2>1, <2>2, <2>3, <2>4, <2>5 DEF TypeOK
<1>3. WireInv /\ BufferInv /\ MessagesInv /\ BatchInv
  BY <1>1 DEF WireInv, BufferInv, MessagesInv, BatchInv
<1>4. IntactInv
  <2>1. AnsweredTo(<<>>, 0)
    BY DEF AnsweredTo
  <2>2. Read - Len(buffer) = 2 * 0 /\ DOMAIN buffer = {}
    <3>1. Len(buffer) = 0 /\ DOMAIN buffer = {}
      OBVIOUS
    <3>2. 0 - 0 = 2 * 0
      OBVIOUS
    <3> HIDE DEF Init
    <3> QED BY <1>1, <3>1, <3>2
  <2>3. AnsweredTo(Messages, 0)
    BY <1>1, <2>1
  <2>4. Aligned(0)
    BY <2>2, <2>3 DEF Aligned
  <2> QED BY <2>4 DEF IntactInv
<1>5. AuthInv /\ AuthGate
  <2>1. RequireAuth => ~authenticated
    BY ConfigAssumption
  <2> QED BY <1>1, <2>1 DEF AuthInv, AuthGate
<1>6. StrandedInv
  BY DEF StrandedInv, Ends
<1>7. DueInv /\ DueArrives
  BY <1>1 DEF DueInv, SubscribedInv, DueArrives, SaysSubscribed, Changes
<1> QED BY <1>2, <1>3, <1>4, <1>5, <1>6, <1>7 DEF IInv

LEMMA StepKeeps == IInv /\ [Next]_vars => IInv'
<1> SUFFICES ASSUME IInv, [Next]_vars PROVE IInv'
  OBVIOUS
<1>1. ASSUME NEW k \in Kinds, Send(k) PROVE IInv'
  BY <1>1, SendKeeps
<1>2. ASSUME NEW n \in DOMAIN wire, Receive(n) PROVE IInv'
  BY <1>2, AcceptKeeps, RefuseKeeps DEF Receive
<1>3. CASE Process
  BY <1>3, ProcessSteps
<1>4. CASE Write
  BY <1>4, WriteKeeps
<1>5. CASE WriteFails
  BY <1>5, QuietKeeps DEF WriteFails, Written, hist, Pcs
<1>6. CASE AllWritten
  BY <1>6, QuietKeeps DEF AllWritten, hist, Pcs
<1>7. CASE Disconnect
  BY <1>7, QuietKeeps DEF Disconnect, hist, Pcs
<1>8. CASE Publish \/ Lagged \/ Delta
  BY <1>8, PublishKeeps, LaggedKeeps, DeltaKeeps
<1>9. CASE UNCHANGED vars
  <2>1. pc \in Pcs /\ (pc = "select" => batch = <<>>)
    BY DEF IInv, TypeOK, BatchInv
  <2> QED BY <1>9, <2>1, QuietKeeps DEF vars, hist
<1> QED BY <1>1, <1>2, <1>3, <1>4, <1>5, <1>6, <1>7, <1>8, <1>9 DEF Next

\* The inductive invariant: the pieces on the wire, in the buffer, and the
\* lines answered are parts of the one stream the client sent, in its order.
THEOREM Invariant == Spec => []IInv
<1>1. Init => IInv
  BY InitHolds
<1>2. IInv /\ [Next]_vars => IInv'
  BY StepKeeps
<1> QED BY <1>1, <1>2, PTL DEF Spec

\* Every variable has its type, the buffer its limit, and the receiver is
\* never ahead of the broadcast channel.
THEOREM TypeCorrect == Spec => []TypeOK
<1>1. IInv => TypeOK
  BY DEF IInv
<1> QED BY <1>1, Invariant, PTL

\* As long as framing is intact, answers come one for each line and in the
\* order of the lines, and a line without an answer is not lost.
THEOREM OneAnswer == Spec => []OneAnswerEach
<1>1. ASSUME IInv, intact PROVE OneAnswerEach
  <2>1. PICK n \in Nat : Aligned(n)
    BY <1>1 DEF IInv, IntactInv
  <2>2. \A i \in Answers : Lines({j \in Answers : j < i}) = 1..(Messages[i].line - 1)
    BY <2>1 DEF Aligned, AnsweredTo, Answers, Lines
  <2>3. Lines(Answers) = 1..n
    BY <2>1 DEF Aligned, AnsweredTo, Answers, Lines
  <2> DEFINE stream == buffer \o wire
             m == Len(buffer)
             w == Len(wire)
  <2>4. /\ m \in Nat /\ w \in Nat /\ DOMAIN stream = 1..(m + w) /\ stream \in Seq(Piece)
        /\ DOMAIN buffer = 1..m /\ DOMAIN wire = 1..w
        /\ \A i \in 1..m : stream[i] = buffer[i]
        /\ \A i \in 1..w : stream[m + i] = wire[i]
    BY <1>1, ConcatIs DEF IInv, TypeOK
  <2>5. Read = 2 * n + m /\ Len(sent) \in Nat /\ Read = 2 * Len(sent) - w
    <3>1. Len(sent) \in Nat
      BY <1>1 DEF IInv, TypeOK
    <3> QED BY <2>1, <2>4, <3>1 DEF Aligned, Read
  <2> HIDE DEF stream, m, w
  <2>6. ASSUME NEW i \in 1..(m + w)
        PROVE  stream[i] \in Piece /\ stream[i].line # 0 /\ Pos(stream[i]) = 2 * n + i
    <3>1. CASE i \in 1..m
      <4>1. i \in DOMAIN buffer /\ stream[i] = buffer[i]
        BY <2>4, <3>1
      <4>2. buffer[i].line # 0 /\ Pos(buffer[i]) = 2 * n + i
        BY <2>1, <4>1 DEF Aligned
      <4>3. stream[i] \in Piece
        BY <2>4
      <4> QED BY <4>1, <4>2, <4>3
    <3>2. CASE i \notin 1..m
      <4>1. i - m \in 1..w /\ m + (i - m) = i
        BY <2>4, <3>2
      <4>2. stream[i] = wire[i - m] /\ i - m \in DOMAIN wire
        BY <2>4, <4>1
      <4>3. wire[i - m].line # 0 /\ Pos(wire[i - m]) = Read + (i - m)
        BY <1>1, <4>2 DEF IInv, WireInv
      <4>4. Read + (i - m) = 2 * n + i
        BY <2>4, <2>5
      <4> QED BY <2>4, <4>2, <4>3, <4>4
    <3> QED BY <2>4, <3>1, <3>2
  <2>7. ASSUME NEW l \in DOMAIN sent
        PROVE  l \in 1..n <=> ~ \E i \in 1..(m + w) : stream[i] = Newline(l)
    <3>1. l \in 1..Len(sent)
      BY <1>1 DEF IInv, TypeOK
    <3>2. Newline(l) \in Piece /\ Pos(Newline(l)) = 2 * l
      BY <3>1 DEF Newline, Piece, Pos
    <3>3. ASSUME l \in 1..n, NEW i \in 1..(m + w), stream[i] = Newline(l)
          PROVE  FALSE
      <4>1. 2 * l = 2 * n + i
        BY <2>6, <3>2, <3>3
      <4> QED BY <2>4, <3>3, <4>1
    <3>4. ASSUME l \notin 1..n
          PROVE  \E i \in 1..(m + w) : stream[i] = Newline(l)
      <4> DEFINE i == 2 * l - 2 * n
      <4>1. i \in 1..(m + w)
        BY <2>4, <2>5, <3>1, <3>4
      <4>2. stream[i] \in Piece /\ Pos(stream[i]) = 2 * l
        <5>1. 2 * n + i = 2 * l
          BY <3>1
        <5> QED BY <2>6, <4>1, <5>1
      <4> HIDE DEF i
      <4>3. stream[i].line = l /\ stream[i].ends
        BY <3>1, <4>2 DEF Pos, Piece
      <4>4. stream[i] = Newline(l)
        <5>1. stream[i].ends = TRUE
          BY <4>2, <4>3 DEF Piece
        <5> QED BY <4>2, <4>3, <5>1 DEF Newline, Piece
      <4> QED BY <4>1, <4>4
    <3> QED BY <3>3, <3>4
  <2> QED BY <2>2, <2>3, <2>4, <2>7 DEF OneAnswerEach, stream
<1>2. IInv => OneAnswerEach
  BY <1>1 DEF OneAnswerEach
<1> QED BY <1>2, Invariant, PTL

\* With a password, no gated handler runs before a line was executed as an
\* AUTH with that password, and of the lines that arrive as they were sent none
\* before such a line that was sent earlier; however the stream is cut, and
\* whatever command a line that was cut or glued turns out to be.
THEOREM Gate == Spec => []AuthGate
<1>1. IInv => AuthGate
  BY DEF IInv
<1> QED BY <1>1, Invariant, PTL

\* A complete line waits in the buffer only after an error.
THEOREM Stranded == Spec => []StrandedOnlyByErrors
<1>1. IInv => StrandedOnlyByErrors
  <2> SUFFICES ASSUME IInv, pc = "select", Ends(buffer) # {} PROVE StrandedOnlyByErrors
    BY DEF StrandedOnlyByErrors
  <2>1. batch = <<>> /\ out \in Seq(Message)
    BY DEF IInv, BatchInv, TypeOK
  <2>2. Messages = out
    BY <2>1 DEF Messages
  <2> QED BY <2>2 DEF IInv, StrandedInv, StrandedOnlyByErrors
<1> QED BY <1>1, Invariant, PTL

\* A subscriber that was told so gets every delta from then on and in their
\* order, unless the channel had overwritten it, or a cut made an UNSUB of what
\* was sent.
THEOREM Due == Spec => []DueArrives
<1>1. IInv => DueArrives
  BY DEF IInv
<1> QED BY <1>1, Invariant, PTL
=============================================================================
