----------------------------- MODULE ManagerOrder -----------------------------
(***************************************************************************)
(* In which order the commands on a DocumentManager can be taken to have   *)
(* happened, written down as they are answered, and compared with what an  *)
(* atomic store would have answered in that order.                         *)
(*                                                                         *)
(* An id goes through lives: a new one begins whenever what the map has    *)
(* under it changes.  A handler works on the Arc it found, so what it does *)
(* belongs to the life of that Arc, although DEL, the collector or another *)
(* CREATE may have ended it: it counts as done before.  So the order is:   *)
(* life by life, and in a life as it happened.                             *)
(***************************************************************************)
EXTENDS DocumentManager, Sequences

VARIABLE
    lives         \* history: id -> its lives so far, and the points of each

ovars == <<vars, lives>>
-----------------------------------------------------------------------------
(***************************************************************************)
(* The atomic store, for one id.                                           *)
(***************************************************************************)
Gone == [there |-> FALSE, val |-> NoValue, count |-> 0]

\* What the commands see of the document behind d in the heap h.
Seen(h, d) == IF d = None THEN Gone
              ELSE [there |-> TRUE, val |-> h[d].val, count |-> h[d].count]

\* get_or_create makes an empty document and the write that follows is another
\* step: "MAKE" is the first.  "EVICT" is the collector's.
Effect(s, p) ==
    CASE p.op = "SET" -> [s EXCEPT !.val = p.id]
      [] p.op = "INC" -> [s EXCEPT !.count = @ + 1]
      [] p.op = "MAKE" \/ (p.op = "CREATE" /\ p.reply.kind = "ok") ->
            [there |-> TRUE, val |-> NoValue, count |-> 0]
      [] p.op \in {"DEL", "EVICT"} -> Gone
      [] p.op = "DELPATH" /\ p.reply.kind = "ok" -> [s EXCEPT !.val = NoValue]
      [] OTHER -> s

\* The store may do this, with this answer, in state s.  A CREATE may succeed
\* in any: it looks and inserts in two steps.
Allowed(s, p) ==
    /\ p.op = "MAKE" \/ p.reply.kind \in {"not_found", "null"} => ~s.there
    /\ p.op \in {"SET", "INC", "EVICT"} \/ p.reply.kind \in {"exists", "value"} => s.there
    /\ p.op \in {"DEL", "DELPATH", "EXPIRE"} /\ p.reply.kind = "ok" => s.there
    /\ p.op = "INC" => p.reply.value = s.count + 1
    /\ p.op = "GET" /\ p.reply.kind = "value" =>
          p.reply.val = s.val /\ p.reply.count = s.count
-----------------------------------------------------------------------------
(***************************************************************************)
(* The lives of an id, and the points of a life: what took effect, which   *)
(* command it was of, with its answer, how many commands had been taken up *)
(* by then, and what there was after it.                                   *)
(***************************************************************************)
Start == [op |-> "START", id |-> 0, reply |-> Say("none"), done |-> 0, after |-> Gone]

Opens(k, p) ==
    lives' = [lives EXCEPT ![k] = Append(@, [ref |-> documents'[k], points |-> <<p>>])]

Joins(k, l, p) == lives' = [lives EXCEPT ![k][l].points = Append(@, p)]

\* The life of the Arc that c works on, or else the current one.
LifeOf(c, k) ==
    IF task[c].pc = "idle" THEN Len(lives[k])
    ELSE CHOOSE l \in DOMAIN lives[k] : lives[k][l].ref = task[c].ref

\* What a step of c has done to the document behind d.
Point(c, d) ==
    [op |-> IF task'[c].pc = "idle" THEN task'[c].op ELSE "MAKE",
     id |-> task'[c].id, reply |-> task'[c].reply,
     done |-> issued', after |-> Seen(heap', d)]

Record(c) ==
    LET k == task'[c].key
        l == LifeOf(c, k)
    IN  \/ documents' # documents /\ Opens(k, Point(c, documents'[k]))
        \/ /\ documents' = documents /\ task'[c].pc = "idle"
           /\ Joins(k, l, Point(c, lives[k][l].ref))
        \/ documents' = documents /\ task'[c].pc # "idle" /\ UNCHANGED lives

Evict ==
    \/ documents' = documents /\ UNCHANGED lives
    \/ \E k \in Keys :
          /\ documents'[k] # documents[k]
          /\ Opens(k, [op |-> "EVICT", id |-> 0, reply |-> Say("none"),
                       done |-> issued, after |-> Gone])

OInit == Init /\ lives = [k \in Keys |-> <<[ref |-> None, points |-> <<Start>>]>>]

ONext ==
    \/ \E c \in Clients : (Command(c) \/ Proceed(c)) /\ Record(c)
    \/ GcStep /\ Evict
    \/ Tick /\ UNCHANGED lives

OSpec == OInit /\ [][ONext]_ovars
-----------------------------------------------------------------------------
(***************************************************************************)
(* Properties.                                                             *)
(***************************************************************************)
Lives(k) == DOMAIN lives[k]
Points(k, l) == DOMAIN lives[k][l].points
At(k, l, i) == lives[k][l].points[i]

\* What the store was in before the i-th point of life l.
Found(k, l, i) == IF i > 1 THEN At(k, l, i - 1).after
                  ELSE At(k, l - 1, Len(lives[k][l - 1].points)).after

\* Each point is one the store allows where the one before it in the order
\* left it, and leaves it as the store would.
Explained ==
    \A k \in Keys : \A l \in Lives(k) : \A i \in Points(k, l) :
        l > 1 \/ i > 1 => /\ Allowed(Found(k, l, i), At(k, l, i))
                          /\ At(k, l, i).after = Effect(Found(k, l, i), At(k, l, i))

\* The order ends with what there is.
Current ==
    \A k \in Keys :
        LET l == Len(lives[k])
        IN  /\ lives[k][l].ref = documents[k]
            /\ At(k, l, Len(lives[k][l].points)).after = Seen(heap, documents[k])

\* What was answered before a command was taken up comes before it.  (A command
\* has the number it was taken up as for its id.)
RealTime ==
    \A k \in Keys : \A l, m \in Lives(k) : \A i \in Points(k, l), j \in Points(k, m) :
        At(k, l, i).done < At(k, m, j).id => l < m \/ (l = m /\ i < j)

\* No command is in the order twice, and each is in it with what the client
\* was told.
Once ==
    \A k, n \in Keys : \A l \in Lives(k), m \in Lives(n) :
        \A i \in Points(k, l), j \in Points(n, m) :
            /\ At(k, l, i).op \in Ops /\ At(n, m, j).op \in Ops
            /\ At(k, l, i).id = At(n, m, j).id
            => <<k, l, i>> = <<n, m, j>>

Told ==
    \A c \in Clients : task[c].pc = "idle" /\ task[c].op # "none" =>
        \E k \in Keys : \E l \in Lives(k) : \E i \in Points(k, l) :
            /\ task[c].key = k /\ task[c].op = At(k, l, i).op
            /\ task[c].id = At(k, l, i).id /\ task[c].reply = At(k, l, i).reply

\* The answers are those of an atomic store, with a TTL or without, in the order
\* of the lives: each command counts as done at one moment between its first
\* step and its answer, although the handlers work on Arcs that may have left
\* the map (manager.rs: the locks of the DashMap and of the documents are all
\* there is).
Linearized == Explained /\ Current /\ RealTime /\ Once /\ Told
-----------------------------------------------------------------------------
(***************************************************************************)
(* The inductive invariant behind Linearized.                              *)
(***************************************************************************)
Contents == [there : BOOLEAN, val : Nat, count : Nat]
PointType == [op : Ops \cup {"START", "MAKE", "EVICT"}, id : Nat, reply : Replies,
              done : Nat, after : Contents]
LifeType == [ref : DocRefs \cup {None}, points : Seq(PointType)]

Typed ==
    /\ lives \in [Keys -> Seq(LifeType)]
    /\ \A k \in Keys : Len(lives[k]) >= 1 /\ \A l \in Lives(k) : Len(lives[k][l].points) >= 1

\* A life ends, so far, with what is behind its Arc, and its document is there
\* all along or, in a life without one, never.
Ends ==
    \A k \in Keys : \A l \in Lives(k) :
        /\ At(k, l, Len(lives[k][l].points)).after = Seen(heap, lives[k][l].ref)
        /\ \A i \in Points(k, l) : At(k, l, i).after.there <=> lives[k][l].ref # None

\* An Arc has one life, of the id it was made for.
Owned ==
    \A k \in Keys : \A l \in Lives(k) : lives[k][l].ref # None =>
        /\ Allocated(lives[k][l].ref) /\ heap[lives[k][l].ref].key = k
        /\ \A m \in Lives(k) : lives[k][m].ref = lives[k][l].ref => m = l

\* A life begins with a step that does the same whatever the content before:
\* a late write to the life before changes nothing for it.
Resets(p) ==
    \/ p.op \in {"MAKE", "EVICT"} /\ p.reply.kind = "none"
    \/ p.op \in {"CREATE", "DEL"} /\ p.reply.kind = "ok"

Begins == \A k \in Keys : \A l \in Lives(k) : l > 1 => Resets(At(k, l, 1))

\* The steps of a command are its own.
Engaged ==
    \A c \in Clients :
        /\ task[c].pc = "create" => task[c].op = "CREATE"
        /\ task[c].pc = "read" => task[c].op = "GET"
        /\ task[c].pc = "write" => task[c].op \in {"SET", "INC"}
        /\ task[c].pc = "delete_path" => task[c].op = "DELPATH"
        /\ task[c].pc = "set_ttl" => task[c].op = "EXPIRE"

Times ==
    /\ \A k \in Keys : \A l \in Lives(k) : \A i \in Points(k, l) :
          At(k, l, i).id <= At(k, l, i).done /\ At(k, l, i).done <= issued
    /\ \A c \in Clients : task[c].id <= issued

\* A command in progress works on an Arc that was in the map when it was taken
\* up: all later lives of the id are later than that.
Works ==
    \A c \in Clients : task[c].pc \notin {"idle", "create"} =>
        \E k \in Keys : \E l \in Lives(k) :
            /\ task[c].key = k /\ task[c].ref = lives[k][l].ref
            /\ \A m \in Lives(k) : \A i \in Points(k, m) :
                  m > l => task[c].id <= At(k, m, i).done

\* ... and is the only one with its number.
Unanswered ==
    \A c \in Clients : task[c].pc # "idle" =>
        /\ \A b \in Clients : b # c /\ task[b].pc # "idle" => task[b].id # task[c].id
        /\ \A k \in Keys : \A l \in Lives(k) : \A i \in Points(k, l) :
              At(k, l, i).op \in Ops => At(k, l, i).id # task[c].id

OrderInv ==
    /\ IInv /\ Engaged /\ Typed /\ Ends /\ Owned /\ Begins /\ Times /\ Works /\ Unanswered
    /\ Linearized
=============================================================================
