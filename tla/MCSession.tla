------------------------------ MODULE MCSession ------------------------------
(* Session for TLC: a valid id and one that has to be quoted and is refused, *)
(* paths that nest, pad, clash and have no segments, and all texts of a few  *)
(* characters as probes.                                                     *)
EXTENDS Session

CONSTANTS PathProbe, PatternProbe

Texts(chars, length) ==
    LET texts[n \in 0..length] ==
          IF n = 0 THEN {""} ELSE texts[n - 1] \cup {s \o c : s \in texts[n - 1], c \in chars}
    IN  texts[length]

MCProbes == Texts({"a", ".", "[", "]", "0"}, PathProbe) \cup Texts({"a", "A", "*", "_", "%", Backslash}, PatternProbe)

MCIds == {"d", "d d"}
MCValues == {Num(1), Str("1")}
MCPaths == {"a", "a.b", "a[0]", "a[1]", "[0]", ".", ""}

Change(path) ==
    [kind : {"SET"}, id : {"d"}, path : {path}, value : MCValues]
    \cup [kind : {"PUSH"}, id : {"d"}, path : {path}, value : {Num(1)}]
    \cup [kind : {"INC"}, id : {"d"}, path : {path}, delta : {2, -3}]
    \cup [kind : {"DEL", "GET"}, id : {"d"}, path : {<<path>>}]

MCCommands ==
    UNION {Change(path) : path \in MCPaths}
    \cup [kind : {"CREATE"}, id : MCIds, strategy : {"lww", "crdt-text", "crdt-set"},
          ttl : {Nothing, <<5>>}]
    \cup [kind : {"DEL", "GET", "SUB"}, id : MCIds, path : {Nothing, <<"PATH">>, <<"a b">>}]
    \cup [kind : {"AUTH", "UNSUB", "COMPACT", "TTL"}, id : MCIds \cup {""}]
    \cup [kind : {"PING", "QUIT", "INFO", "BACKUP"}]
    \cup [kind : {"EXPIRE"}, id : MCIds, ttl : {0, 10}]
    \cup [kind : {"KEYS"}, id : {Nothing, <<"d*">>, <<"a b">>}]
    \cup [kind : {"PRESENCE"}, id : MCIds, data : {Nothing, <<"{}">>, <<"\"a b\"">>}]
    \cup [kind : {"RESTORE"}, data : {"{}", "\"a b\""}]

\* Only what may have changed a document is followed.
Writes == did.kind \in {"none", "CREATE", "SET", "PUSH", "INC", "DEL"} /\ answer # Error
=============================================================================
