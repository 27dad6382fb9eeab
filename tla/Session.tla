------------------------------- MODULE Session -------------------------------
(***************************************************************************)
(* The commands on documents from the line a client writes: ParseLine of   *)
(* module Grammar, and what it makes of the line served as in Content.     *)
(*                                                                         *)
(* `probe` is a text nothing happens to: the properties of the parser of   *)
(* paths and of the matching of patterns are stated of it.                 *)
(***************************************************************************)
EXTENDS Content, Grammar

CONSTANT
    Probes        \* texts, taken as paths and as patterns

VARIABLES
    asked,        \* the last command as the client meant it
    probe

svars == <<vars, asked, probe>>

SInit == Init /\ asked = did /\ probe \in Probes

\* A client writes the line documented for what it wants.
SNext ==
    \E cmd \in Commands :
        /\ probe = ""
        /\ asked' = cmd
        /\ Serve(ParseLine(PrintLine(cmd)))
        /\ UNCHANGED probe

SSpec == SInit /\ [][SNext]_svars
-----------------------------------------------------------------------------
(***************************************************************************)
(* Properties.                                                             *)
(***************************************************************************)

\* The documented line of a command is understood as that command, whatever
\* blanks, option words or JSON its arguments have.  An argument with a quote
\* in it cannot be written.
Understood == did = asked

\* The parser of paths comes to an end exactly if every bracket is closed, and
\* then the segments it finds, written as documented, are these segments again.
PathsRoundTrip ==
    /\ Terminates(probe) <=>
         \A i \in 1..Len(probe) : At(probe, i) = "[" =>
             \E j \in i..Len(probe) : At(probe, j) = "]"
    /\ Terminates(probe) => Segments(PrintPath(Segments(probe))) = Segments(probe)

\* The five matchers of patterns agree on this text as a pattern, up to what
\* each adds (manager.rs, memory.rs, sqlite.rs, postgres.rs, handler.rs).
PatternsAgree ==
    LET lower == Letter(Capital, Lower)
        characters == {"a", "A", "_", Backslash}
        all == characters \cup Range(Chars(probe))
    IN  \A key \in characters \X characters :
            Agree(key, Chars(probe), lower @@ [c \in all |-> c])
=============================================================================
