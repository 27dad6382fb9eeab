------------------------------ MODULE MCClients ------------------------------
(***************************************************************************)
(* The two clients of the repository, which share nothing, in one run: an  *)
(* initial state chooses the client, and only that one takes steps.        *)
(***************************************************************************)
EXTENDS CliClient, JsClient

VARIABLE client

vars == <<client, cliVars, jsVars>>

Init == client \in {"cli", "js"} /\ CliInit /\ JsInit

Next ==
    \/ client = "cli" /\ CliNext /\ UNCHANGED <<client, jsVars>>
    \/ client = "js" /\ JsNext /\ UNCHANGED <<client, cliVars>>

\* JsFairness, for the client that takes steps.
Js(A) == client = "js" /\ A /\ UNCHANGED <<client, cliVars>>

Fairness ==
    /\ WF_vars(Js(Returns))
    /\ WF_vars(Js(\E s \in Slots : Fire(s)))
    /\ \A s \in Slots :
          /\ WF_vars(Js(ConnectTimeout(s)))
          /\ WF_vars(Js(ServerAnswers(s)))
          /\ WF_vars(Js(Message(s)))
          /\ WF_vars(Js(phase[s] = "closing" /\ CloseEvent(s)))

Spec == Init /\ [][Next]_vars /\ Fairness
=============================================================================
