--------------------------- MODULE MCBrokerExchange ---------------------------
(* Two requests, with and without credentials, whose exchanges overlap, with  *)
(* a token that passes slowly, one whose answer is too long and one refused. *)
EXTENDS BrokerExchange

BrokerReplies == {Answers(token) : token \in Credential} \cup {NotFound}

AllPaths == {"/authenticate", "other"}

Tokens == {"slow", "limit-over", "unknown"}
===============================================================================
