-------------------------------- MODULE Cases --------------------------------
(***************************************************************************)
(* The case that a request is for the middleware: its fields and method,   *)
(* the two configurations, what the broker answers, and what the terminal  *)
(* service answers if it is called.  The OnceLock configurations are       *)
(* input.cors (with its validity) and input.authn ("unset" when invalid).  *)
(***************************************************************************)
EXTENDS CorsPolicy

CONSTANT Input      \* the cases

ASSUME InputAssumption == \A i \in Input :
    /\ i.fields \in [RequestNames -> Seq(Seq(STRING))]
    /\ i.terminal \in [status : Nat, fields : [ResponseNames -> Seq(Seq(STRING))]]

VARIABLE input      \* the case at hand, never changed
===============================================================================
