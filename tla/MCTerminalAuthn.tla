---------------------------- MODULE MCTerminalAuthn ----------------------------
(* Contexts for this service and another one, for a shared and a foreign     *)
(* audience, without expiry, expiring at once, during the run and after it.  *)
EXTENDS TerminalAuthn

IngressContexts ==
    [kind : {"authenticated"}, service : {"app", "other"},
     audiences : {{"aud"}, {"foreign"}, {"aud", "foreign"}}, expires : {0, 1, 2, 4}]
    \cup [kind : {"anonymous", "malformed"}, service : {"app"},
          audiences : {{"aud"}}, expires : {0}]
================================================================================
