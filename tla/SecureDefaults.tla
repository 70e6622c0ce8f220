---------------------------- MODULE SecureDefaults ----------------------------
(***************************************************************************)
(* One request through components/secure-defaults, the single component    *)
(* that fuses the four of MiddlewareChain.  Its handler has two awaits:    *)
(* the authentication and the downstream call.  It edits the fields once   *)
(* on the way in and once on the way out.                                  *)
(***************************************************************************)
EXTENDS Cases

VARIABLES
    fpc,            \* where the handler is
    fid,            \* request_id
    fdecision,      \* cors_decision
    freq,           \* the request handed downstream
    fseen,          \* the request fields the terminal was called with
    fresp           \* the response

fusedVars == <<input, fpc, fid, fdecision, freq, fseen, fresp>>

FusedInit ==
    /\ input \in Input
    /\ fpc = "Prepare"
    /\ fid = <<>>
    /\ fdecision = pass_through
    /\ freq = Only(RequestNames, <<>>)
    /\ fseen = Only(RequestNames, <<>>)
    /\ fresp = HostError
-----------------------------------------------------------------------------
\* The header map given to the policies holds only the fields they read.
policy_headers(h) ==
    [n \in RequestNames |->
        IF n \in {"authorization", "origin", "access-control-request-method",
                  "access-control-request-headers"}
          THEN h[n] ELSE <<>>]

merged_vary_drops_repeated(values) ==
    IF Len(values) > 1 THEN <<"origin">> ELSE Distinct(Append(values, <<"origin">>))

merged_vary_origin(values) ==
    LET bad  == {i \in DOMAIN values : values[i] = NotText}
        text == {i \in DOMAIN values : \A b \in bad : i < b}
    IN  IF \E i \in text : "*" \in ToSet(values[i]) THEN <<"*">>
        ELSE IF bad # {} THEN <<"origin">>
        ELSE Distinct(Append(values, <<"origin">>))

\* The values to put in place of those of each name, Vary merged with the
\* original one.
cors_replacements(original, d) ==
    [n \in {m \in CorsNames : d[m] # <<>>} |->
        IF n = "vary" THEN <<merged_vary_origin(original["vary"])>> ELSE d[n]]

finalize_response(r, d, rid) ==
    LET cors  == cors_replacements(r.fields, d)
        fixed == [n \in {"x-content-type-options", "referrer-policy", "x-request-id"} |->
                    CASE n = "x-content-type-options" -> <<<<"nosniff">>>>
                      [] n = "referrer-policy" -> <<<<"strict-origin-when-cross-origin">>>>
                      [] OTHER -> <<rid>>]
    IN  [r EXCEPT !.fields = apply_header_edits(@, Reserved,
           [n \in DOMAIN fixed \cup DOMAIN cors |->
              IF n \in DOMAIN fixed THEN fixed[n] ELSE cors[n]])]

controlled_response(status, f, d, rid) ==
    finalize_response(empty_response(status, f), d, rid)

RetryAfter == [n \in {"retry-after"} |-> <<<<"1">>>>]

Return(r) ==
    /\ fresp' = r
    /\ fpc' = "done"

\* Up to the authentication.
Prepare ==
    /\ fpc = "Prepare"
    /\ fid' = canonical_request_id(input.fields)
    /\ LET none == pass_through.headers
           d    == evaluate(input.cors, input.method, policy_headers(input.fields))
       IN  CASE ~input.cors.valid ->
                  Return(controlled_response(503, RetryAfter, none, fid')) /\ UNCHANGED fdecision
             [] input.cors.valid /\ input.method = BadToken ->
                  Return(controlled_response(400, <<>>, none, fid')) /\ UNCHANGED fdecision
             [] OTHER ->
                  /\ fdecision' = d
                  /\ IF d.status # 0
                       THEN Return(controlled_response(d.status, <<>>, d.headers, fid'))
                     ELSE IF input.authn = "unset"
                       THEN Return(controlled_response(503, RetryAfter, d.headers, fid'))
                     ELSE fpc' = "Authenticate" /\ UNCHANGED fresp
    /\ UNCHANGED <<input, freq, fseen>>

\* The request handed downstream once authentication has passed.
Edited(h, outcome, rid) ==
    apply_header_edits(h, {n \in Reserved \cup {"authorization"} : h[n] # <<>>},
        [n \in {"x-wasi-auth-context", "x-request-id"} |->
           IF n = "x-request-id" THEN <<rid>> ELSE <<Context(outcome)>>])

\* The authentication returns.
Authenticated ==
    /\ fpc = "Authenticate"
    /\ LET outcome == authenticate(policy_headers(input.fields), input.authn, input.broker)
       IN  IF Passes(outcome)
             THEN /\ freq' = Edited(input.fields, outcome, fid)
                  /\ fpc' = "Call"
                  /\ UNCHANGED fresp
             ELSE /\ Return(controlled_response(RejectionStatus(outcome),
                              RejectionFields(outcome), fdecision.headers, fid))
                  /\ UNCHANGED freq
    /\ UNCHANGED <<input, fid, fdecision, fseen>>

\* The downstream call returns; its error is passed on.
Called ==
    /\ fpc = "Call"
    /\ fseen' = freq
    /\ Return(IF input.terminal = HostError THEN HostError
              ELSE finalize_response(input.terminal, fdecision.headers, fid))
    /\ UNCHANGED <<input, fid, fdecision, freq>>

FusedNext == Prepare \/ Authenticated \/ Called
===============================================================================
