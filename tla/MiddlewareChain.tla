---------------------------- MODULE MiddlewareChain ----------------------------
(***************************************************************************)
(* One request through the four composed components                        *)
(* request-id -> security-headers -> cors -> authn-policy -> terminal.     *)
(* A component's handler runs inwards up to its downstream call and        *)
(* outwards after it; security-headers does nothing before the call.  A    *)
(* component may answer by itself, and then only the outer ones run.       *)
(***************************************************************************)
EXTENDS Cases

VARIABLES
    pc,             \* the next half-handler to run
    req,            \* the request fields on their way in
    id,             \* the identifier kept by request-id across its call
    decision,       \* the CORS decision kept by cors across its call
    seen,           \* the request fields the terminal was called with
    resp            \* the response on its way out

chainVars == <<input, pc, req, id, decision, seen, resp>>

NotCalled == Only(RequestNames, <<>>)

ChainInit ==
    /\ input \in Input
    /\ pc = "RequestIdIn"
    /\ req = input.fields
    /\ id = <<>>
    /\ decision = pass_through
    /\ seen = NotCalled
    /\ resp = HostError
-----------------------------------------------------------------------------
RequestIdIn ==
    /\ pc = "RequestIdIn"
    /\ id' = canonical_request_id(req)
    /\ req' = apply_header_diff(req, set_header(req, "x-request-id", id'))
    /\ pc' = "CorsIn"
    /\ UNCHANGED <<input, decision, seen, resp>>

\* A component answers instead of calling downstream.
Answer(r, next) ==
    /\ resp' = r
    /\ pc' = next
    /\ UNCHANGED <<input, req, id, decision, seen>>

CorsInIgnoresStatus ==
    /\ pc = "CorsIn"
    /\ IF ~input.cors.valid \/ input.method = BadToken
         THEN Answer(empty_response(400, <<>>), "SecurityOut")
         ELSE /\ decision' = evaluate(input.cors, input.method, req)
              /\ pc' = "AuthnIn"
              /\ UNCHANGED <<input, req, id, seen, resp>>

CorsIn ==
    /\ pc = "CorsIn"
    /\ IF ~input.cors.valid
         THEN Answer(empty_response(503, [n \in {"retry-after"} |-> <<<<"1">>>>]), "SecurityOut")
         ELSE IF input.method = BadToken
         THEN Answer(empty_response(400, <<>>), "SecurityOut")
         ELSE LET d == evaluate(input.cors, input.method, req) IN
              IF d.status # 0
                THEN Answer(empty_response(d.status, d.headers), "SecurityOut")
                ELSE /\ decision' = d
                     /\ pc' = "AuthnIn"
                     /\ UNCHANGED <<input, req, id, seen, resp>>

\* What authn-policy sends downstream for a request that passes.
ForwardedKeepsReserved(h, outcome, rid) ==
    LET bare == remove_header(h, "authorization")
    IN  apply_header_diff(h,
          set_header(set_header(bare, "x-wasi-auth-context", Context(outcome)),
                     "x-request-id", rid))

Forwarded(h, outcome, rid) ==
    LET bare == remove_reserved(remove_header(h, "authorization"))
    IN  apply_header_diff(h,
          set_header(set_header(bare, "x-wasi-auth-context", Context(outcome)),
                     "x-request-id", rid))

\* Its own answers carry the identifier and the fields given.
AuthnAnswer(status, f, rid) ==
    LET r == empty_response(status, f)
    IN  [r EXCEPT !.fields = set_header(@, "x-request-id", rid)]

AuthnIn ==
    /\ pc = "AuthnIn"
    /\ LET rid     == canonical_request_id(req)
           outcome == authenticate(req, input.authn, input.broker)
       IN  IF input.authn = "unset"
             THEN Answer(AuthnAnswer(503, [n \in {"retry-after"} |-> <<<<"1">>>>], rid), "CorsOut")
             ELSE IF Passes(outcome)
             THEN /\ req' = Forwarded(req, outcome, rid)
                  /\ pc' = "Terminal"
                  /\ UNCHANGED <<input, id, decision, seen, resp>>
             ELSE Answer(AuthnAnswer(RejectionStatus(outcome), RejectionFields(outcome), rid),
                         "CorsOut")

\* The terminal service answers, or fails: the error passes through every `?`.
Terminal ==
    /\ pc = "Terminal"
    /\ seen' = req
    /\ resp' = input.terminal
    /\ pc' = IF input.terminal = HostError THEN "done" ELSE "AuthnOut"
    /\ UNCHANGED <<input, req, id, decision>>

\* The outward half of a component rewrites the response fields.
Rewrite(from, desired, next) ==
    /\ pc = from
    /\ resp' = [resp EXCEPT !.fields = apply_header_diff(resp.fields, desired)]
    /\ pc' = next
    /\ UNCHANGED <<input, req, id, decision, seen>>

AuthnOutKeepsReserved == Rewrite("AuthnOut", resp.fields, "CorsOut")

AuthnOut == Rewrite("AuthnOut", remove_reserved(resp.fields), "CorsOut")

\* The tokens of every value, without repetition, and origin; a star met before
\* bytes that are not text wins, such bytes discard what was there.
merge_vary_overwrites(values) == <<"origin">>

merge_vary_origin(values) ==
    LET bad  == {i \in DOMAIN values : values[i] = NotText}
        text == {i \in DOMAIN values : \A b \in bad : i < b}
    IN  IF \E i \in text : "*" \in ToSet(values[i]) THEN <<"*">>
        ELSE IF bad # {} THEN <<"origin">>
        ELSE Distinct(Append(values, <<"origin">>))

\* merge_cors_headers, skipped when the decision has no header.
Merged(h, d) ==
    [n \in DOMAIN h |->
        IF n \notin CorsNames \/ d[n] = <<>> THEN h[n]
        ELSE IF n = "vary" THEN <<merge_vary_origin(h["vary"])>>
        ELSE d[n]]

CorsOut == Rewrite("CorsOut", Merged(resp.fields, decision.headers), "SecurityOut")

SecurityOut ==
    Rewrite("SecurityOut",
            set_header(set_header(resp.fields, "x-content-type-options", <<"nosniff">>),
                       "referrer-policy", <<"strict-origin-when-cross-origin">>),
            "RequestIdOut")

RequestIdOut ==
    Rewrite("RequestIdOut", set_header(resp.fields, "x-request-id", id), "done")

ChainNext ==
    \/ RequestIdIn \/ CorsIn \/ AuthnIn \/ Terminal
    \/ AuthnOut \/ CorsOut \/ SecurityOut \/ RequestIdOut
================================================================================
