------------------------------- MODULE Boundary -------------------------------
(***************************************************************************)
(* The two deployments of the middleware on the same case: the chain of    *)
(* four components, and the fused secure-defaults component, with the same *)
(* configuration, broker and terminal service.                             *)
(***************************************************************************)
EXTENDS MiddlewareChain, SecureDefaults

vars == <<input, pc, req, id, decision, seen, resp,
          fpc, fid, fdecision, freq, fseen, fresp>>

Init == ChainInit /\ FusedInit

Next ==
    \/ ChainNext /\ UNCHANGED <<fpc, fid, fdecision, freq, fseen, fresp>>
    \/ FusedNext /\ UNCHANGED <<pc, req, id, decision, seen, resp>>

Spec == Init /\ [][Next]_vars
-------------------------------------------------------------------------------
(* Properties *)

Outcome == authenticate(input.fields, input.authn, input.broker)

IsPreflight ==
    input.method = "OPTIONS" /\ input.fields["access-control-request-method"] # <<>>

\* components/secure-defaults says that it is semantically equivalent to the
\* chain: both give the same response, and call the terminal service with the
\* same request or not at all.
SameAnswer ==
    pc = "done" /\ fpc = "done" => resp = fresp /\ seen = fseen

\* The terminal service never sees a credential nor a context that a client
\* supplied: exactly one context reaches it, the one of this authentication,
\* with one request identifier.
TrustBoundary == \A s \in {seen, fseen} \ {NotCalled} :
    /\ s["authorization"] = <<>>
    /\ s["x-wasi-auth-context"] = <<Context(Outcome)>>
    /\ s["x-wasi-auth-other"] = <<>>
    /\ s["x-request-id"] = <<canonical_request_id(input.fields)>>

\* No request reaches the terminal service around a policy: configurations are
\* valid, a cross-origin request comes from an allowed origin and is not a
\* preflight, and authentication passed.
NoBypass ==
    seen # NotCalled \/ fseen # NotCalled =>
        /\ input.cors.valid /\ input.authn # "unset"
        /\ Passes(Outcome)
        /\ input.fields["origin"] # <<>> =>
             OriginAllowed(input.cors, input.fields["origin"][1]) /\ ~IsPreflight

Answers == {r \in {IF pc = "done" THEN resp ELSE HostError,
                   IF fpc = "done" THEN fresp ELSE HostError} : r # HostError}

\* Every response that leaves the middleware, its own rejections included,
\* carries the canonical request identifier and the security headers once, and
\* no reserved authentication header, even if the terminal service set one.
AnswersMarked == \A r \in Answers :
    /\ \A n \in Reserved : r.fields[n] = <<>>
    /\ r.fields["x-request-id"] = <<canonical_request_id(input.fields)>>
    /\ r.fields["x-content-type-options"] = <<<<"nosniff">>>>
    /\ r.fields["referrer-policy"] = <<<<"strict-origin-when-cross-origin">>>>

Tokens(values) == UNION {ToSet(values[i]) : i \in DOMAIN values}

Evaluated ==
    /\ input.cors.valid /\ input.method # BadToken
    /\ evaluate(input.cors, input.method, input.fields) # InvalidHeader

\* A shared cache is never told less than it was: the answer to a request with
\* an Origin varies on it (or on everything), and unless bytes that are not
\* text were there, a token of the terminal service's Vary is not lost.
CacheSafe == \A r \in Answers :
    LET vary  == Tokens(r.fields["vary"])
        given == input.terminal.fields["vary"]
    IN  /\ Evaluated /\ input.fields["origin"] # <<>> => {"origin", "*"} \cap vary # {}
        /\ seen # NotCalled /\ r = resp /\ ~Contains(given, NotText) =>
             Tokens(given) \subseteq vary \/ "*" \in vary

\* docs/CONFIGURATION.md: "Origin-dependent responses include Vary: Origin without
\* discarding existing Vary tokens."  Taken at its word, also when another value
\* of the terminal service's Vary is not text.
VaryTokensKept == \A r \in Answers :
    LET given == SelectSeq(input.terminal.fields["vary"], LAMBDA v : v # NotText)
        vary  == Tokens(r.fields["vary"])
    IN  seen # NotCalled /\ r = resp => Tokens(given) \subseteq vary \/ "*" \in vary
===============================================================================
