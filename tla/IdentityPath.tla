------------------------------ MODULE IdentityPath ------------------------------
(***************************************************************************)
(* One identity on its way through the system: the broker's answer, the    *)
(* claims that policy-core makes of it, the context that the middleware    *)
(* binds to its deployment and encodes, the header, and the terminal       *)
(* service that decodes it and accepts it as trusted ingress, while        *)
(* wall-clock time passes.  Both ends read their deployment identity from  *)
(* configuration of their own.  The terminal service may also be given a   *)
(* header by another ingress, which may write any document, as             *)
(* fuzz_targets/auth_context.rs does.                                      *)
(***************************************************************************)
EXTENDS AuthContext

CONSTANTS
    Deployment,     \* [service_id, audiences] as configured at either end
    Success,        \* the documents a broker may answer 200 with
    Foreign,        \* the header values of another ingress
    MaxTime         \* bound: the last instant

\* An option, as serde_json reads one.
IsOption(option, values) == option \in Seq(values) /\ Len(option) <= 1

\* The fields of a principal, in a broker's answer or in a document.
Readable(fields) ==
    /\ fields.issuer \in Text /\ fields.subject \in Text
    /\ \A field \in {"tenant_id", "acr", "session_id"} : IsOption(fields[field], Text)
    /\ \A field \in {"roles", "scopes", "amr"} : IsTextList(fields[field])
    /\ IsOption(fields.actor, [issuer : Text, subject : Text])
    /\ \A field \in {"auth_time", "expires_at"} : IsOption(fields[field], Nat)

ASSUME DeploymentAssumption == \A deployment \in Deployment : IsTextList(deployment.audiences)

ASSUME SuccessAssumption == \A answer \in Success : Readable(answer)

\* WireContextOwned
ASSUME ForeignAssumption ==
    \A value \in Foreign :
        /\ value.wire.state \in States
        /\ value.wire.service_id \in Text
        /\ IsTextList(value.wire.audiences)
        /\ value.wire.principal # None =>
             LET p == value.wire.principal[1]
             IN  value.wire.principal = Some(p) /\ DOMAIN p = PrincipalFields /\ Readable(p)
        /\ IsOption(value.wire.decision_id, Text) /\ IsOption(value.wire.policy_revision, Text)

ASSUME TimeAssumption == MaxTime \in Nat

VARIABLES
    pc,             \* configure, ready, claims, forwarded, done
    middleware,     \* AuthnConfig: the deployment of the middleware
    terminal,       \* TrustedIngressConfig: that of the terminal service
    success,        \* AuthnSuccessV1
    claims,         \* AuthenticatedClaimsV1
    context,        \* the context that was encoded
    header,         \* the value of x-wasi-auth-context
    now,            \* unix_time
    installed,      \* the context accepted by the terminal service
    outcome         \* what ended the request

vars == <<pc, middleware, terminal, success, claims, context, header, now, installed, outcome>>

NoDeployment == [service_id |-> None, audiences |-> <<>>]
NoAnswer == [version |-> 0]

\* AuthenticationConfig::new, which TrustedIngressConfig::new calls: a deployment
\* whose anonymous context can be built.
TerminalAccepts(deployment) ==
    anonymous(deployment.service_id, deployment.audiences) # None

Init ==
    /\ terminal \in Deployment
    /\ \/ /\ pc = "configure"
          /\ middleware \in Deployment
          /\ success \in Success
          /\ header = None
       \/ /\ pc = "forwarded"
          /\ TerminalAccepts(terminal)
          /\ middleware = NoDeployment /\ success = NoAnswer
          /\ header \in {Some(value) : value \in Foreign}
    /\ claims = None /\ context = None /\ installed = None
    /\ now = 0
    /\ outcome = "none"

Finish(result) == pc' = "done" /\ outcome' = result

\* from_environment: a deployment whose anonymous context can be encoded too.
MiddlewareAccepts(deployment) ==
    LET context_of == anonymous(deployment.service_id, deployment.audiences)
    IN  context_of # None /\ encode_auth_context(context_of[1]) # None

Configure ==
    /\ pc = "configure"
    /\ IF MiddlewareAccepts(middleware) /\ TerminalAccepts(terminal)
         THEN pc' = "ready" /\ UNCHANGED outcome
         ELSE Finish("InvalidDeploymentIdentity")
    /\ UNCHANGED <<middleware, terminal, success, claims, context, header, now, installed>>

Forward(bound) ==
    /\ context' = bound
    /\ header' = encode_auth_context(bound[1])
    /\ IF header' = None THEN Finish("ContextEncoding")
                         ELSE pc' = "forwarded" /\ UNCHANGED outcome

\* Optional mode without credentials: the context encoded with the configuration.
ForwardAnonymous ==
    /\ pc = "ready"
    /\ Forward(anonymous(middleware.service_id, middleware.audiences))
    /\ UNCHANGED <<middleware, terminal, success, claims, now, installed>>

\* parse_authn_response
BrokerAnswers ==
    /\ pc = "ready"
    /\ claims' = authenticated_claims(success)
    /\ IF claims' = None THEN Finish("BrokerProtocol")
                         ELSE pc' = "claims" /\ UNCHANGED outcome
    /\ UNCHANGED <<middleware, terminal, success, context, header, now, installed>>

\* AuthDecision::Allow
BindClaims ==
    /\ pc = "claims"
    /\ LET bound == into_context(claims[1], middleware.service_id, middleware.audiences)
       IN  IF bound = None
             THEN Finish("ContextEncoding") /\ UNCHANGED <<context, header>>
             ELSE Forward(bound)
    /\ UNCHANGED <<middleware, terminal, success, claims, now, installed>>

ExpiresAt(c) == IF c.principal = None THEN None ELSE c.principal[1].expires_at

validate_lifetime(c, time) == \A expiry \in ToSet(ExpiresAt(c)) : expiry > time

Trusted(c) ==
    /\ c.service_id = terminal.service_id
    /\ ToSet(c.audiences) \cap ToSet(terminal.audiences) # {}
    /\ validate_lifetime(c, now)

\* accept_trusted_ingress on a request with this one context.
Accept ==
    /\ pc = "forwarded"
    /\ LET parsed == decode_auth_context(header[1])
       IN  installed' = IF parsed # None /\ Trusted(parsed[1]) THEN parsed ELSE None
    /\ Finish(IF installed' = None THEN "InvalidBoundary" ELSE "Ok")
    /\ UNCHANGED <<middleware, terminal, success, claims, context, header, now>>

Tick ==
    /\ now < MaxTime /\ pc = "forwarded"
    /\ now' = now + 1
    /\ UNCHANGED <<pc, middleware, terminal, success, claims, context, header, installed, outcome>>

Next == Configure \/ ForwardAnonymous \/ BrokerAnswers \/ BindClaims \/ Accept \/ Tick

Spec == Init /\ [][Next]_vars
--------------------------------------------------------------------------------
(* Properties *)

\* The terminal service refuses a context of the middleware only because it is
\* deployed as another service, for other audiences, or because the identity
\* expired: whatever encode_auth_context accepts decode_auth_context accepts.
RefusedForCause ==
    outcome = "InvalidBoundary" /\ context # None =>
        \/ terminal.service_id # middleware.service_id
        \/ ToSet(terminal.audiences) \cap ToSet(middleware.audiences) = {}
        \/ success.expires_at # None /\ success.expires_at[1] <= now

\* The identity that the terminal service installs is the one the broker
\* asserted, field by field, for the audiences of the middleware's deployment;
\* an anonymous one asserts nothing.
IdentityKept ==
    context # None => \A c \in ToSet(installed) :
        /\ c.service_id = middleware.service_id
        /\ ToSet(c.audiences) = ToSet(middleware.audiences)
        /\ claims = None <=> c.principal = None
        /\ \A p \in ToSet(c.principal) :
             /\ \A field \in PrincipalFields \ {"roles", "scopes", "amr"} :
                  p[field] = success[field]
             /\ \A field \in {"roles", "scopes", "amr"} : ToSet(p[field]) = ToSet(success[field])
             /\ c.decision_id = <<success.decision_id>>
             /\ c.policy_revision = <<success.policy_revision>>

\* Claims that were accepted always make a context: after that only its encoded
\* size can refuse them, never an anonymous one, and the diagnostic stage
\* ContextEncoding says so.
OnlySizeRefuses ==
    outcome = "ContextEncoding" =>
        /\ claims # None /\ context # None
        /\ ~(EncodedLen(JsonLen("object", Wire(context[1]))) <= MAX_AUTH_CONTEXT_ENCODED_LEN)

Decoded == IF header = None THEN None ELSE decode_auth_context(header[1])

\* "decoded contexts must re-encode", fuzz_targets/auth_context.rs: whatever
\* decode_auth_context accepts, encode_auth_context accepts.
Reencodes == \A c \in ToSet(Decoded) : encode_auth_context(c) # None

\* The assertions of fuzz_targets/auth_context.rs for a document in the form that
\* encode_auth_context writes, in whatever order and however often its list items
\* come: what was read can be written again, and reads the same.
ObjectsReencode ==
    \A c \in ToSet(Decoded) : header[1].form = "object" =>
        encode_auth_context(c) # None /\ decode_auth_context(encode_auth_context(c)[1]) = Some(c)

Sorted(list) == \A i, j \in 1..Len(list) : i < j => list[i].id < list[j].id

SoundPrincipal(p) ==
    /\ Sorted(p.roles) /\ Sorted(p.scopes) /\ Sorted(p.amr)
    /\ p.auth_time # None /\ p.expires_at # None => p.auth_time[1] < p.expires_at[1]

\* A decoded context is consistent, whoever wrote it: it names an audience, it
\* has a principal and a decision exactly if it is authenticated, its lists are
\* sorted without repetition, and its lifetime ends after it began.
DecodedSound ==
    \A c \in ToSet(Decoded) :
        LET parts == {c.principal, c.decision_id, c.policy_revision}
        IN  /\ IF c.state = "authenticated" THEN None \notin parts ELSE parts = {None}
            /\ c.audiences # <<>> /\ Sorted(c.audiences)
            /\ \A p \in ToSet(c.principal) : SoundPrincipal(p)
================================================================================
