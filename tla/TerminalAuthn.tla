----------------------------- MODULE TerminalAuthn -----------------------------
(***************************************************************************)
(* crates/authn: authentication inside the terminal service, on one        *)
(* request object.  authenticate_request asks a broker and awaits it;      *)
(* accept_trusted_ingress takes over the context that the middleware put   *)
(* on the request.  Both strip the request before they decide, both        *)
(* install the verified context as a request extension.  The application   *)
(* may call them again, in any order, and may drop the pending future;     *)
(* wall-clock time passes in between.                                      *)
(***************************************************************************)
EXTENDS Naturals, Sequences

CONSTANTS
    Mode,           \* "Required" or "Optional"
    Service,        \* config.service_id
    Audience,       \* config.audiences
    Ingress,        \* the contexts a request may carry on arrival
    Expiry,         \* the expiry times the broker may assert, 0 for none
    MaxCalls,       \* bound: calls made on one request
    MaxTime         \* bound: the last instant

ASSUME ModeAssumption == Mode \in {"Required", "Optional"}
ASSUME BoundAssumption == MaxCalls \in Nat /\ MaxTime \in Nat
ASSUME AudienceAssumption == Audience # {}
ASSUME IngressAssumption == \A c \in Ingress : c.kind \in {"anonymous", "authenticated", "malformed"}
ASSUME ExpiryAssumption == Expiry \subseteq Nat

\* No context installed.  In a context, expires is 0 for an anonymous one and
\* for a principal without expiry.
None == [kind |-> "none", service |-> "", audiences |-> {}, expires |-> 0]

VARIABLES
    now,            \* unix_time
    authorization,  \* the Authorization header: absent, text, malformed
    contexts,       \* the values of the reserved context header
    goodId,         \* whether one canonical x-request-id is present
    pc,             \* idle, or awaiting the broker
    calls,          \* calls made so far
    asked,          \* history: requests sent to the broker
    extension,      \* the VerifiedAuthContext in the request extensions
    result          \* what the last call returned

vars == <<now, authorization, contexts, goodId, pc, calls, asked, extension, result>>

Init ==
    /\ now = 0
    /\ authorization \in {"absent", "text", "malformed"}
    /\ contexts \in {<<>>} \cup {<<c>> : c \in Ingress} \cup {<<c, c>> : c \in Ingress}
    /\ goodId \in BOOLEAN
    /\ pc = "idle"
    /\ calls = 0
    /\ asked = 0
    /\ extension = None
    /\ result = "none"
--------------------------------------------------------------------------------
SanitizeKeepsContext ==
    /\ authorization' = "absent"
    /\ UNCHANGED contexts

SanitizeKeepsCredential ==
    /\ contexts' = <<>>
    /\ UNCHANGED authorization

\* sanitize_headers: before any return and before the broker is polled.
Sanitize ==
    /\ authorization' = "absent"
    /\ contexts' = <<>>

Live(context, time) == context.expires = 0 \/ context.expires > time

Reject(rejection) ==
    /\ result' = rejection
    /\ UNCHANGED extension

install_verified(context) ==
    /\ extension' = context
    /\ result' = "Ok"

Configured(kind, expires) ==
    [kind |-> kind, service |-> Service, audiences |-> Audience, expires |-> expires]

Call == pc = "idle" /\ calls < MaxCalls /\ calls' = calls + 1

\* authenticate_request up to the broker's await.
Begin ==
    /\ Call
    /\ Sanitize
    /\ UNCHANGED <<now, goodId>>
    /\ \/ /\ authorization = "malformed"
          /\ Reject("InvalidRequest")
          /\ UNCHANGED <<pc, asked>>
       \/ /\ authorization = "absent"
          /\ IF Mode = "Required" THEN Reject("MissingCredentials")
                                  ELSE install_verified(Configured("anonymous", 0))
          /\ UNCHANGED <<pc, asked>>
       \/ /\ authorization = "text" /\ ~goodId
          /\ Reject("InvalidRequest")
          /\ UNCHANGED <<pc, asked>>
       \/ /\ authorization = "text" /\ goodId
          /\ pc' = "awaiting"
          /\ asked' = asked + 1
          /\ UNCHANGED <<extension, result>>

Resume == pc = "awaiting" /\ pc' = "idle"
    /\ UNCHANGED <<now, authorization, contexts, goodId, calls, asked>>

\* The broker fails or refuses, or its claims do not make a context.
BrokerRefuses ==
    /\ Resume
    /\ Reject("InvalidCredentials") \/ Reject("Unavailable")

BrokerAllowsAnyLifetime ==
    /\ Resume
    /\ \E e \in Expiry : install_verified(Configured("authenticated", e))

\* The broker's claims are accepted if they have not expired by now.
BrokerAllows ==
    /\ Resume
    /\ \E e \in Expiry :
        IF Live(Configured("authenticated", e), now)
          THEN install_verified(Configured("authenticated", e))
          ELSE Reject("InvalidCredentials")

\* The caller drops the pending future.
DropFuture == Resume /\ UNCHANGED <<extension, result>>

\* parse_auth_context: exactly one value, which decodes.
Parsed(cs) == Len(cs) = 1 /\ cs[1].kind # "malformed"

\* What accept_trusted_ingress accepts, read before the request is stripped.
AcceptableAnyAudience(cs) ==
    /\ Parsed(cs)
    /\ cs[1].service = Service
    /\ Live(cs[1], now)

Acceptable(cs) ==
    /\ Parsed(cs)
    /\ cs[1].service = Service
    /\ cs[1].audiences \cap Audience # {}
    /\ Live(cs[1], now)

AcceptTrustedIngress ==
    /\ Call
    /\ Sanitize
    /\ IF authorization = "absent" /\ Acceptable(contexts)
         THEN install_verified(contexts[1])
         ELSE Reject("InvalidBoundary")
    /\ UNCHANGED <<now, goodId, pc, asked>>

Tick ==
    /\ now < MaxTime
    /\ now' = now + 1
    /\ UNCHANGED <<authorization, contexts, goodId, pc, calls, asked, extension, result>>

Next == Begin \/ BrokerRefuses \/ BrokerAllows \/ DropFuture
        \/ AcceptTrustedIngress \/ Tick

Spec == Init /\ [][Next]_vars
--------------------------------------------------------------------------------
(* Properties *)

\* Once one of the functions has been called the request carries neither a
\* credential nor a wire context: while the broker is awaited, after every
\* rejection, and after the future was dropped.
Stripped == calls > 0 => authorization = "absent" /\ contexts = <<>>

\* A credential is sent to a broker at most once, however often the request is
\* presented again or a pending call is abandoned.
AskedOnce == asked <= 1

\* An identity is installed only while it is live: a lifetime that runs out
\* during the await is not accepted.
InstalledLive == [][extension' # extension => Live(extension', now)]_vars

\* The installed identity comes from a well-formed context bound to this service
\* and to one of its audiences, whichever function installed it.
InstalledBound ==
    extension # None =>
        /\ extension.service = Service
        /\ extension.audiences \cap Audience # {}
        /\ extension.kind \in {"anonymous", "authenticated"}
================================================================================
