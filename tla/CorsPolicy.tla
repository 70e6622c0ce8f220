------------------------------ MODULE CorsPolicy ------------------------------
(***************************************************************************)
(* crates/policy-core: the CORS decision on one request, and the outcome   *)
(* of authentication as AuthnRuntime guarantees it.                        *)
(***************************************************************************)
EXTENDS Fields

\* Tokens that are not a method, respectively not a header name.
BadToken == "bad token"

\* single_text_header: whether it fails, and the value it finds.
NotSingleText(values) == Len(values) > 1 \/ (Len(values) = 1 /\ values[1] = NotText)

Decision(status, f) == [status |-> status, headers |-> Only(CorsNames, f)]

pass_through == Decision(0, <<>>)
rejected_for_origin == Decision(403, [vary |-> <<<<"origin">>>>])

\* CorsConfig::evaluate; status 0 means that downstream runs, 400 stands for
\* Err(InvalidHeader), which every caller turns into 400 without headers.
InvalidHeader == Decision(400, <<>>)

AllowHeaders(cors, origin) ==
    [n \in {"access-control-allow-origin", "vary"}
             \cup (IF cors.credentials THEN {"access-control-allow-credentials"} ELSE {}) |->
        CASE n = "access-control-allow-origin" ->
                <<IF "*" \in cors.origins THEN <<"*">> ELSE origin>>
          [] n = "vary" -> <<<<"origin">>>>
          [] OTHER -> <<<<"true">>>>]

PreflightHeaders(cors) ==
    [n \in {"access-control-allow-methods"}
             \cup (IF cors.headers # {} THEN {"access-control-allow-headers"} ELSE {}) |->
        IF n = "access-control-allow-methods" THEN <<<<"the methods">>>>
                                              ELSE <<<<"the headers">>>>]

Preflight(cors, origin, h) ==
    LET method  == h["access-control-request-method"]
        headers == h["access-control-request-headers"]
        wanted  == IF headers = <<>> THEN {} ELSE ToSet(headers[1])
    IN  IF NotSingleText(method) \/ method[1][1] = BadToken THEN InvalidHeader
        ELSE IF method[1][1] \notin cors.methods THEN rejected_for_origin
        ELSE IF NotSingleText(headers) \/ BadToken \in wanted THEN InvalidHeader
        ELSE IF ~(wanted \subseteq cors.headers) THEN rejected_for_origin
        ELSE [status |-> 204,
              headers |-> [n \in CorsNames |->
                 Only(CorsNames, AllowHeaders(cors, origin))[n]
                     \o Only(CorsNames, PreflightHeaders(cors))[n]]]

OriginAllowed(cors, origin) == "*" \in cors.origins \/ origin[1] \in cors.origins

evaluate(cors, method, h) ==
    IF NotSingleText(h["origin"]) THEN InvalidHeader
    ELSE IF h["origin"] = <<>> THEN pass_through
    ELSE LET origin == h["origin"][1] IN
         IF ~OriginAllowed(cors, origin) THEN rejected_for_origin
         ELSE IF method = "OPTIONS" /\ h["access-control-request-method"] # <<>>
         THEN Preflight(cors, origin, h)
         ELSE Decision(0, AllowHeaders(cors, origin))
-------------------------------------------------------------------------------
(* Authentication: the outcome, given what the broker would answer. *)

authenticate(h, mode, broker) ==
    LET values == h["authorization"]
    IN  CASE NotSingleText(values) -> "InvalidRequest"
          [] values = <<>> /\ mode = "Optional" -> "PassAnonymous"
          [] values = <<>> /\ mode = "Required" -> "MissingCredentials"
          [] OTHER -> broker

Passes(outcome) == outcome \in {"PassAnonymous", "PassAuthenticated"}

\* The encoded context of a request that passes.
Context(outcome) == <<outcome>>

RejectionStatus(outcome) ==
    CASE outcome = "InvalidRequest" -> 400
      [] outcome \in {"MissingCredentials", "InvalidCredentials"} -> 401
      [] OTHER -> 503

\* bearer_challenge and retry-after.
RejectionFields(outcome) ==
    IF outcome = "Unavailable" THEN [n \in {"retry-after"} |-> <<<<"1">>>>]
    ELSE [n \in {"www-authenticate"} |-> <<<<"Bearer", outcome>>>>]
===============================================================================
