----------------------------- MODULE Configuration -----------------------------
(***************************************************************************)
(* What a component instance makes of its environment.  The two policies   *)
(* are read from it once, each by the first request that gets that far,    *)
(* and kept in a OnceLock: the CORS policy first, the authentication       *)
(* broker only behind a valid CORS policy.                                 *)
(*                                                                         *)
(* An environment maps every key to the sequence of its values, as it may  *)
(* be given more than once.  A number is an integer, or Junk for text that *)
(* does not parse; a list is the sequence of its trimmed items, a service  *)
(* and its audiences are texts of AuthContext; a broker URL is its parts.  *)
(* Its host is given as it is read: labels as written, labels in lower     *)
(* case, and the bytes of the IP address it is without its brackets.       *)
(***************************************************************************)
EXTENDS AuthContext

CONSTANT Env            \* the environments

AuthnKeys == {"allow_insecure_loopback", "broker_url", "timeout_ms", "mode", "max_in_flight",
              "service_id", "audiences"}
CorsKeys == {"origins", "methods", "headers", "allow_credentials"}

IsSequence(values) == values \in Seq(ToSet(values))

\* Every key has a sequence of values.  Only the types of those that are taken
\* apart matter: audiences are texts, a host's labels are strings.
ASSUME EnvAssumption ==
    \A e \in Env :
        /\ DOMAIN e.authn = AuthnKeys /\ DOMAIN e.cors = CorsKeys
        /\ \A key \in AuthnKeys : IsSequence(e.authn[key])
        /\ \A key \in CorsKeys : IsSequence(e.cors[key])
        /\ \A list \in ToSet(e.authn.audiences) : IsTextList(list)
        /\ \A url \in ToSet(e.authn.broker_url) : url.host.labels \in Seq(STRING)

VARIABLES
    env,                \* the instance's environment, never changed
    cors,               \* CORS_CONFIG
    authn               \* AUTHN_CONFIG

configVars == <<env, cors, authn>>

DEFAULT_TIMEOUT_MS == 2000
MAX_TIMEOUT_MS == 60000
DEFAULT_MAX_IN_FLIGHT == 64
MAX_MAX_IN_FLIGHT == 1024

Junk == -1
Unset == [state |-> "unset"]
Err(error) == [state |-> "error", error |-> error]

\* The error of the first check that fails, or the configuration.
FirstError(checks, config) ==
    LET Fails(i) == checks[i][2]
        first == CHOOSE i \in DOMAIN checks : Fails(i) /\ \A j \in 1..(i - 1) : ~Fails(j)
    IN  IF \E i \in DOMAIN checks : Fails(i) THEN Err(checks[first][1]) ELSE config

\* environment_value: whether it refuses, and the value it finds.
DuplicatedUnequal(values) == Len(values) > 1 /\ values[1] # values[2]

Duplicated(values) == Len(values) > 1

Value(values, default) == IF values = <<>> THEN default ELSE values[1]
--------------------------------------------------------------------------------
(* AuthnConfig::from_environment *)

\* Names are compared as they are written.
is_spin_internal_host(host) ==
    /\ Len(host.labels) = 3 /\ host.labels[1] # ""
    /\ Tail(host.labels) = <<"spin", "internal">>

\* IpAddr::is_loopback: 127.0.0.0/8, or ::1 and no other address of 16 bytes.
is_loopback(address) ==
    \/ Len(address) = 4 /\ address[1] = 127
    \/ address = <<0, 0, 0, 0, 0, 0, 0, 0, 0, 0, 0, 0, 0, 0, 0, 1>>

is_loopback_host(host) ==
    \/ host.lower = <<"localhost">>
    \/ host.address # None /\ is_loopback(host.address[1])

parse_broker_url_flag_trusts_any(url, allow_insecure_loopback) ==
    /\ url.parses /\ ~url.userinfo
    /\ \/ url.scheme = "https"
       \/ url.scheme = "http" /\ is_spin_internal_host(url.host)
       \/ url.scheme = "http" /\ allow_insecure_loopback

parse_broker_url(url, allow_insecure_loopback) ==
    /\ url.parses /\ ~url.userinfo
    /\ \/ url.scheme = "https"
       \/ url.scheme = "http" /\ is_spin_internal_host(url.host)
       \/ url.scheme = "http" /\ allow_insecure_loopback /\ is_loopback_host(url.host)

\* The deployment identity, and the anonymous context of it that every request
\* without credentials will carry.
ValidDeployment(service_id, audiences) ==
    LET deployment == anonymous(service_id, audiences)
    IN  deployment # None /\ encode_auth_context(deployment[1]) # None

NoText == [kind |-> "bad", len |-> 0, json |-> 2, id |-> 0]
NoUrl == [parses |-> FALSE, userinfo |-> FALSE, scheme |-> "https",
          host |-> [labels |-> <<"">>, lower |-> <<"">>, address |-> None]]

from_environment(e) ==
    LET flag      == Value(e.allow_insecure_loopback, "false")
        url       == Value(e.broker_url, NoUrl)
        timeout   == Value(e.timeout_ms, DEFAULT_TIMEOUT_MS)
        mode      == Value(e.mode, "required")
        max       == Value(e.max_in_flight, DEFAULT_MAX_IN_FLIGHT)
        audiences == Value(e.audiences, <<>>)
    IN FirstError(<<
         <<"DuplicateEnvironment", Duplicated(e.allow_insecure_loopback)>>,
         <<"InvalidBoolean", flag \notin {"true", "false"}>>,
         <<"DuplicateEnvironment", Duplicated(e.broker_url)>>,
         <<"MissingBrokerUrl", e.broker_url = <<>> >>,
         <<"InvalidBrokerUrl", ~parse_broker_url(url, flag = "true")>>,
         <<"DuplicateEnvironment", Duplicated(e.timeout_ms)>>,
         <<"InvalidTimeout", timeout \notin 1..MAX_TIMEOUT_MS>>,
         <<"DuplicateEnvironment", Duplicated(e.mode)>>,
         <<"InvalidMode", mode \notin {"required", "optional"}>>,
         <<"DuplicateEnvironment", Duplicated(e.max_in_flight)>>,
         <<"InvalidMaxInFlight", max \notin 1..MAX_MAX_IN_FLIGHT>>,
         <<"DuplicateEnvironment", Duplicated(e.service_id)>>,
         <<"MissingServiceId", e.service_id = <<>> >>,
         <<"DuplicateEnvironment", Duplicated(e.audiences)>>,
         <<"MissingAudiences", e.audiences = <<>> >>,
         <<"InvalidDeploymentIdentity",
             ~ValidDeployment(Value(e.service_id, NoText), audiences)>> >>,
       [state |-> "ok", scheme |-> url.scheme, host |-> url.host, timeout |-> timeout,
        mode |-> mode, max_in_flight |-> max,
        service_id |-> Value(e.service_id, NoText), audiences |-> Canonical(audiences)])
--------------------------------------------------------------------------------
(* load_config of the cors component, load_cors_config of secure-defaults *)

\* An item that is not a serialized origin, respectively not a token.
BadOrigin == "bad origin"
BadToken == "bad token"

\* split_csv drops empty items.
split_csv(items) == ToSet(items) \ {""}

CorsConfig(origins, methods, headers, credentials) ==
    FirstError(<<
         <<"InvalidPolicy", origins = {}>>,
         <<"InvalidPolicy", credentials /\ "*" \in origins>>,
         <<"InvalidPolicy", BadOrigin \in origins>>,
         <<"InvalidPolicy", BadToken \in methods \/ methods = {}>>,
         <<"InvalidPolicy", BadToken \in headers>> >>,
       [state |-> "ok", origins |-> origins, methods |-> methods, headers |-> headers,
        credentials |-> credentials])

load_config(e) ==
    LET allowed == Value(e.allow_credentials, "false")
    IN FirstError(<<
         <<"DuplicateEnvironment", Duplicated(e.origins)>>,
         <<"MissingOrigins", e.origins = <<>> >>,
         <<"DuplicateEnvironment", Duplicated(e.methods)>>,
         <<"DuplicateEnvironment", Duplicated(e.headers)>>,
         <<"DuplicateEnvironment", Duplicated(e.allow_credentials)>>,
         <<"InvalidPolicy", allowed \notin {"true", "false"}>> >>,
       CorsConfig(split_csv(Value(e.origins, <<>>)),
                  split_csv(Value(e.methods, <<"GET", "HEAD", "POST">>)),
                  split_csv(Value(e.headers, <<"content-type", "authorization">>)),
                  allowed = "true"))
--------------------------------------------------------------------------------
ConfigInit ==
    /\ env \in Env
    /\ cors = Unset
    /\ authn = Unset

\* get_or_init, by the first request.
LoadCors ==
    /\ cors = Unset
    /\ cors' = load_config(env.cors)
    /\ UNCHANGED <<env, authn>>

\* get_or_init, by the first request that CORS lets through.
LoadAuthn ==
    /\ cors.state = "ok" /\ authn = Unset
    /\ authn' = from_environment(env.authn)
    /\ UNCHANGED <<env, cors>>

ConfigNext == LoadCors \/ LoadAuthn

ConfigSpec == ConfigInit /\ [][ConfigNext]_configVars
--------------------------------------------------------------------------------
(* Properties *)

\* docs/CONFIGURATION.md, "Plain HTTP is rejected except for one-label
\* <service>.spin.internal names or an IP/localhost loopback URL when the
\* explicit development flag is true": credentials never travel in the clear
\* to another host, and what is accepted is what AuthnRuntime assumes.  No key
\* was given twice, so that no value was chosen among several.
AuthnConfigSafe ==
    authn.state = "ok" =>
        /\ \A key \in DOMAIN env.authn : Len(env.authn[key]) <= 1
        /\ authn.scheme = "http" =>
             \/ /\ authn.host.labels = <<authn.host.labels[1], "spin", "internal">>
                /\ authn.host.labels[1] # ""
             \/ /\ env.authn.allow_insecure_loopback = <<"true">>
                /\ \/ authn.host.lower = <<"localhost">>
                   \/ authn.host.address # None /\ is_loopback(authn.host.address[1])
        /\ authn.timeout > 0 /\ authn.max_in_flight > 0
        /\ decode_auth_context(encode_auth_context(
               anonymous(authn.service_id, authn.audiences)[1])[1]) =
             anonymous(authn.service_id, authn.audiences)

\* A policy that is used never combines the wildcard with credentials, allows at
\* least one origin and one method, holds only what can be compared with a
\* request, and was not chosen among several values of one key, not even equal ones.
CorsConfigSafe ==
    cors.state = "ok" =>
        /\ \A key \in DOMAIN env.cors : Len(env.cors[key]) <= 1
        /\ ~(cors.credentials /\ "*" \in cors.origins)
        /\ cors.origins # {} /\ cors.methods # {}
        /\ BadOrigin \notin cors.origins /\ BadToken \notin cors.methods \cup cors.headers
================================================================================
