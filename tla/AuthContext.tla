------------------------------ MODULE AuthContext ------------------------------
(***************************************************************************)
(* crates/metadata: the bounds on identity metadata, the canonical form of *)
(* an authentication context and its wire format, and the claims that      *)
(* policy-core makes of a broker's answer.                                 *)
(*                                                                         *)
(* A text is [kind, len, json, id]: the strictest of token, ascii and text *)
(* that its characters meet (bad for controls or outer blanks), its bytes, *)
(* its bytes as a JSON string, and a number to tell it from others.  An    *)
(* option is a sequence of at most one value, and so is a Result: all      *)
(* callers treat every MetadataError alike.  Texts sort by their numbers.  *)
(***************************************************************************)
EXTENDS Integers, Sequences, TLC, SequencesExt, FiniteSetsExt

AUTH_CONTEXT_VERSION == 1
MAX_AUTH_CONTEXT_ENCODED_LEN == 8192
MAX_IDENTITY_VALUE_LEN == 512
MAX_CONTEXT_VALUE_LEN == 256
MAX_SESSION_VALUE_LEN == 512
MAX_COLLECTION_ITEMS == 64
MAX_AUDIENCES == 16
MAX_SCOPE_VALUE_LEN == 2048

None == <<>>
Some(value) == <<value>>
OkIf(condition, value) == IF condition THEN Some(value) ELSE None

Text == [kind : {"token", "ascii", "text", "bad"}, len : Nat, json : Nat, id : Nat]

\* Texts of one list are the same if they have the same number.
IsTextList(list) ==
    /\ list \in Seq(Text)
    /\ \A v, w \in ToSet(list) : v.id = w.id => v = w
--------------------------------------------------------------------------------
(* Validation *)

validate_text(value, maximum) == value.kind # "bad" /\ value.len \in 1..maximum

validate_ascii_text(value, maximum) ==
    validate_text(value, maximum) /\ value.kind \in {"token", "ascii"}

is_token(value) == value.kind = "token" /\ value.len \in 1..128

CanonicalUnsorted(values) ==
    FoldLeft(LAMBDA kept, value : IF kept # <<>> /\ Last(kept) = value
                                    THEN kept ELSE Append(kept, value),
             <<>>, values)

\* sort_unstable and dedup: every text once, at its rank.
Canonical(values) ==
    LET texts  == ToSet(values)
        ranked == {<<Cardinality({t \in texts : t.id <= text.id}), text>> : text \in texts}
    IN  [i \in 1..Cardinality(texts) |-> (CHOOSE place \in ranked : place[1] = i)[2]]

\* Items are counted before they are de-duplicated.
validated_deployment(service_id, audiences) ==
    /\ is_token(service_id)
    /\ Len(audiences) \in 1..MAX_AUDIENCES
    /\ \A audience \in ToSet(audiences) : validate_ascii_text(audience, MAX_CONTEXT_VALUE_LEN)

validated_tokens(values) ==
    Len(values) <= MAX_COLLECTION_ITEMS /\ \A value \in ToSet(values) : is_token(value)

\* The sum of a sequence of lengths.
Total(lens) ==
    LET sum[i \in 0..Len(lens)] == IF i = 0 THEN 0 ELSE sum[i - 1] + lens[i]
    IN  sum[Len(lens)]

\* The scopes of a principal as one space-separated value.
ScopesLen(scopes) == Total([i \in 1..Len(scopes) |-> scopes[i].len + 1]) - 1

with_times(auth_time, expires_at) ==
    \A auth \in ToSet(auth_time), expiry \in ToSet(expires_at) : expiry > auth

ActorV1(actor) ==
    validate_text(actor.issuer, MAX_IDENTITY_VALUE_LEN)
    /\ validate_text(actor.subject, MAX_IDENTITY_VALUE_LEN)

\* PrincipalV1::new and its builders, as both callers chain them: the broker's
\* claims and the wire format have the same fields.
PrincipalV1(fields) ==
    OkIf(/\ validate_text(fields.issuer, MAX_IDENTITY_VALUE_LEN)
         /\ validate_text(fields.subject, MAX_IDENTITY_VALUE_LEN)
         /\ \A tenant \in ToSet(fields.tenant_id) : validate_text(tenant, MAX_IDENTITY_VALUE_LEN)
         /\ validated_tokens(fields.roles)
         /\ validated_tokens(fields.scopes)
         /\ ScopesLen(Canonical(fields.scopes)) <= MAX_SCOPE_VALUE_LEN
         /\ \A acr \in ToSet(fields.acr) : validate_text(acr, MAX_CONTEXT_VALUE_LEN)
         /\ validated_tokens(fields.amr)
         /\ \A actor \in ToSet(fields.actor) : ActorV1(actor)
         /\ with_times(fields.auth_time, fields.expires_at)
         /\ \A session \in ToSet(fields.session_id) : validate_text(session, MAX_SESSION_VALUE_LEN),
       [fields EXCEPT !.roles = Canonical(@), !.scopes = Canonical(@), !.amr = Canonical(@)])

anonymous(service_id, audiences) ==
    OkIf(validated_deployment(service_id, audiences),
         [state |-> "anonymous", service_id |-> service_id, audiences |-> Canonical(audiences),
          principal |-> None, decision_id |-> None, policy_revision |-> None])

authenticated(service_id, audiences, principal, decision_id, policy_revision) ==
    OkIf(/\ validated_deployment(service_id, audiences)
         /\ validate_text(decision_id, MAX_CONTEXT_VALUE_LEN)
         /\ validate_text(policy_revision, MAX_CONTEXT_VALUE_LEN),
         [state |-> "authenticated", service_id |-> service_id, audiences |-> Canonical(audiences),
          principal |-> Some(principal),
          decision_id |-> Some(decision_id), policy_revision |-> Some(policy_revision)])
--------------------------------------------------------------------------------
(* The wire format *)

PrincipalFields == {"issuer", "subject", "tenant_id", "roles", "scopes", "acr", "amr",
                    "actor", "auth_time", "expires_at", "session_id"}

WirePrincipal(principal) == principal

\* WireContextRef: the document that encode_auth_context writes.
Wire(context) ==
    [version |-> AUTH_CONTEXT_VERSION,
     state |-> context.state,
     service_id |-> context.service_id,
     audiences |-> context.audiences,
     principal |-> [i \in DOMAIN context.principal |-> WirePrincipal(context.principal[i])],
     decision_id |-> context.decision_id,
     policy_revision |-> context.policy_revision]

States == {"anonymous", "authenticated"}

\* Strings are sequences of characters, a fact that the provers do not know.
ASSUME NameAssumption ==
    \A name \in PrincipalFields \cup States \cup
         {"version", "state", "service_id", "audiences", "principal", "decision_id", "policy_revision"} :
        Len(name) \in Nat

\* The length of a value as JSON, and whether skip_serializing_if leaves it out.
Full(len) == [len |-> len, skip |-> FALSE]
Opt(option, len) == [len |-> IF option = None THEN 4 ELSE len, skip |-> option = None]
ListLen(list) ==
    IF list = <<>> THEN 2 ELSE 1 + Total([i \in 1..Len(list) |-> list[i].json + 1])
OptList(list) == [len |-> ListLen(list), skip |-> list = <<>>]

\* The decimal digits of a u64.
Digits(n) ==
    LET shifted[k \in 0..19] == IF k = 0 THEN n ELSE shifted[k - 1] \div 10
    IN  1 + Cardinality({k \in 1..19 : shifted[k] > 0})

\* serde_json writes a struct as an object; it reads an object or an array of
\* all the fields in their order.  A field is followed by a comma or the end.
Field(form, name, value) ==
    CASE form = "array" -> value.len + 1
      [] form = "object" /\ value.skip -> 0
      [] form = "object" /\ ~value.skip -> Len(name) + 4 + value.len

OptText(option) == Opt(option, IF option = None THEN 0 ELSE option[1].json)
OptNumber(option) == Opt(option, IF option = None THEN 0 ELSE Digits(option[1]))

ActorLen(form, actor) ==
    1 + Field(form, "issuer", Full(actor.issuer.json))
      + Field(form, "subject", Full(actor.subject.json))

OptActor(form, option) ==
    Opt(option, IF option = None THEN 0 ELSE ActorLen(form, option[1]))

PrincipalLen(form, p) ==
    1 + Field(form, "issuer", Full(p.issuer.json))
      + Field(form, "subject", Full(p.subject.json))
      + Field(form, "tenant_id", OptText(p.tenant_id))
      + Field(form, "roles", OptList(p.roles))
      + Field(form, "scopes", OptList(p.scopes))
      + Field(form, "acr", OptText(p.acr))
      + Field(form, "amr", OptList(p.amr))
      + Field(form, "actor", OptActor(form, p.actor))
      + Field(form, "auth_time", OptNumber(p.auth_time))
      + Field(form, "expires_at", OptNumber(p.expires_at))
      + Field(form, "session_id", OptText(p.session_id))

OptPrincipal(form, option) ==
    Opt(option, IF option = None THEN 0 ELSE PrincipalLen(form, option[1]))

JsonLen(form, wire) ==
    1 + Field(form, "version", Full(1))
      + Field(form, "state", Full(Len(wire.state) + 2))
      + Field(form, "service_id", Full(wire.service_id.json))
      + Field(form, "audiences", Full(ListLen(wire.audiences)))
      + Field(form, "principal", OptPrincipal(form, wire.principal))
      + Field(form, "decision_id", OptText(wire.decision_id))
      + Field(form, "policy_revision", OptText(wire.policy_revision))

\* base64url without padding.
EncodedLen(bytes) == (4 * bytes + 2) \div 3

\* A header value: a document in one of its forms, in canonical base64url or not.
Header(form, base64, wire) == [form |-> form, base64 |-> base64, wire |-> wire]

encode_counts_json(context) ==
    OkIf(JsonLen("object", Wire(context)) <= MAX_AUTH_CONTEXT_ENCODED_LEN,
         Header("object", "canonical", Wire(context)))

encode_auth_context(context) ==
    OkIf(EncodedLen(JsonLen("object", Wire(context))) <= MAX_AUTH_CONTEXT_ENCODED_LEN,
         Header("object", "canonical", Wire(context)))

\* TryFrom<WireContextOwned>
FromWire(wire) ==
    CASE /\ wire.version = AUTH_CONTEXT_VERSION /\ wire.state = "anonymous"
         /\ wire.principal = None /\ wire.decision_id = None /\ wire.policy_revision = None ->
           anonymous(wire.service_id, wire.audiences)
      [] /\ wire.version = AUTH_CONTEXT_VERSION /\ wire.state = "authenticated"
         /\ wire.principal # None /\ wire.decision_id # None /\ wire.policy_revision # None ->
           LET principal == PrincipalV1(wire.principal[1])
           IN  IF principal = None THEN None
               ELSE authenticated(wire.service_id, wire.audiences, principal[1],
                                  wire.decision_id[1], wire.policy_revision[1])
      [] OTHER -> None

decode_unbounded(header) ==
    IF header.base64 = "canonical" THEN FromWire(header.wire) ELSE None

decode_auth_context(header) ==
    IF /\ EncodedLen(JsonLen(header.form, header.wire)) <= MAX_AUTH_CONTEXT_ENCODED_LEN
       /\ header.base64 = "canonical"
      THEN FromWire(header.wire) ELSE None
--------------------------------------------------------------------------------
(* policy-core: the claims of a broker's answer *)

PrincipalSwapped(success) ==
    PrincipalV1([field \in PrincipalFields |->
        CASE field = "issuer" -> success.subject
          [] field = "subject" -> success.issuer
          [] OTHER -> success[field]])

Principal(success) == PrincipalV1([field \in PrincipalFields |-> success[field]])

Claims(principal, success) ==
    [principal |-> principal, decision_id |-> success.decision_id,
     policy_revision |-> success.policy_revision]

claims_without_trial(success) ==
    LET principal == Principal(success)
    IN  IF success.version # 1 \/ principal = None THEN None
        ELSE Some(Claims(principal[1], success))

Validation == [kind |-> "token", len |-> 10, json |-> 12, id |-> 0]

\* The trial context tests the identifiers of the decision.
authenticated_claims(success) ==
    LET principal == Principal(success)
    IN  IF success.version # 1 \/ principal = None THEN None
        ELSE OkIf(authenticated(Validation, <<Validation>>, principal[1],
                                success.decision_id, success.policy_revision) # None,
                  Claims(principal[1], success))

into_context(claims, service_id, audiences) ==
    authenticated(service_id, audiences, claims.principal,
                  claims.decision_id, claims.policy_revision)
================================================================================
