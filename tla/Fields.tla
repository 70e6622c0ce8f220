-------------------------------- MODULE Fields --------------------------------
(***************************************************************************)
(* Header fields as the middleware sees them, and the helpers of           *)
(* crates/component-support that edit them.  Fields map every lower-case   *)
(* name to the sequence of its values (none: the field is absent); the     *)
(* order of different names is not observable.  A value is the sequence of *)
(* its comma-separated tokens, or NotText for bytes that are not text.     *)
(***************************************************************************)
EXTENDS Naturals, Sequences, FiniteSets, SequencesExt

Reserved == {"x-wasi-auth-context", "x-wasi-auth-other"}

RequestNames == Reserved \cup
    {"authorization", "x-request-id", "origin",
     "access-control-request-method", "access-control-request-headers"}

CorsNames == {"access-control-allow-origin", "access-control-allow-credentials",
              "access-control-allow-methods", "access-control-allow-headers", "vary"}

ResponseNames == Reserved \cup CorsNames \cup
    {"x-request-id", "x-content-type-options", "referrer-policy",
     "www-authenticate", "retry-after", "content-length"}

NotText == <<"not text">>

\* The fields with the given values and no other.
Only(names, f) == [n \in names |-> IF n \in DOMAIN f THEN f[n] ELSE <<>>]

remove_header(h, name) == [h EXCEPT ![name] = <<>>]

remove_reserved(h) == [n \in DOMAIN h |-> IF n \in Reserved THEN <<>> ELSE h[n]]

set_header(h, name, value) == [remove_header(h, name) EXCEPT ![name] = Append(@, value)]

\* The host's fields after deleting the names that disappear and setting the
\* names whose values differ.
apply_header_diff(original, desired) ==
    LET deleted == [n \in DOMAIN original |->
                      IF original[n] # <<>> /\ desired[n] = <<>> THEN <<>> ELSE original[n]]
    IN  [n \in DOMAIN original |->
           IF desired[n] # <<>> /\ desired[n] # original[n] THEN desired[n] ELSE deleted[n]]

\* The host's fields after deleting names and every replaced name, then
\* appending the replacements: the values to append, by name.
apply_header_edits(h, deletes, replacements) ==
    LET deleted == [n \in DOMAIN h |->
                      IF n \in deletes \cup DOMAIN replacements THEN <<>> ELSE h[n]]
    IN  [n \in DOMAIN h |->
           IF n \in DOMAIN replacements THEN deleted[n] \o replacements[n] ELSE deleted[n]]

\* The tokens of a list of values without repetition, in the order in which they
\* first occur.  A place is the number of a value and that of a token in it.
Places(values) == UNION {{i} \X DOMAIN values[i] : i \in DOMAIN values}

At(values, p) == values[p[1]][p[2]]

Before(p, q) == p[1] < q[1] \/ (p[1] = q[1] /\ p[2] < q[2])

Firsts(values) ==
    {p \in Places(values) : \A q \in Places(values) :
        Before(q, p) => At(values, q) # At(values, p)}

Rank(places, p) == Cardinality({q \in places : Before(q, p)})

Distinct(values) ==
    LET firsts == Firsts(values)
    IN  [k \in 1..Cardinality(firsts) |->
           At(values, CHOOSE p \in firsts : Rank(firsts, p) = k - 1)]

\* is_valid_request_id accepts every other single value.
InvalidId == <<"invalid id">>
GeneratedId == <<"generated">>

\* A single valid value is kept; an absent, duplicated or invalid one is
\* replaced by a generated one.
canonical_request_id(h) ==
    LET ids == h["x-request-id"]
    IN  IF Len(ids) = 1 /\ ids[1] \notin {InvalidId, NotText} THEN ids[1] ELSE GeneratedId

\* empty_response: the headers given, and content-length 0.
empty_response(status, f) ==
    [status |-> status,
     fields |-> set_header(Only(ResponseNames, f), "content-length", <<"0">>)]

\* What a handler returns as Err(ErrorCode).
HostError == [status |-> 0, fields |-> Only(ResponseNames, <<>>)]
===============================================================================
