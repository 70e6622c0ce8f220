---------------------------- MODULE BoundaryProofs ----------------------------
(***************************************************************************)
(* Boundary for every set of cases.  Both deployments are deterministic:   *)
(* Final and FinalSeen say, as functions of the case, what the client gets *)
(* and what the terminal service sees.  The inductive invariant says how   *)
(* far each deployment has come towards them at each of its awaits; the    *)
(* properties of Boundary are then facts about Final and FinalSeen.        *)
(***************************************************************************)
EXTENDS Boundary, FiniteSetTheorems, TLAPS

\* Fields with these names, whatever their values are.
FieldsOf(N, h) == h = [n \in N |-> h[n]]

\* The policies give a header at most one value.
AtMostOne(vs) == vs = <<>> \/ \E v : vs = <<v>>
CorsFields(d) == FieldsOf(CorsNames, d) /\ \A n \in CorsNames : AtMostOne(d[n])

Rid == canonical_request_id(input.fields)

Cors == evaluate(input.cors, input.method, input.fields)

\* The request once it has its identifier, and as it is handed downstream.
Tagged == [input.fields EXCEPT !["x-request-id"] = <<Rid>>]

Downstream ==
    [n \in RequestNames |->
        IF n = "x-request-id" THEN <<Rid>>
        ELSE IF n = "x-wasi-auth-context" THEN <<Context(Outcome)>>
        ELSE IF n \in {"authorization", "x-wasi-auth-other"} THEN <<>>
        ELSE input.fields[n]]

\* The fields that every answer leaves with.
Marked(f) ==
    [n \in ResponseNames |->
        IF n = "x-request-id" THEN <<Rid>>
        ELSE IF n = "x-content-type-options" THEN <<<<"nosniff">>>>
        ELSE IF n = "referrer-policy" THEN <<<<"strict-origin-when-cross-origin">>>>
        ELSE IF n \in Reserved THEN <<>>
        ELSE f[n]]

CorsRuns == input.cors.valid /\ input.method # BadToken
CorsPasses == CorsRuns /\ Cors.status = 0
Reaches == CorsPasses /\ input.authn # "unset" /\ Passes(Outcome)

\* The answer before anything is added to it.
Inner ==
    IF ~input.cors.valid THEN empty_response(503, RetryAfter)
    ELSE IF input.method = BadToken THEN empty_response(400, <<>>)
    ELSE IF Cors.status # 0 THEN empty_response(Cors.status, <<>>)
    ELSE IF input.authn = "unset" THEN empty_response(503, RetryAfter)
    ELSE IF ~Passes(Outcome)
      THEN empty_response(RejectionStatus(Outcome), RejectionFields(Outcome))
    ELSE input.terminal

CorsHeaders == IF CorsRuns THEN Cors.headers ELSE pass_through.headers

Finished(r, d) == [status |-> r.status, fields |-> Marked(Merged(r.fields, d))]

Final == IF Reaches /\ input.terminal = HostError THEN HostError
         ELSE Finished(Inner, CorsHeaders)

FinalSeen == IF Reaches THEN Downstream ELSE NotCalled
\* How far the chain has come: nothing is called before the terminal half-handler
\* runs; then the answer on its way out is Final up to what the components still
\* ahead of it overwrite.
Unreached == {"RequestIdIn", "CorsIn", "AuthnIn", "Terminal"}
Decided == {"AuthnIn", "Terminal", "AuthnOut", "CorsOut"}

WellFormed(r) ==
    /\ r = [status |-> r.status, fields |-> r.fields]
    /\ FieldsOf(ResponseNames, r.fields)

Stripped(r) == WellFormed(r) /\ \A n \in Reserved : r.fields[n] = <<>>

ChainInv ==
    /\ pc \in Unreached \cup Decided \cup {"SecurityOut", "RequestIdOut", "done"}
    /\ seen = IF pc \in Unreached THEN NotCalled ELSE FinalSeen
    /\ pc \notin {"RequestIdIn", "done"} => id = Rid
    /\ pc \in Decided => decision = Cors /\ CorsPasses
    /\ pc = "RequestIdIn" => req = input.fields
    /\ pc \in {"CorsIn", "AuthnIn"} => req = Tagged
    /\ pc = "Terminal" => req = Downstream
    /\ pc \in {"Terminal", "AuthnOut"} => Reaches
    /\ pc = "AuthnOut" => resp = input.terminal /\ resp # HostError
    /\ pc = "CorsOut" => /\ Stripped(resp)
                         /\ ~(Reaches /\ input.terminal = HostError)
                         /\ Finished(resp, Cors.headers) = Finished(Inner, Cors.headers)
    /\ pc \in {"SecurityOut", "RequestIdOut"} =>
         Stripped(resp) /\ [status |-> resp.status, fields |-> Marked(resp.fields)] = Final
    /\ pc = "RequestIdOut" =>
         /\ resp.fields["x-content-type-options"] = <<<<"nosniff">>>>
         /\ resp.fields["referrer-policy"] = <<<<"strict-origin-when-cross-origin">>>>
    /\ pc = "done" => resp = Final

\* How far the fused component has come.
FusedInv ==
    /\ fpc \in {"Prepare", "Authenticate", "Call", "done"}
    /\ fseen = IF fpc = "done" THEN FinalSeen ELSE NotCalled
    /\ fpc \in {"Authenticate", "Call"} =>
         fid = Rid /\ fdecision = Cors /\ CorsPasses /\ input.authn # "unset"
    /\ fpc = "Call" => freq = Downstream /\ Reaches
    /\ fpc = "done" => fresp = Final

BoundaryInv == input \in Input /\ ChainInv /\ FusedInv
-------------------------------------------------------------------------------
(* Fields *)

\* Deleting the names that disappear and setting the ones that differ gives the
\* desired fields.
LEMMA DiffIsDesired ==
  ASSUME NEW N, NEW original, NEW desired,
         FieldsOf(N, original), FieldsOf(N, desired)
  PROVE  apply_header_diff(original, desired) = desired
  BY DEF apply_header_diff, FieldsOf

\* set_header leaves exactly one value.
LEMMA SetHeader ==
  ASSUME NEW N, NEW h, FieldsOf(N, h), NEW name \in N, NEW value
  PROVE  set_header(h, name, value) = [h EXCEPT ![name] = <<value>>]
  BY DEF set_header, remove_header, FieldsOf

\* Both implementations of the Vary merge compute the same.
LEMMA SameVary == \A values : merged_vary_origin(values) = merge_vary_origin(values)
  BY DEF merged_vary_origin, merge_vary_origin

\* The merge with no value of the terminal service.
LEMMA VaryOfNone == merge_vary_origin(<<>>) = <<"origin">>
<1>. DEFINE v == <<<<"origin">>>>
<1>1. Places(v) = {<<1, 1>>}
  BY DEF Places
<1>2. ~Before(<<1, 1>>, <<1, 1>>)
  BY DEF Before
<1>3. Firsts(v) = {<<1, 1>>}
  BY <1>1, <1>2 DEF Firsts
<1>4. Cardinality(Firsts(v)) = 1
  BY <1>3, FS_Singleton
<1>5. {q \in Firsts(v) : Before(q, <<1, 1>>)} = {}
  BY <1>2, <1>3
<1>6. Rank(Firsts(v), <<1, 1>>) = 0
  BY <1>5, FS_EmptySet DEF Rank
<1>7. (CHOOSE p \in Firsts(v) : Rank(Firsts(v), p) = 0) = <<1, 1>>
  BY <1>3, <1>6
<1>8. Distinct(v) = [k \in 1..1 |->
                       At(v, CHOOSE p \in Firsts(v) : Rank(Firsts(v), p) = k - 1)]
  BY <1>4 DEF Distinct
<1>9. Distinct(v) = <<"origin">>
  <2>1. \A k \in 1..1 : k - 1 = 0
    OBVIOUS
  <2>2. Distinct(v) = [k \in 1..1 |-> At(v, <<1, 1>>)]
    BY <1>7, <1>8, <2>1
  <2>3. At(v, <<1, 1>>) = "origin"
    BY DEF At
  <2>. QED
    BY <2>2, <2>3
<1>10. Append(<<>>, <<"origin">>) = v
  OBVIOUS
<1>. QED
  BY <1>9, <1>10 DEF merge_vary_origin
-------------------------------------------------------------------------------
(* The decision on a request *)

\* evaluate reads three fields.
LEMMA EvaluateReads ==
  ASSUME NEW cors, NEW method, NEW g, NEW h,
         \A n \in {"origin", "access-control-request-method", "access-control-request-headers"} :
            g[n] = h[n]
  PROVE  evaluate(cors, method, g) = evaluate(cors, method, h)
  BY DEF evaluate, Preflight

\* What it decides: header values for the CORS names, Vary on the origin or not at
\* all, and no pass for a preflight or for an origin that is not allowed.
LEMMA EvaluateDecides ==
  ASSUME NEW cors, NEW method, NEW h
  PROVE  LET d == evaluate(cors, method, h) IN
         /\ d = [status |-> d.status, headers |-> d.headers]
         /\ d.status \in {0, 204, 400, 403}
         /\ CorsFields(d.headers)
         /\ d.headers["vary"] \in {<<>>, <<<<"origin">>>>}
         /\ d # InvalidHeader /\ h["origin"] # <<>> => d.headers["vary"] = <<<<"origin">>>>
         /\ d.status = 0 /\ h["origin"] # <<>> =>
              /\ OriginAllowed(cors, h["origin"][1])
              /\ ~(method = "OPTIONS" /\ h["access-control-request-method"] # <<>>)
<1>. DEFINE d == evaluate(cors, method, h)
            origin == h["origin"][1]
            Good(e) == /\ e = [status |-> e.status, headers |-> e.headers]
                       /\ CorsFields(e.headers)
                       /\ e.headers["vary"] \in {<<>>, <<<<"origin">>>>}
<1>. USE DEF Decision
<1>. USE DEF CorsFields, FieldsOf, AtMostOne
<1>0. CorsFields(Only(CorsNames, <<>>)) /\ Only(CorsNames, <<>>)["vary"] = <<>>
  BY DEF Only, CorsNames
<1>1. Good(InvalidHeader) /\ InvalidHeader.status = 400
  BY <1>0 DEF InvalidHeader
<1>2. Good(pass_through) /\ pass_through.status = 0
  BY <1>0 DEF pass_through
<1>3. /\ Good(rejected_for_origin) /\ rejected_for_origin.status = 403
      /\ rejected_for_origin.headers["vary"] = <<<<"origin">>>>
  <2>. DEFINE f == [vary |-> <<<<"origin">>>>]
  <2>1. DOMAIN f = {"vary"} /\ f["vary"] = <<<<"origin">>>>
    OBVIOUS
  <2>2. CorsFields(Only(CorsNames, f))
    BY <2>1 DEF Only
  <2>3. Only(CorsNames, f)["vary"] = <<<<"origin">>>>
    BY <2>1 DEF Only, CorsNames
  <2>. QED
    BY <2>2, <2>3 DEF rejected_for_origin
<1>4. CASE NotSingleText(h["origin"])
  BY <1>1, <1>4 DEF evaluate
<1>5. CASE h["origin"] = <<>>
  <2>1. ~NotSingleText(h["origin"])
    BY <1>5 DEF NotSingleText
  <2>. QED
    BY <1>2, <1>5, <2>1 DEF evaluate
<1>6. CASE ~NotSingleText(h["origin"]) /\ h["origin"] # <<>>
  <2>2. CASE ~OriginAllowed(cors, origin)
    BY <1>3, <1>6, <2>2 DEF evaluate
  <2>. DEFINE allow == Only(CorsNames, AllowHeaders(cors, origin))
              preflight == Only(CorsNames, PreflightHeaders(cors))
  <2>3. /\ CorsFields(allow)
        /\ allow["vary"] = <<<<"origin">>>>
    <3>1. \A n \in DOMAIN AllowHeaders(cors, origin) : AtMostOne(AllowHeaders(cors, origin)[n])
      BY DEF AllowHeaders
    <3>2. "vary" \in DOMAIN AllowHeaders(cors, origin)
      BY DEF AllowHeaders
    <3>3. AllowHeaders(cors, origin)["vary"] = <<<<"origin">>>>
      BY DEF AllowHeaders
    <3>. QED
      BY <3>1, <3>2, <3>3 DEF Only, CorsNames
  <2>4. CASE OriginAllowed(cors, origin)
             /\ ~(method = "OPTIONS" /\ h["access-control-request-method"] # <<>>)
    BY <1>6, <2>3, <2>4 DEF evaluate
  <2>5. CASE /\ OriginAllowed(cors, origin)
             /\ method = "OPTIONS" /\ h["access-control-request-method"] # <<>>
    <3>. DEFINE both == [n \in CorsNames |-> allow[n] \o preflight[n]]
    <3>1. /\ CorsFields(preflight)
          /\ preflight["vary"] = <<>>
      <4>1. \A n \in DOMAIN PreflightHeaders(cors) : AtMostOne(PreflightHeaders(cors)[n])
        BY DEF PreflightHeaders
      <4>2. "vary" \notin DOMAIN PreflightHeaders(cors)
        BY DEF PreflightHeaders
      <4>. QED
        BY <4>1, <4>2 DEF Only, CorsNames
    <3>2. CorsFields(both) /\ both["vary"] = <<<<"origin">>>>
      <4>1. \A n \in CorsNames : allow[n] = <<>> \/ preflight[n] = <<>>
        BY DEF Only, AllowHeaders, PreflightHeaders
      <4>2. \A v : <<v>> \o <<>> = <<v>> /\ <<>> \o <<v>> = <<v>>
        OBVIOUS
      <4>3. <<>> \o <<>> = <<>>
        OBVIOUS
      <4>. HIDE DEF allow, preflight
      <4>4. \A n \in CorsNames : AtMostOne(allow[n] \o preflight[n])
        BY <2>3, <3>1, <4>1, <4>2, <4>3
      <4>5. both["vary"] = allow["vary"] \o preflight["vary"]
        BY DEF CorsNames
      <4>6. both["vary"] = <<<<"origin">>>>
        BY <2>3, <3>1, <4>2, <4>5
      <4>. QED
        BY <4>4, <4>6
    <3>3. d = Preflight(cors, origin, h)
      BY <1>6, <2>5 DEF evaluate
    <3>4. d \in {InvalidHeader, rejected_for_origin, [status |-> 204, headers |-> both]}
      BY <3>3 DEF Preflight
    <3>5. CASE d = InvalidHeader
      BY <1>1, <3>5
    <3>6. CASE d = rejected_for_origin
      BY <1>3, <3>6
    <3>7. CASE d = [status |-> 204, headers |-> both]
      <4>1. d.status = 204 /\ d.headers = both
        BY <3>7
      <4>2. d.status # 0 /\ d = [status |-> d.status, headers |-> d.headers]
        BY <3>7, <4>1
      <4>3. 204 \in {0, 204, 400, 403}
        OBVIOUS
      <4>. HIDE DEF both
      <4>. QED
        BY <3>2, <4>1, <4>2, <4>3
    <3>. QED
      BY <3>4, <3>5, <3>6, <3>7
  <2>. QED
    BY <2>2, <2>4, <2>5
<1>. QED
  BY <1>4, <1>5, <1>6

\* The decision on the case at hand, as every deployment sees it: the request
\* identifier is not read, and policy_headers keeps what is.
LEMMA CorsDecides ==
  /\ evaluate(input.cors, input.method, Tagged) = Cors
  /\ evaluate(input.cors, input.method, policy_headers(input.fields)) = Cors
  /\ Cors = [status |-> Cors.status, headers |-> Cors.headers]
  /\ CorsFields(Cors.headers)
  /\ Cors.headers["vary"] \in {<<>>, <<<<"origin">>>>}
<1>. DEFINE Read == {"origin", "access-control-request-method", "access-control-request-headers"}
<1>1. \A n \in Read : Tagged[n] = input.fields[n]
  BY DEF Tagged
<1>2. \A n \in Read : policy_headers(input.fields)[n] = input.fields[n]
  BY DEF policy_headers, RequestNames
<1>. QED
  BY <1>1, <1>2, EvaluateReads, EvaluateDecides DEF Cors

\* So is the authentication.
LEMMA SameOutcome ==
  /\ authenticate(Tagged, input.authn, input.broker) = Outcome
  /\ authenticate(policy_headers(input.fields), input.authn, input.broker) = Outcome
<1>1. Tagged["authorization"] = input.fields["authorization"]
  BY DEF Tagged
<1>2. policy_headers(input.fields)["authorization"] = input.fields["authorization"]
  BY DEF policy_headers, RequestNames
<1>. QED
  BY <1>1, <1>2 DEF authenticate, Outcome

\* The tagged request keeps its identifier when it is made canonical again.
LEMMA RidStable ==
  ASSUME FieldsOf(RequestNames, input.fields)
  PROVE  canonical_request_id(Tagged) = Rid
<1>1. Tagged["x-request-id"] = <<Rid>>
  BY DEF Tagged, FieldsOf, RequestNames
<1>2. Rid \notin {InvalidId, NotText}
  BY DEF Rid, canonical_request_id, InvalidId, NotText, GeneratedId
<1>3. Len(<<Rid>>) = 1 /\ <<Rid>>[1] = Rid
  OBVIOUS
<1>. HIDE DEF Rid
<1>. QED
  BY <1>1, <1>2, <1>3 DEF canonical_request_id

\* What a component answers by itself.
LEMMA EmptyResponse ==
  ASSUME NEW status, NEW f
  PROVE  LET r == empty_response(status, f) IN
         /\ WellFormed(r)
         /\ r.status = status
         /\ \A n \in ResponseNames :
              r.fields[n] = IF n = "content-length" THEN <<<<"0">>>>
                            ELSE IF n \in DOMAIN f THEN f[n] ELSE <<>>
<1>. DEFINE o == Only(ResponseNames, f)
            w == [o EXCEPT !["content-length"] = <<<<"0">>>>]
<1>1. FieldsOf(ResponseNames, o)
  BY DEF Only, FieldsOf
<1>2. set_header(o, "content-length", <<"0">>) = w
  BY <1>1, SetHeader DEF ResponseNames
<1>3. empty_response(status, f) = [status |-> status, fields |-> w]
  BY <1>2 DEF empty_response
<1>4. FieldsOf(ResponseNames, w)
  BY <1>1 DEF FieldsOf
<1>5. \A n \in ResponseNames :
        w[n] = IF n = "content-length" THEN <<<<"0">>>>
               ELSE IF n \in DOMAIN f THEN f[n] ELSE <<>>
  BY DEF Only
<1>. HIDE DEF w
<1>. QED
  BY <1>3, <1>4, <1>5 DEF WellFormed

\* The single edit of secure-defaults does what the three outward halves of the
\* chain do one after the other.
LEMMA FinalizeFinishes ==
  ASSUME NEW r, WellFormed(r), NEW d, CorsFields(d)
  PROVE  finalize_response(r, d, Rid) = Finished(r, d)
<1>. DEFINE cors == cors_replacements(r.fields, d)
            fixed == [n \in {"x-content-type-options", "referrer-policy", "x-request-id"} |->
                        CASE n = "x-content-type-options" -> <<<<"nosniff">>>>
                          [] n = "referrer-policy" -> <<<<"strict-origin-when-cross-origin">>>>
                          [] OTHER -> <<Rid>>]
            both == [n \in DOMAIN fixed \cup DOMAIN cors |->
                       IF n \in DOMAIN fixed THEN fixed[n] ELSE cors[n]]
            edited == apply_header_edits(r.fields, Reserved, both)
<1>1. finalize_response(r, d, Rid) = [r EXCEPT !.fields = edited]
  BY DEF finalize_response
<1>2. finalize_response(r, d, Rid) = [status |-> r.status, fields |-> edited]
  <2>. HIDE DEF edited
  <2>. QED
    BY <1>1 DEF WellFormed
<1>3. DOMAIN r.fields = ResponseNames
  BY DEF WellFormed, FieldsOf
<1>4. edited = [n \in ResponseNames |->
                  IF n \in DOMAIN both THEN <<>> \o both[n]
                  ELSE IF n \in Reserved THEN <<>> ELSE r.fields[n]]
  <2>. HIDE DEF both
  <2>. QED
    BY <1>3 DEF apply_header_edits
<1>5. ASSUME NEW n \in ResponseNames
      PROVE  edited[n] = Marked(Merged(r.fields, d))[n]
  <2>1. \A v : <<>> \o <<v>> = <<v>>
    OBVIOUS
  <2>2. CASE n \in DOMAIN fixed
    <3>1. edited[n] = <<>> \o fixed[n]
      BY <1>4, <2>2
    <3>2. fixed[n] = Marked(Merged(r.fields, d))[n]
      BY <2>2 DEF Marked, ResponseNames
    <3>3. \E v : fixed[n] = <<v>>
      BY <2>2
    <3>. QED
      BY <2>1, <3>1, <3>2, <3>3
  <2>3. CASE n \notin DOMAIN fixed /\ n \in DOMAIN cors
    <3>1. n \in CorsNames /\ d[n] # <<>>
      BY <2>3 DEF cors_replacements
    <3>2. edited[n] = <<>> \o cors[n]
      BY <1>4, <2>3
    <3>3. cors[n] = Merged(r.fields, d)[n]
      BY <1>3, <3>1, SameVary DEF cors_replacements, Merged
    <3>4. n \notin Reserved
      BY <3>1 DEF CorsNames, Reserved
    <3>5. Marked(Merged(r.fields, d))[n] = Merged(r.fields, d)[n]
      BY <2>3, <3>4 DEF Marked
    <3>6. \E v : cors[n] = <<v>>
      BY <3>1 DEF cors_replacements, CorsFields, AtMostOne
    <3>. QED
      BY <2>1, <3>2, <3>3, <3>5, <3>6
  <2>4. CASE n \notin DOMAIN fixed /\ n \notin DOMAIN cors
    <3>1. n \notin CorsNames \/ d[n] = <<>>
      BY <2>4 DEF cors_replacements
    <3>2. Merged(r.fields, d)[n] = r.fields[n]
      BY <1>3, <3>1 DEF Merged
    <3>3. edited[n] = IF n \in Reserved THEN <<>> ELSE r.fields[n]
      BY <1>4, <2>4
    <3>. QED
      BY <2>4, <3>2, <3>3 DEF Marked
  <2>. QED
    BY <2>2, <2>3, <2>4
<1>6. edited = Marked(Merged(r.fields, d))
  <2>1. FieldsOf(ResponseNames, edited)
    BY <1>4 DEF FieldsOf
  <2>2. FieldsOf(ResponseNames, Marked(Merged(r.fields, d)))
    BY DEF Marked, FieldsOf
  <2>. HIDE DEF edited
  <2>. QED
    BY <1>5, <2>1, <2>2 DEF FieldsOf
<1>. QED
  BY <1>2, <1>6 DEF Finished

\* The case at hand is well formed.
LEMMA CaseTypes ==
  ASSUME input \in Input
  PROVE  FieldsOf(RequestNames, input.fields) /\ WellFormed(input.terminal)
  BY InputAssumption DEF FieldsOf, WellFormed

\* Without a CORS decision nothing is merged.
LEMMA NothingMerged ==
  ASSUME NEW r, WellFormed(r)
  PROVE  /\ CorsFields(pass_through.headers)
         /\ Merged(r.fields, pass_through.headers) = r.fields
<1>1. pass_through.headers = [n \in CorsNames |-> <<>>]
  BY DEF pass_through, Decision, Only
<1>. QED
  BY <1>1 DEF CorsFields, FieldsOf, AtMostOne, Merged, WellFormed

\* Merging keeps the names, and the fields that are not of CORS.
LEMMA MergedKeeps ==
  ASSUME NEW h, FieldsOf(ResponseNames, h), NEW d
  PROVE  /\ FieldsOf(ResponseNames, Merged(h, d))
         /\ \A n \in ResponseNames \ CorsNames : Merged(h, d)[n] = h[n]
  BY DEF Merged, FieldsOf

\* Two responses that agree outside of what is overwritten finish the same.
LEMMA SameFinish ==
  ASSUME NEW q, NEW r, NEW d, WellFormed(q), WellFormed(r), q.status = r.status,
         \A n \in ResponseNames \ (Reserved \cup {"x-request-id"}) : q.fields[n] = r.fields[n]
  PROVE  Finished(q, d) = Finished(r, d)
<1>1. Merged(q.fields, d) = [n \in ResponseNames |-> Merged(q.fields, d)[n]]
  BY MergedKeeps DEF WellFormed, FieldsOf
<1>2. \A n \in ResponseNames \ (Reserved \cup {"x-request-id"}) :
         Merged(q.fields, d)[n] = Merged(r.fields, d)[n]
  <2>1. "vary" \in ResponseNames \ (Reserved \cup {"x-request-id"})
    BY DEF ResponseNames, CorsNames, Reserved
  <2>2. DOMAIN q.fields = ResponseNames /\ DOMAIN r.fields = ResponseNames
    BY DEF WellFormed, FieldsOf
  <2>. QED
    BY <2>1, <2>2 DEF Merged
<1>3. Marked(Merged(q.fields, d)) = Marked(Merged(r.fields, d))
  BY <1>2 DEF Marked
<1>. QED
  BY <1>3 DEF Finished

\* What is said of the case stays true while the case stays the same.
LEMMA SameCase ==
  ASSUME input' = input
  PROVE  /\ Rid' = Rid /\ Tagged' = Tagged /\ Cors' = Cors /\ Downstream' = Downstream
         /\ CorsPasses' = CorsPasses /\ Reaches' = Reaches /\ Inner' = Inner
         /\ Final' = Final /\ FinalSeen' = FinalSeen
<1>1. Rid' = Rid /\ Cors' = Cors /\ Outcome' = Outcome
  BY DEF Rid, Cors, Outcome
<1>2. CorsRuns' = CorsRuns /\ CorsPasses' = CorsPasses /\ Reaches' = Reaches
  BY <1>1 DEF CorsRuns, CorsPasses, Reaches
<1>3. Tagged' = Tagged /\ Downstream' = Downstream
  BY <1>1 DEF Tagged, Downstream
<1>4. Inner' = Inner /\ CorsHeaders' = CorsHeaders
  BY <1>1, <1>2 DEF Inner, CorsHeaders
<1>5. Final' = Final /\ FinalSeen' = FinalSeen
  BY <1>1, <1>2, <1>3, <1>4 DEF Final, FinalSeen, Finished, Marked
<1>. QED
  BY <1>1, <1>2, <1>3, <1>4, <1>5
-------------------------------------------------------------------------------
(* The chain *)

\* The inward half of request-id tags the request.
LEMMA RequestIdInStep ==
  ASSUME BoundaryInv, RequestIdIn
  PROVE  ChainInv'
<1>1. pc = "RequestIdIn" /\ pc' = "CorsIn" /\ req = input.fields
  BY DEF BoundaryInv, ChainInv, RequestIdIn
<1>2. FieldsOf(RequestNames, input.fields)
  BY CaseTypes DEF BoundaryInv
<1>3. id' = Rid
  BY <1>1 DEF RequestIdIn, Rid
<1>4. set_header(req, "x-request-id", id') = Tagged
  BY <1>1, <1>2, <1>3, SetHeader DEF Tagged, RequestNames
<1>5. FieldsOf(RequestNames, Tagged)
  BY <1>2 DEF Tagged, FieldsOf
<1>6. req' = Tagged
  BY <1>1, <1>2, <1>4, <1>5, DiffIsDesired DEF RequestIdIn
<1>7. seen' = NotCalled
  BY <1>1 DEF RequestIdIn, BoundaryInv, ChainInv, Unreached
<1>8. Tagged' = Tagged /\ Rid' = Rid
  BY DEF RequestIdIn, Tagged, Rid
<1>. QED
  BY <1>1, <1>3, <1>6, <1>7, <1>8 DEF ChainInv, Unreached, Decided

\* What cors answers by itself becomes Final once it is marked.
LEMMA CorsAnswer ==
  ASSUME NEW r, Stripped(r), r.status = Inner.status, ~Reaches,
         \A n \in ResponseNames : r.fields[n] = Merged(Inner.fields, CorsHeaders)[n]
  PROVE  [status |-> r.status, fields |-> Marked(r.fields)] = Final
<1>1. Marked(r.fields) = Marked(Merged(Inner.fields, CorsHeaders))
  BY DEF Marked
<1>. QED
  BY <1>1 DEF Final, Finished

\* The inward half of cors lets the request pass with the decision, or answers.
LEMMA CorsInStep ==
  ASSUME BoundaryInv, CorsIn
  PROVE  ChainInv'
<1>1. /\ pc = "CorsIn" /\ req = Tagged /\ id = Rid /\ seen = NotCalled
      /\ input' = input /\ id' = id /\ req' = req /\ seen' = seen
  BY DEF BoundaryInv, ChainInv, CorsIn, Answer, Unreached
<1>2. /\ Rid' = Rid /\ Tagged' = Tagged /\ Cors' = Cors
      /\ CorsPasses' = CorsPasses /\ Final' = Final /\ FinalSeen' = FinalSeen
  BY <1>1, SameCase
<1>. DEFINE d == evaluate(input.cors, input.method, req)
<1>3. d = Cors
  BY <1>1, CorsDecides
<1>4. ASSUME NEW r, Stripped(r), ~Reaches, Answer(r, "SecurityOut"),
             [status |-> r.status, fields |-> Marked(r.fields)] = Final
      PROVE  ChainInv'
  <2>1. resp' = r /\ pc' = "SecurityOut"
    BY <1>4 DEF Answer
  <2>2. Marked(resp.fields)' = Marked(r.fields)
    BY <1>2, <2>1 DEF Marked
  <2>3. Stripped(resp)'
    BY <1>4, <2>1 DEF Stripped, WellFormed, FieldsOf
  <2>4. FinalSeen' = NotCalled
    BY <1>2, <1>4 DEF FinalSeen
  <2>. QED
    BY <1>1, <1>2, <1>4, <2>1, <2>2, <2>3, <2>4 DEF ChainInv, Unreached, Decided
<1>5. CASE ~input.cors.valid
  <2>. DEFINE r == empty_response(503, RetryAfter)
  <2>1. Answer(r, "SecurityOut")
    BY <1>5 DEF CorsIn, RetryAfter
  <2>2. Inner = r /\ CorsHeaders = pass_through.headers /\ ~Reaches
    BY <1>5 DEF Inner, CorsHeaders, CorsRuns, Reaches, CorsPasses
  <2>3. Stripped(r)
    BY EmptyResponse DEF Stripped, Reserved, ResponseNames, RetryAfter
  <2>4. Merged(r.fields, pass_through.headers) = r.fields
    BY <2>3, NothingMerged DEF Stripped
  <2>. HIDE DEF r
  <2>5. [status |-> r.status, fields |-> Marked(r.fields)] = Final
    BY <2>2, <2>3, <2>4, CorsAnswer
  <2>. QED
    BY <1>4, <2>1, <2>2, <2>3, <2>5
<1>6. CASE input.cors.valid /\ input.method = BadToken
  <2>. DEFINE r == empty_response(400, <<>>)
  <2>1. Answer(r, "SecurityOut")
    BY <1>6 DEF CorsIn
  <2>2. Inner = r /\ CorsHeaders = pass_through.headers /\ ~Reaches
    BY <1>6 DEF Inner, CorsHeaders, CorsRuns, Reaches, CorsPasses
  <2>3. Stripped(r)
    BY EmptyResponse DEF Stripped, Reserved, ResponseNames
  <2>4. Merged(r.fields, pass_through.headers) = r.fields
    BY <2>3, NothingMerged DEF Stripped
  <2>. HIDE DEF r
  <2>5. [status |-> r.status, fields |-> Marked(r.fields)] = Final
    BY <2>2, <2>3, <2>4, CorsAnswer
  <2>. QED
    BY <1>4, <2>1, <2>2, <2>3, <2>5
<1>7. CASE CorsRuns /\ Cors.status # 0
  <2>. DEFINE r == empty_response(Cors.status, Cors.headers)
              e == empty_response(Cors.status, <<>>)
  <2>1. Answer(r, "SecurityOut")
    BY <1>3, <1>7 DEF CorsIn, CorsRuns
  <2>2. Inner = e /\ CorsHeaders = Cors.headers /\ ~Reaches
    BY <1>7 DEF Inner, CorsHeaders, CorsRuns, Reaches, CorsPasses
  <2>3. DOMAIN Cors.headers = CorsNames
    BY CorsDecides DEF CorsFields, FieldsOf
  <2>4. Stripped(r) /\ WellFormed(e)
    BY <2>3, EmptyResponse DEF Stripped, Reserved, ResponseNames, CorsNames
  <2>5. ASSUME NEW n \in ResponseNames
        PROVE  r.fields[n] = Merged(e.fields, Cors.headers)[n]
    <3>1. /\ r.fields[n] = IF n = "content-length" THEN <<<<"0">>>>
                           ELSE IF n \in CorsNames THEN Cors.headers[n] ELSE <<>>
          /\ e.fields[n] = IF n = "content-length" THEN <<<<"0">>>> ELSE <<>>
          /\ e.fields["vary"] = <<>>
      <4>1. DOMAIN <<>> = {}
        OBVIOUS
      <4>. QED
        BY <2>3, <4>1, EmptyResponse DEF ResponseNames, CorsNames
    <3>2. Merged(e.fields, Cors.headers)[n] =
            IF n \notin CorsNames \/ Cors.headers[n] = <<>> THEN e.fields[n]
            ELSE IF n = "vary" THEN <<merge_vary_origin(e.fields["vary"])>>
            ELSE Cors.headers[n]
      <4>1. DOMAIN e.fields = ResponseNames
        BY <2>4 DEF WellFormed, FieldsOf
      <4>. HIDE DEF e
      <4>. QED
        BY <4>1 DEF Merged
    <3>3. "content-length" \notin CorsNames
      BY DEF CorsNames
    <3>. HIDE DEF e, r
    <3>. QED
      BY <3>1, <3>2, <3>3, VaryOfNone, CorsDecides
  <2>6. r.status = e.status
    BY EmptyResponse
  <2>. HIDE DEF r, e
  <2>7. [status |-> r.status, fields |-> Marked(r.fields)] = Final
    BY <2>2, <2>4, <2>5, <2>6, CorsAnswer
  <2>. QED
    BY <1>4, <2>1, <2>2, <2>4, <2>7
<1>8. CASE CorsPasses
  <2>1. pc' = "AuthnIn" /\ decision' = Cors
    BY <1>3, <1>8 DEF CorsIn, CorsPasses, CorsRuns
  <2>. QED
    BY <1>1, <1>2, <1>8, <2>1 DEF ChainInv, Unreached, Decided
<1>. QED
  BY <1>5, <1>6, <1>7, <1>8 DEF CorsPasses, CorsRuns

\* The request that authn-policy forwards.
LEMMA ForwardedIsDownstream ==
  ASSUME input \in Input
  PROVE  Forwarded(Tagged, Outcome, Rid) = Downstream
<1>1. FieldsOf(RequestNames, Tagged)
  BY CaseTypes DEF Tagged, FieldsOf
<1>. DEFINE bare == remove_reserved(remove_header(Tagged, "authorization"))
            with == set_header(bare, "x-wasi-auth-context", Context(Outcome))
            both == set_header(with, "x-request-id", Rid)
<1>2. bare = [n \in RequestNames |->
                IF n \in Reserved \cup {"authorization"} THEN <<>> ELSE Tagged[n]]
  BY <1>1 DEF remove_reserved, remove_header, FieldsOf
<1>3. FieldsOf(RequestNames, bare)
  BY <1>2 DEF FieldsOf
<1>. HIDE DEF bare
<1>4. with = [bare EXCEPT !["x-wasi-auth-context"] = <<Context(Outcome)>>]
  BY <1>3, SetHeader DEF RequestNames, Reserved
<1>5. FieldsOf(RequestNames, with)
  BY <1>3, <1>4 DEF FieldsOf
<1>. HIDE DEF with
<1>6. both = [with EXCEPT !["x-request-id"] = <<Rid>>]
  BY <1>5, SetHeader DEF RequestNames
<1>7. FieldsOf(RequestNames, both)
  BY <1>5, <1>6 DEF FieldsOf
<1>. HIDE DEF both
<1>8. ASSUME NEW n \in RequestNames
      PROVE  both[n] = Downstream[n]
  <2>1. Tagged[n] = IF n = "x-request-id" THEN <<Rid>> ELSE input.fields[n]
    BY CaseTypes DEF Tagged, FieldsOf
  <2>2. both[n] = IF n = "x-request-id" THEN <<Rid>>
                  ELSE IF n = "x-wasi-auth-context" THEN <<Context(Outcome)>>
                  ELSE IF n \in Reserved \cup {"authorization"} THEN <<>> ELSE Tagged[n]
    BY <1>2, <1>3, <1>4, <1>5, <1>6 DEF FieldsOf
  <2>. QED
    BY <2>1, <2>2 DEF Downstream, Reserved
<1>9. both = Downstream
  BY <1>7, <1>8 DEF FieldsOf, Downstream
<1>10. Forwarded(Tagged, Outcome, Rid) = apply_header_diff(Tagged, both)
  BY DEF Forwarded, both, with, bare
<1>. QED
  BY <1>1, <1>7, <1>9, <1>10, DiffIsDesired

\* What authn-policy answers by itself.
LEMMA AuthnAnswers ==
  ASSUME NEW status, NEW f, DOMAIN f \in {{"retry-after"}, {"www-authenticate"}}
  PROVE  LET r == AuthnAnswer(status, f, Rid)
             e == empty_response(status, f)
         IN  Stripped(r) /\ WellFormed(e) /\ Finished(r, Cors.headers) = Finished(e, Cors.headers)
<1>. DEFINE e == empty_response(status, f)
            r == AuthnAnswer(status, f, Rid)
            w == [e.fields EXCEPT !["x-request-id"] = <<Rid>>]
<1>1. /\ WellFormed(e) /\ e.status = status
      /\ \A n \in Reserved : e.fields[n] = <<>>
  BY EmptyResponse DEF Reserved, ResponseNames
<1>. HIDE DEF e
<1>2. set_header(e.fields, "x-request-id", Rid) = w
  BY <1>1, SetHeader DEF WellFormed, ResponseNames
<1>3. r = [e EXCEPT !.fields = w]
  BY <1>2 DEF AuthnAnswer, e
<1>4. r = [status |-> e.status, fields |-> w]
  BY <1>1, <1>3 DEF WellFormed
<1>5. FieldsOf(ResponseNames, w)
  BY <1>1 DEF WellFormed, FieldsOf
<1>6. \A n \in ResponseNames \ {"x-request-id"} : w[n] = e.fields[n]
  BY <1>1 DEF WellFormed, FieldsOf
<1>. HIDE DEF w
<1>7. Stripped(r)
  BY <1>1, <1>4, <1>5, <1>6 DEF Stripped, WellFormed, Reserved, ResponseNames
<1>8. Finished(r, Cors.headers) = Finished(e, Cors.headers)
  <2>1. r.status = e.status /\ r.fields = w
    BY <1>4
  <2>. HIDE DEF r
  <2>. QED
    BY <1>1, <1>6, <1>7, <2>1, SameFinish DEF Stripped
<1>. QED
  BY <1>1, <1>7, <1>8 DEF e

\* The inward half of authn-policy forwards the request, or answers.
LEMMA AuthnInStep ==
  ASSUME BoundaryInv, AuthnIn
  PROVE  ChainInv'
<1>1. /\ pc = "AuthnIn" /\ req = Tagged /\ id = Rid /\ seen = NotCalled
      /\ decision = Cors /\ CorsPasses /\ input \in Input
      /\ input' = input /\ id' = id /\ seen' = seen /\ decision' = decision
  BY DEF BoundaryInv, ChainInv, AuthnIn, Answer, Unreached, Decided
<1>2. /\ Rid' = Rid /\ Cors' = Cors /\ CorsPasses' = CorsPasses /\ Reaches' = Reaches
      /\ Downstream' = Downstream /\ Inner' = Inner /\ FinalSeen' = FinalSeen
  BY <1>1, SameCase
<1>3. canonical_request_id(req) = Rid /\ authenticate(req, input.authn, input.broker) = Outcome
  BY <1>1, CaseTypes, RidStable, SameOutcome
<1>4. ASSUME NEW r, Stripped(r), ~Reaches, Answer(r, "CorsOut"),
             Finished(r, Cors.headers) = Finished(Inner, Cors.headers)
      PROVE  ChainInv'
  <2>1. resp' = r /\ pc' = "CorsOut"
    BY <1>4 DEF Answer
  <2>2. Finished(resp, Cors.headers)' = Finished(r, Cors.headers)
    BY <1>2, <2>1 DEF Finished, Marked
  <2>3. Finished(Inner, Cors.headers)' = Finished(Inner, Cors.headers)
    BY <1>2 DEF Finished, Marked
  <2>4. Stripped(resp)'
    BY <1>4, <2>1 DEF Stripped, WellFormed, FieldsOf
  <2>5. FinalSeen' = NotCalled
    BY <1>2, <1>4 DEF FinalSeen
  <2>. QED
    BY <1>1, <1>2, <1>4, <2>1, <2>2, <2>3, <2>4, <2>5 DEF ChainInv, Unreached, Decided
<1>5. CASE input.authn = "unset"
  <2>1. Answer(AuthnAnswer(503, RetryAfter, Rid), "CorsOut")
    BY <1>3, <1>5 DEF AuthnIn, RetryAfter
  <2>2. Inner = empty_response(503, RetryAfter) /\ ~Reaches
    BY <1>1, <1>5 DEF Inner, CorsRuns, CorsPasses, Reaches
  <2>3. DOMAIN RetryAfter = {"retry-after"}
    BY DEF RetryAfter
  <2>. QED
    BY <1>4, <2>1, <2>2, <2>3, AuthnAnswers
<1>6. CASE input.authn # "unset" /\ ~Passes(Outcome)
  <2>. DEFINE status == RejectionStatus(Outcome)
              f == RejectionFields(Outcome)
  <2>1. Answer(AuthnAnswer(status, f, Rid), "CorsOut")
    BY <1>3, <1>6 DEF AuthnIn
  <2>2. Inner = empty_response(status, f) /\ ~Reaches
    BY <1>1, <1>6 DEF Inner, CorsRuns, CorsPasses, Reaches
  <2>3. DOMAIN f \in {{"retry-after"}, {"www-authenticate"}}
    BY DEF RejectionFields
  <2>. HIDE DEF f, status
  <2>. QED
    BY <1>4, <2>1, <2>2, <2>3, AuthnAnswers
<1>7. CASE input.authn # "unset" /\ Passes(Outcome)
  <2>1. pc' = "Terminal" /\ req' = Forwarded(Tagged, Outcome, Rid)
    BY <1>1, <1>3, <1>7 DEF AuthnIn
  <2>2. req' = Downstream
    BY <1>1, <2>1, ForwardedIsDownstream
  <2>3. Reaches
    BY <1>1, <1>7 DEF Reaches
  <2>. QED
    BY <1>1, <1>2, <2>1, <2>2, <2>3 DEF ChainInv, Unreached, Decided
<1>. QED
  BY <1>5, <1>6, <1>7

\* The terminal service is called with the request handed downstream.
LEMMA TerminalStep ==
  ASSUME BoundaryInv, Terminal
  PROVE  ChainInv'
<1>1. /\ pc = "Terminal" /\ req = Downstream /\ id = Rid /\ decision = Cors
      /\ CorsPasses /\ Reaches
      /\ input' = input /\ id' = id /\ decision' = decision
      /\ seen' = req /\ resp' = input.terminal
  BY DEF BoundaryInv, ChainInv, Terminal, Decided
<1>2. /\ Rid' = Rid /\ Cors' = Cors /\ CorsPasses' = CorsPasses /\ Reaches' = Reaches
      /\ Final' = Final /\ FinalSeen' = FinalSeen
  BY <1>1, SameCase
<1>3. seen' = FinalSeen
  BY <1>1 DEF FinalSeen
<1>4. CASE input.terminal = HostError
  <2>1. pc' = "done" /\ Final = HostError
    BY <1>1, <1>4 DEF Terminal, Final
  <2>. QED
    BY <1>1, <1>2, <1>3, <1>4, <2>1 DEF ChainInv, Unreached, Decided
<1>5. CASE input.terminal # HostError
  <2>1. pc' = "AuthnOut"
    BY <1>5 DEF Terminal
  <2>. QED
    BY <1>1, <1>2, <1>3, <1>5, <2>1 DEF ChainInv, Unreached, Decided
<1>. QED
  BY <1>4, <1>5

\* An outward half leaves the fields it desires.
LEMMA RewriteDesired ==
  ASSUME NEW from, NEW desired, NEW next, Rewrite(from, desired, next),
         WellFormed(resp), FieldsOf(ResponseNames, desired)
  PROVE  /\ pc = from /\ pc' = next
         /\ resp' = [status |-> resp.status, fields |-> desired]
         /\ WellFormed(resp)'
         /\ input' = input /\ id' = id /\ decision' = decision /\ seen' = seen
<1>1. apply_header_diff(resp.fields, desired) = desired
  BY DiffIsDesired DEF WellFormed
<1>2. resp' = [resp EXCEPT !.fields = desired]
  BY <1>1 DEF Rewrite
<1>3. resp' = [status |-> resp.status, fields |-> desired]
  BY <1>2 DEF WellFormed
<1>. QED
  BY <1>3 DEF Rewrite, WellFormed, FieldsOf

\* The outward half of authn-policy drops the reserved headers.
LEMMA AuthnOutStep ==
  ASSUME BoundaryInv, AuthnOut
  PROVE  ChainInv'
<1>. DEFINE desired == remove_reserved(resp.fields)
<1>1. /\ pc = "AuthnOut" /\ id = Rid /\ decision = Cors /\ CorsPasses /\ Reaches
      /\ seen = FinalSeen /\ resp = input.terminal /\ resp # HostError
  BY DEF BoundaryInv, ChainInv, AuthnOut, Rewrite, Unreached, Decided
<1>2. WellFormed(resp)
  BY <1>1, CaseTypes DEF BoundaryInv
<1>3. /\ FieldsOf(ResponseNames, desired)
      /\ \A n \in Reserved : desired[n] = <<>>
      /\ \A n \in ResponseNames \ Reserved : desired[n] = resp.fields[n]
  BY <1>2 DEF remove_reserved, WellFormed, FieldsOf, ResponseNames
<1>4. /\ pc' = "CorsOut" /\ resp' = [status |-> resp.status, fields |-> desired]
      /\ input' = input /\ id' = id /\ decision' = decision /\ seen' = seen
  BY <1>2, <1>3, RewriteDesired DEF AuthnOut
<1>. HIDE DEF desired
<1>5. Stripped(resp)'
  BY <1>3, <1>4 DEF Stripped, WellFormed, FieldsOf
<1>6. /\ Rid' = Rid /\ Cors' = Cors /\ CorsPasses' = CorsPasses /\ Reaches' = Reaches
      /\ Inner' = Inner /\ FinalSeen' = FinalSeen
  BY <1>4, SameCase
<1>7. Inner = resp
  BY <1>1 DEF Inner, Reaches, CorsPasses, CorsRuns
<1>8. Finished(resp', Cors.headers) = Finished(resp, Cors.headers)
  <2>1. resp'.status = resp.status /\ resp'.fields = desired
    BY <1>4
  <2>2. WellFormed(resp')
    BY <1>5 DEF Stripped, WellFormed, FieldsOf
  <2>. QED
    BY <1>2, <1>3, <2>1, <2>2, SameFinish
<1>9. (Finished(resp, Cors.headers) = Finished(Inner, Cors.headers))'
  BY <1>6, <1>7, <1>8 DEF Finished, Marked
<1>. QED
  BY <1>1, <1>4, <1>5, <1>6, <1>9 DEF ChainInv, Unreached, Decided

\* The outward half of cors merges its headers.
LEMMA CorsOutStep ==
  ASSUME BoundaryInv, CorsOut
  PROVE  ChainInv'
<1>. DEFINE desired == Merged(resp.fields, decision.headers)
<1>1. /\ pc = "CorsOut" /\ id = Rid /\ decision = Cors /\ CorsPasses
      /\ seen = FinalSeen /\ Stripped(resp)
      /\ ~(Reaches /\ input.terminal = HostError)
      /\ Finished(resp, Cors.headers) = Finished(Inner, Cors.headers)
  BY DEF BoundaryInv, ChainInv, CorsOut, Rewrite, Unreached, Decided
<1>2. /\ FieldsOf(ResponseNames, desired)
      /\ \A n \in ResponseNames \ CorsNames : desired[n] = resp.fields[n]
  BY <1>1, MergedKeeps DEF Stripped, WellFormed
<1>3. /\ pc' = "SecurityOut" /\ resp' = [status |-> resp.status, fields |-> desired]
      /\ input' = input /\ id' = id /\ decision' = decision /\ seen' = seen
  BY <1>1, <1>2, RewriteDesired DEF CorsOut, Stripped
<1>4. [status |-> resp.status, fields |-> Marked(desired)] = Final
  <2>1. CorsHeaders = Cors.headers
    BY <1>1 DEF CorsHeaders, CorsPasses
  <2>. QED
    BY <1>1, <2>1 DEF Final, Finished
<1>. HIDE DEF desired
<1>5. Stripped(resp)'
  <2>1. \A n \in Reserved : n \in ResponseNames \ CorsNames
    BY DEF Reserved, ResponseNames, CorsNames
  <2>. QED
    BY <1>1, <1>2, <1>3, <2>1 DEF Stripped, WellFormed, FieldsOf
<1>6. Rid' = Rid /\ Final' = Final /\ FinalSeen' = FinalSeen
  BY <1>3, SameCase
<1>7. resp'.status = resp.status /\ resp'.fields = desired
  BY <1>3
<1>8. ([status |-> resp.status, fields |-> Marked(resp.fields)] = Final)'
  BY <1>4, <1>6, <1>7 DEF Marked
<1>. QED
  BY <1>1, <1>3, <1>5, <1>6, <1>8 DEF ChainInv, Unreached, Decided

\* The outward half of security-headers sets its two headers.
LEMMA SecurityOutStep ==
  ASSUME BoundaryInv, SecurityOut
  PROVE  ChainInv'
<1>. DEFINE first == set_header(resp.fields, "x-content-type-options", <<"nosniff">>)
            desired == set_header(first, "referrer-policy", <<"strict-origin-when-cross-origin">>)
<1>1. /\ pc = "SecurityOut" /\ id = Rid /\ seen = FinalSeen /\ Stripped(resp)
      /\ [status |-> resp.status, fields |-> Marked(resp.fields)] = Final
  BY DEF BoundaryInv, ChainInv, SecurityOut, Rewrite, Unreached, Decided
<1>2. first = [resp.fields EXCEPT !["x-content-type-options"] = <<<<"nosniff">>>>]
  BY <1>1, SetHeader DEF Stripped, WellFormed, ResponseNames
<1>3. FieldsOf(ResponseNames, first)
  BY <1>1, <1>2 DEF Stripped, WellFormed, FieldsOf
<1>. HIDE DEF first
<1>4. desired = [first EXCEPT !["referrer-policy"] = <<<<"strict-origin-when-cross-origin">>>>]
  BY <1>3, SetHeader DEF ResponseNames
<1>. HIDE DEF desired
<1>5. /\ FieldsOf(ResponseNames, desired)
      /\ \A n \in ResponseNames \ {"x-content-type-options", "referrer-policy"} :
           desired[n] = resp.fields[n]
      /\ desired["x-content-type-options"] = <<<<"nosniff">>>>
      /\ desired["referrer-policy"] = <<<<"strict-origin-when-cross-origin">>>>
  BY <1>1, <1>2, <1>3, <1>4 DEF Stripped, WellFormed, FieldsOf, ResponseNames
<1>6. /\ pc' = "RequestIdOut" /\ resp' = [status |-> resp.status, fields |-> desired]
      /\ input' = input /\ id' = id /\ seen' = seen
  BY <1>1, <1>5, RewriteDesired DEF SecurityOut, Stripped, desired, first
<1>7. resp'.status = resp.status /\ resp'.fields = desired
  BY <1>6
<1>8. Stripped(resp)'
  BY <1>1, <1>5, <1>6 DEF Stripped, WellFormed, FieldsOf, Reserved, ResponseNames
<1>9. Rid' = Rid /\ Final' = Final /\ FinalSeen' = FinalSeen
  BY <1>6, SameCase
<1>10. Marked(desired) = Marked(resp.fields)
  BY <1>5 DEF Marked
<1>11. ([status |-> resp.status, fields |-> Marked(resp.fields)] = Final)'
  BY <1>1, <1>7, <1>9, <1>10 DEF Marked
<1>. QED
  BY <1>1, <1>5, <1>6, <1>7, <1>8, <1>9, <1>11 DEF ChainInv, Unreached, Decided

\* The outward half of request-id sets the identifier kept across its call.
LEMMA RequestIdOutStep ==
  ASSUME BoundaryInv, RequestIdOut
  PROVE  ChainInv'
<1>. DEFINE desired == set_header(resp.fields, "x-request-id", id)
<1>1. /\ pc = "RequestIdOut" /\ id = Rid /\ seen = FinalSeen /\ Stripped(resp)
      /\ [status |-> resp.status, fields |-> Marked(resp.fields)] = Final
      /\ resp.fields["x-content-type-options"] = <<<<"nosniff">>>>
      /\ resp.fields["referrer-policy"] = <<<<"strict-origin-when-cross-origin">>>>
  BY DEF BoundaryInv, ChainInv, RequestIdOut, Rewrite, Unreached, Decided
<1>2. desired = [resp.fields EXCEPT !["x-request-id"] = <<Rid>>]
  BY <1>1, SetHeader DEF Stripped, WellFormed, ResponseNames
<1>. HIDE DEF desired
<1>3. /\ FieldsOf(ResponseNames, desired)
      /\ \A n \in ResponseNames :
           desired[n] = IF n = "x-request-id" THEN <<Rid>> ELSE resp.fields[n]
  BY <1>1, <1>2 DEF Stripped, WellFormed, FieldsOf
<1>4. /\ pc' = "done" /\ resp' = [status |-> resp.status, fields |-> desired]
      /\ input' = input /\ seen' = seen
  BY <1>1, <1>3, RewriteDesired DEF RequestIdOut, Stripped, desired
<1>5. desired = Marked(resp.fields)
  BY <1>1, <1>3 DEF Marked, Stripped, FieldsOf
<1>6. Final' = Final /\ FinalSeen' = FinalSeen
  BY <1>4, SameCase
<1>. QED
  BY <1>1, <1>4, <1>5, <1>6 DEF ChainInv, Unreached, Decided
-------------------------------------------------------------------------------
(* The fused component *)

\* It returns Final if what it finalizes is the inner answer.
LEMMA FinalReturned ==
  ASSUME NEW d, WellFormed(Inner), CorsFields(d), d = CorsHeaders,
         ~(Reaches /\ input.terminal = HostError)
  PROVE  finalize_response(Inner, d, Rid) = Final
  BY FinalizeFinishes DEF Final

\* Up to the authentication.
LEMMA PrepareStep ==
  ASSUME BoundaryInv, Prepare
  PROVE  FusedInv'
<1>. DEFINE none == pass_through.headers
<1>1. /\ fpc = "Prepare" /\ fseen = NotCalled
      /\ input' = input /\ fseen' = fseen /\ fid' = Rid
  BY DEF BoundaryInv, FusedInv, Prepare, Rid
<1>2. /\ Rid' = Rid /\ Cors' = Cors /\ CorsPasses' = CorsPasses
      /\ Final' = Final /\ FinalSeen' = FinalSeen
  BY <1>1, SameCase
<1>3. evaluate(input.cors, input.method, policy_headers(input.fields)) = Cors
  BY CorsDecides
<1>4. ASSUME ~Reaches, Return(finalize_response(Inner, CorsHeaders, Rid)),
             WellFormed(Inner), CorsFields(CorsHeaders)
      PROVE  FusedInv'
  <2>1. fpc' = "done" /\ fresp' = Final
    BY <1>4, FinalReturned DEF Return
  <2>2. FinalSeen = NotCalled
    BY <1>4 DEF FinalSeen
  <2>. QED
    BY <1>1, <1>2, <2>1, <2>2 DEF FusedInv
<1>5. CASE ~CorsRuns
  <2>1. CorsHeaders = none /\ ~Reaches
    BY <1>5 DEF CorsHeaders, Reaches, CorsPasses
  <2>2. WellFormed(Inner)
    BY <1>5, EmptyResponse DEF Inner, CorsRuns
  <2>3. CorsFields(none)
    BY <2>2, NothingMerged
  <2>4. Return(finalize_response(Inner, none, Rid))
    BY <1>1, <1>5 DEF Prepare, CorsRuns, Inner, controlled_response
  <2>. QED
    BY <1>4, <2>1, <2>2, <2>3, <2>4
<1>6. CASE CorsRuns
  <2>1. /\ fdecision' = Cors
        /\ IF Cors.status # 0
             THEN Return(controlled_response(Cors.status, <<>>, Cors.headers, Rid))
           ELSE IF input.authn = "unset"
             THEN Return(controlled_response(503, RetryAfter, Cors.headers, Rid))
           ELSE fpc' = "Authenticate"
    BY <1>1, <1>3, <1>6 DEF Prepare, CorsRuns
  <2>2. CorsHeaders = Cors.headers /\ CorsFields(CorsHeaders)
    BY <1>6, CorsDecides DEF CorsHeaders
  <2>3. CASE Cors.status # 0
    <3>1. Inner = empty_response(Cors.status, <<>>) /\ ~Reaches
      BY <1>6, <2>3 DEF Inner, CorsRuns, Reaches, CorsPasses
    <3>2. Return(finalize_response(Inner, CorsHeaders, Rid))
      BY <2>1, <2>2, <2>3, <3>1 DEF controlled_response
    <3>. QED
      BY <1>4, <2>2, <3>1, <3>2, EmptyResponse
  <2>4. CASE Cors.status = 0 /\ input.authn = "unset"
    <3>1. Inner = empty_response(503, RetryAfter) /\ ~Reaches
      BY <1>6, <2>4 DEF Inner, CorsRuns, Reaches
    <3>2. Return(finalize_response(Inner, CorsHeaders, Rid))
      BY <2>1, <2>2, <2>4, <3>1 DEF controlled_response
    <3>. QED
      BY <1>4, <2>2, <3>1, <3>2, EmptyResponse
  <2>5. CASE Cors.status = 0 /\ input.authn # "unset"
    <3>1. fpc' = "Authenticate" /\ CorsPasses
      BY <1>6, <2>1, <2>5 DEF CorsPasses
    <3>. QED
      BY <1>1, <1>2, <2>1, <2>5, <3>1 DEF FusedInv
  <2>. QED
    BY <2>3, <2>4, <2>5
<1>. QED
  BY <1>5, <1>6

\* The one edit of the request hands down what the chain does.
LEMMA EditedIsDownstream ==
  ASSUME input \in Input
  PROVE  Edited(input.fields, Outcome, Rid) = Downstream
<1>1. FieldsOf(RequestNames, input.fields)
  BY CaseTypes
<1>2. \A v : <<>> \o <<v>> = <<v>>
  OBVIOUS
<1>. QED
  BY <1>1, <1>2 DEF Edited, apply_header_edits, Downstream, FieldsOf, Reserved, RequestNames

\* The authentication returns.
LEMMA AuthenticatedStep ==
  ASSUME BoundaryInv, Authenticated
  PROVE  FusedInv'
<1>1. /\ fpc = "Authenticate" /\ fseen = NotCalled /\ fid = Rid /\ fdecision = Cors
      /\ CorsPasses /\ input.authn # "unset" /\ input \in Input
      /\ input' = input /\ fseen' = fseen /\ fid' = fid /\ fdecision' = fdecision
  BY DEF BoundaryInv, FusedInv, Authenticated
<1>2. /\ Rid' = Rid /\ Cors' = Cors /\ CorsPasses' = CorsPasses /\ Reaches' = Reaches
      /\ Downstream' = Downstream /\ Final' = Final /\ FinalSeen' = FinalSeen
  BY <1>1, SameCase
<1>3. authenticate(policy_headers(input.fields), input.authn, input.broker) = Outcome
  BY SameOutcome
<1>4. CASE Passes(Outcome)
  <2>1. fpc' = "Call" /\ freq' = Downstream
    BY <1>1, <1>3, <1>4, EditedIsDownstream DEF Authenticated
  <2>2. Reaches
    BY <1>1, <1>4 DEF Reaches
  <2>. QED
    BY <1>1, <1>2, <2>1, <2>2 DEF FusedInv
<1>5. CASE ~Passes(Outcome)
  <2>1. /\ Inner = empty_response(RejectionStatus(Outcome), RejectionFields(Outcome))
        /\ ~Reaches /\ CorsHeaders = Cors.headers
    BY <1>1, <1>5 DEF Inner, Reaches, CorsPasses, CorsRuns, CorsHeaders
  <2>2. Return(finalize_response(Inner, Cors.headers, Rid))
    BY <1>1, <1>3, <1>5, <2>1 DEF Authenticated, controlled_response
  <2>3. WellFormed(Inner)
    BY <2>1, EmptyResponse
  <2>4. fpc' = "done" /\ fresp' = Final
    BY <2>1, <2>2, <2>3, FinalReturned, CorsDecides DEF Return
  <2>5. FinalSeen = NotCalled
    BY <2>1 DEF FinalSeen
  <2>. QED
    BY <1>1, <1>2, <2>4, <2>5 DEF FusedInv
<1>. QED
  BY <1>4, <1>5

\* The downstream call returns.
LEMMA CalledStep ==
  ASSUME BoundaryInv, Called
  PROVE  FusedInv'
<1>1. /\ fpc = "Call" /\ fid = Rid /\ fdecision = Cors /\ freq = Downstream
      /\ CorsPasses /\ Reaches /\ input' = input
      /\ fseen' = freq /\ fpc' = "done"
  BY DEF BoundaryInv, FusedInv, Called, Return
<1>2. Final' = Final /\ FinalSeen' = FinalSeen
  BY <1>1, SameCase
<1>3. FinalSeen = Downstream
  BY <1>1 DEF FinalSeen
<1>4. fresp' = Final
  <2>1. CASE input.terminal = HostError
    BY <1>1, <2>1 DEF Called, Return, Final
  <2>2. CASE input.terminal # HostError
    <3>1. Inner = input.terminal /\ CorsHeaders = Cors.headers
      BY <1>1 DEF Inner, Reaches, CorsPasses, CorsRuns, CorsHeaders
    <3>2. WellFormed(Inner)
      BY <3>1, CaseTypes DEF BoundaryInv
    <3>3. fresp' = finalize_response(Inner, Cors.headers, Rid)
      BY <1>1, <2>2, <3>1 DEF Called, Return
    <3>. QED
      BY <2>2, <3>1, <3>2, <3>3, FinalReturned, CorsDecides
  <2>. QED
    BY <2>1, <2>2
<1>. QED
  BY <1>1, <1>2, <1>3, <1>4 DEF FusedInv
-------------------------------------------------------------------------------
(* The two deployments *)

\* What is known of a deployment that does not move.
LEMMA ChainRests ==
  ASSUME ChainInv, UNCHANGED <<input, pc, req, id, decision, seen, resp>>
  PROVE  ChainInv'
<1>1. /\ Rid' = Rid /\ Tagged' = Tagged /\ Cors' = Cors /\ Downstream' = Downstream
      /\ CorsPasses' = CorsPasses /\ Reaches' = Reaches /\ Inner' = Inner
      /\ Final' = Final /\ FinalSeen' = FinalSeen
  BY SameCase
<1>2. Stripped(resp)' = Stripped(resp)
  BY DEF Stripped, WellFormed, FieldsOf
<1>3. /\ Finished(resp, Cors.headers)' = Finished(resp, Cors.headers)
      /\ Finished(Inner, Cors.headers)' = Finished(Inner, Cors.headers)
      /\ Marked(resp.fields)' = Marked(resp.fields)
  BY <1>1 DEF Finished, Marked
<1>. QED
  BY <1>1, <1>2, <1>3 DEF ChainInv

\* The same for the fused component.
LEMMA FusedRests ==
  ASSUME FusedInv, UNCHANGED <<input, fpc, fid, fdecision, freq, fseen, fresp>>
  PROVE  FusedInv'
<1>1. /\ Rid' = Rid /\ Cors' = Cors /\ Downstream' = Downstream
      /\ CorsPasses' = CorsPasses /\ Reaches' = Reaches
      /\ Final' = Final /\ FinalSeen' = FinalSeen
  BY SameCase
<1>. QED
  BY <1>1 DEF FusedInv

\* Every step of either deployment brings it closer to the answer that the case
\* determines.
THEOREM Determined == Spec => []BoundaryInv
<1>1. Init => BoundaryInv
  <2>. SUFFICES ASSUME Init PROVE BoundaryInv
    OBVIOUS
  <2>1. ChainInv
    BY DEF Init, ChainInit, ChainInv, Unreached, Decided
  <2>2. FusedInv
    BY DEF Init, FusedInit, FusedInv, NotCalled
  <2>. QED
    BY <2>1, <2>2 DEF Init, ChainInit, BoundaryInv
<1>2. BoundaryInv /\ [Next]_vars => BoundaryInv'
  <2>. SUFFICES ASSUME BoundaryInv, [Next]_vars PROVE BoundaryInv'
    OBVIOUS
  <2>1. input' = input
    BY DEF Next, vars, ChainNext, FusedNext, RequestIdIn, CorsIn, Answer, AuthnIn, Terminal,
           AuthnOut, CorsOut, SecurityOut, RequestIdOut, Rewrite, Prepare, Authenticated, Called
  <2>2. CASE ChainNext /\ UNCHANGED <<fpc, fid, fdecision, freq, fseen, fresp>>
    <3>1. ChainInv'
      BY <2>2, RequestIdInStep, CorsInStep, AuthnInStep, TerminalStep, AuthnOutStep,
         CorsOutStep, SecurityOutStep, RequestIdOutStep DEF ChainNext
    <3>2. FusedInv'
      BY <2>1, <2>2, FusedRests DEF BoundaryInv
    <3>. QED
      BY <2>1, <3>1, <3>2 DEF BoundaryInv
  <2>3. CASE FusedNext /\ UNCHANGED <<pc, req, id, decision, seen, resp>>
    <3>1. FusedInv'
      BY <2>3, PrepareStep, AuthenticatedStep, CalledStep DEF FusedNext
    <3>2. ChainInv'
      BY <2>1, <2>3, ChainRests DEF BoundaryInv
    <3>. QED
      BY <2>1, <3>1, <3>2 DEF BoundaryInv
  <2>4. CASE UNCHANGED vars
    BY <2>1, <2>4, ChainRests, FusedRests DEF BoundaryInv, vars
  <2>. QED
    BY <2>2, <2>3, <2>4 DEF Next
<1>. QED
  BY <1>1, <1>2, PTL DEF Spec

\* The fused component answers as the chain does, and calls the terminal service
\* with the same request: for every case, whatever the fields, configurations,
\* broker and terminal answers are.
THEOREM FusedIsChain == Spec => []SameAnswer
<1>1. BoundaryInv => SameAnswer
  BY DEF BoundaryInv, ChainInv, FusedInv, SameAnswer, Unreached
<1>. QED
  BY <1>1, Determined, PTL

\* What the terminal service sees, in both deployments.
LEMMA SeenIsDownstream ==
  ASSUME BoundaryInv, NEW s \in {seen, fseen} \ {NotCalled}
  PROVE  s = Downstream /\ Reaches
  BY DEF BoundaryInv, ChainInv, FusedInv, FinalSeen

\* Nothing a client says of its identity reaches the terminal service, and what
\* authentication said of it does.
THEOREM TrustedContext == Spec => []TrustBoundary
<1>1. BoundaryInv => TrustBoundary
  BY SeenIsDownstream DEF TrustBoundary, Downstream, Rid, RequestNames, Reserved
<1>. QED
  BY <1>1, Determined, PTL

\* Every request that reaches the terminal service went through each policy.
THEOREM PoliciesRan == Spec => []NoBypass
<1>1. BoundaryInv => NoBypass
  <2>. SUFFICES ASSUME BoundaryInv, seen # NotCalled \/ fseen # NotCalled
                PROVE  /\ input.cors.valid /\ input.authn # "unset"
                       /\ Passes(Outcome)
                       /\ input.fields["origin"] # <<>> =>
                            OriginAllowed(input.cors, input.fields["origin"][1]) /\ ~IsPreflight
    BY DEF NoBypass
  <2>1. Reaches
    BY SeenIsDownstream
  <2>. QED
    BY <2>1, EvaluateDecides DEF Reaches, CorsPasses, CorsRuns, Cors, IsPreflight
<1>. QED
  BY <1>1, Determined, PTL

\* An answer is the one that the case determines.
LEMMA AnswerIsFinal ==
  ASSUME BoundaryInv, NEW r \in Answers
  PROVE  r = Final /\ r = Finished(Inner, CorsHeaders)
<1>1. r # HostError /\ r = Final
  BY DEF Answers, BoundaryInv, ChainInv, FusedInv
<1>. QED
  BY <1>1 DEF Final

\* Every answer leaves marked and stripped.
THEOREM EveryAnswerMarked == Spec => []AnswersMarked
<1>1. BoundaryInv => AnswersMarked
  <2>. SUFFICES ASSUME BoundaryInv, NEW r \in Answers
                PROVE  /\ \A n \in Reserved : r.fields[n] = <<>>
                       /\ r.fields["x-request-id"] = <<Rid>>
                       /\ r.fields["x-content-type-options"] = <<<<"nosniff">>>>
                       /\ r.fields["referrer-policy"] = <<<<"strict-origin-when-cross-origin">>>>
    BY DEF AnswersMarked, Rid
  <2>1. r.fields = Marked(Merged(Inner.fields, CorsHeaders))
    BY AnswerIsFinal DEF Finished
  <2>. QED
    BY <2>1 DEF Marked, Reserved, ResponseNames
<1>. QED
  BY <1>1, Determined, PTL
-------------------------------------------------------------------------------
(* The merged Vary keeps every token *)

\* A set of numbers has a least one.
LEMMA Least ==
  ASSUME NEW S \in SUBSET Nat, S # {}
  PROVE  \E m \in S : \A k \in S : m <= k
<1>1. \E m \in S : \A k \in S : ~(<<k, m>> \in OpToRel(<, Nat))
  BY WFMin, NatLessThanWellFounded
<1>2. \A k, m \in Nat : k < m => <<k, m>> \in OpToRel(<, Nat)
  BY DEF OpToRel
<1>3. \E m \in S : \A k \in S : ~(k < m)
  BY <1>1, <1>2, Zenon
<1>4. \A k, m \in S : ~(k < m) => m <= k
  OBVIOUS
<1>. QED
  BY <1>3, <1>4, Zenon

\* A list of values has finitely many places.
LEMMA PlacesFinite ==
  ASSUME NEW T, NEW values \in Seq(Seq(T))
  PROVE  /\ IsFiniteSet(Places(values))
         /\ \A p \in Places(values) : p \in Nat \X Nat /\ p = <<p[1], p[2]>>
<1>. DEFINE row == [i \in DOMAIN values |-> {i} \X DOMAIN values[i]]
            rows == {{i} \X DOMAIN values[i] : i \in DOMAIN values}
<1>1. DOMAIN values = 1..Len(values) /\ Len(values) \in Nat
  OBVIOUS
<1>2. \A i \in DOMAIN values : DOMAIN values[i] = 1..Len(values[i]) /\ Len(values[i]) \in Nat
  OBVIOUS
<1>3. IsFiniteSet(DOMAIN values)
  BY <1>1, FS_Interval
<1>4. IsFiniteSet(rows)
  <2>1. row \in Surjection(DOMAIN values, rows)
    BY DEF Surjection
  <2>. QED
    BY <1>3, <2>1, FS_Surjection
<1>5. \A i \in DOMAIN values : IsFiniteSet({i} \X DOMAIN values[i])
  <2>. TAKE i \in DOMAIN values
  <2>1. IsFiniteSet(1..Len(values[i]))
    BY <1>2, FS_Interval
  <2>. QED
    BY <1>2, <2>1, FS_Singleton, FS_Product
<1>6. IsFiniteSet(Places(values))
  BY <1>4, <1>5, FS_UNION DEF Places
<1>7. \A p \in Places(values) : p \in Nat \X Nat
  BY <1>1, <1>2 DEF Places
<1>. QED
  BY <1>6, <1>7

\* Every token has a first place.
LEMMA FirstPlace ==
  ASSUME NEW T, NEW values \in Seq(Seq(T)), NEW t \in Tokens(values)
  PROVE  \E p \in Firsts(values) : At(values, p) = t
<1>. DEFINE S == {p \in Places(values) : At(values, p) = t}
            I == {p[1] : p \in S}
<1>1. S # {}
  <2>1. PICK i \in DOMAIN values : t \in ToSet(values[i])
    BY DEF Tokens
  <2>2. PICK j \in DOMAIN values[i] : t = values[i][j]
    BY <2>1 DEF ToSet
  <2>3. <<i, j>> \in Places(values) /\ At(values, <<i, j>>) = t
    BY <2>2 DEF Places, At
  <2>. QED
    BY <2>3
<1>2. \A p \in S : p \in Nat \X Nat
  BY PlacesFinite
<1>. HIDE DEF S
<1>3. PICK i \in I : \A k \in I : i <= k
  <2>1. I \in SUBSET Nat /\ I # {}
    BY <1>1, <1>2
  <2>. QED
    BY <2>1, Least
<1>. DEFINE R == {p \in S : p[1] = i}
            J == {p[2] : p \in R}
<1>4. PICK j \in J : \A k \in J : j <= k
  <2>1. J \in SUBSET Nat /\ J # {}
    BY <1>2
  <2>. QED
    BY <2>1, Least
<1>5. PICK p \in S : p[1] = i /\ p[2] = j
  OBVIOUS
<1>6. \A q \in S : ~Before(q, p)
  <2>. SUFFICES ASSUME NEW q \in S, Before(q, p) PROVE FALSE
    OBVIOUS
  <2>1. q[1] \in Nat /\ q[2] \in Nat /\ i \in Nat /\ j \in Nat
    BY <1>2, <1>5
  <2>2. i <= q[1]
    BY <1>3
  <2>3. q[1] = i => j <= q[2]
    BY <1>4
  <2>. QED
    BY <1>5, <2>1, <2>2, <2>3 DEF Before
<1>. QED
  BY <1>5, <1>6 DEF S, Firsts

\* The rank of a place tells it from the others.
LEMMA RankTells ==
  ASSUME NEW F, IsFiniteSet(F), F \in SUBSET (Nat \X Nat), NEW p \in F
  PROVE  /\ Rank(F, p) + 1 \in 1..Cardinality(F)
         /\ \A q \in F : Rank(F, q) = Rank(F, p) => q = p
<1>. DEFINE Below(q) == {x \in F : Before(x, q)}
<1>1. \A q \in F : IsFiniteSet(Below(q)) /\ Cardinality(Below(q)) \in Nat
  BY FS_Subset, FS_CardinalityType
<1>2. \A q \in F : q \notin Below(q)
  BY DEF Before
<1>3. ASSUME NEW q \in F, NEW x \in F, Before(x, q)
      PROVE  Cardinality(Below(x)) < Cardinality(Below(q))
  <2>1. Below(x) \subseteq Below(q)
    BY <1>3 DEF Before
  <2>2. x \in Below(q) /\ x \notin Below(x)
    BY <1>2, <1>3
  <2>3. Below(x) # Below(q)
    BY <2>2
  <2>. HIDE DEF Below
  <2>. QED
    BY <1>1, <2>1, <2>3, FS_Subset
<1>4. \A q \in F : q # p => Before(q, p) \/ Before(p, q)
  BY DEF Before
<1>5. \A q \in F : Rank(F, q) = Cardinality(Below(q))
  BY DEF Rank
<1>6. Cardinality(Below(p)) < Cardinality(F)
  <2>1. Below(p) \subseteq F /\ Below(p) # F
    BY <1>2
  <2>. HIDE DEF Below
  <2>. QED
    BY <1>1, <2>1, FS_Subset, FS_CardinalityType
<1>. HIDE DEF Below
<1>7. Rank(F, p) + 1 \in 1..Cardinality(F)
  BY <1>1, <1>5, <1>6, FS_CardinalityType
<1>8. ASSUME NEW q \in F, Rank(F, q) = Rank(F, p) PROVE q = p
  BY <1>1, <1>3, <1>4, <1>5, <1>8
<1>. QED
  BY <1>7, <1>8

\* Dropping repetitions drops no token.
LEMMA DistinctKeeps ==
  ASSUME NEW T, NEW values \in Seq(Seq(T))
  PROVE  Tokens(values) \subseteq ToSet(Distinct(values))
<1>. DEFINE F == Firsts(values)
<1>. SUFFICES ASSUME NEW t \in Tokens(values) PROVE t \in ToSet(Distinct(values))
  OBVIOUS
<1>1. F \subseteq Places(values)
  BY DEF Firsts
<1>2. IsFiniteSet(F) /\ F \in SUBSET (Nat \X Nat)
  BY <1>1, PlacesFinite, FS_Subset
<1>3. PICK p \in F : At(values, p) = t
  BY FirstPlace
<1>. DEFINE k == Rank(F, p) + 1
<1>4. Distinct(values) = [m \in 1..Cardinality(F) |->
                            At(values, CHOOSE x \in F : Rank(F, x) = m - 1)]
  BY DEF Distinct
<1>. HIDE DEF F
<1>5. k \in 1..Cardinality(F) /\ \A q \in F : Rank(F, q) = Rank(F, p) => q = p
  BY <1>2, <1>3, RankTells
<1>6. Rank(F, p) = k - 1
  <2>1. Rank(F, p) \in Nat
    BY <1>2, FS_Subset, FS_CardinalityType DEF Rank
  <2>. QED
    BY <2>1
<1>. HIDE DEF k
<1>7. (CHOOSE x \in F : Rank(F, x) = k - 1) = p
  BY <1>3, <1>5, <1>6
<1>8. Distinct(values)[k] = t /\ k \in DOMAIN Distinct(values)
  BY <1>3, <1>4, <1>5, <1>7
<1>. QED
  BY <1>8 DEF ToSet

\* The merge names the origin or everything, and keeps the tokens of text or names
\* everything.
LEMMA MergeKeeps ==
  ASSUME NEW T, NEW values \in Seq(Seq(T))
  PROVE  LET merged == ToSet(merge_vary_origin(values)) IN
         /\ {"origin", "*"} \cap merged # {}
         /\ ~Contains(values, NotText) => Tokens(values) \subseteq merged \/ "*" \in merged
<1>. DEFINE bad  == {i \in DOMAIN values : values[i] = NotText}
            text == {i \in DOMAIN values : \A b \in bad : i < b}
            all  == Append(values, <<"origin">>)
            merged == merge_vary_origin(values)
<1>0. "*" \in ToSet(<<"*">>) /\ "origin" \in ToSet(<<"origin">>)
  BY DEF ToSet
<1>1. Tokens(all) = Tokens(values) \cup {"origin"}
  <2>1. /\ DOMAIN all = 1..(Len(values) + 1) /\ DOMAIN values = 1..Len(values)
        /\ \A i \in 1..Len(values) : all[i] = values[i]
        /\ all[Len(values) + 1] = <<"origin">>
    OBVIOUS
  <2>2. ToSet(<<"origin">>) = {"origin"}
    BY DEF ToSet
  <2>3. ASSUME NEW t PROVE t \in Tokens(all) <=> t \in Tokens(values) \cup {"origin"}
    <3>. HIDE DEF all
    <3>1. t \in Tokens(all) <=> \E i \in DOMAIN all : t \in ToSet(all[i])
      BY DEF Tokens
    <3>2. t \in Tokens(values) <=> \E i \in DOMAIN values : t \in ToSet(values[i])
      BY DEF Tokens
    <3>3. \A i : i \in DOMAIN all <=> i \in DOMAIN values \/ i = Len(values) + 1
      BY <2>1
    <3>. QED
      BY <2>1, <2>2, <3>1, <3>2, <3>3
  <2>. QED
    BY <2>3
<1>2. all \in Seq(Seq(T \cup {"origin"}))
  <2>1. values \in Seq(Seq(T \cup {"origin"})) /\ <<"origin">> \in Seq(T \cup {"origin"})
    OBVIOUS
  <2>. QED
    BY <2>1
<1>3. Tokens(values) \cup {"origin"} \subseteq ToSet(Distinct(all))
  BY <1>1, <1>2, DistinctKeeps
<1>. HIDE DEF all
<1>4. merged \in {<<"*">>, <<"origin">>, Distinct(all)}
  BY DEF merge_vary_origin, all
<1>5. ~Contains(values, NotText) => merged \in {<<"*">>, Distinct(all)}
  <2>1. ~Contains(values, NotText) => bad = {}
    BY DEF Contains
  <2>. QED
    BY <2>1 DEF merge_vary_origin, all
<1>. HIDE DEF merged
<1>. QED
  BY <1>0, <1>3, <1>4, <1>5 DEF merged

\* No answer tells a shared cache less than the terminal service did, and every
\* answer to a request with an Origin says that it depends on it.
THEOREM VarySafe == Spec => []CacheSafe
<1>1. BoundaryInv => CacheSafe
  <2>. SUFFICES ASSUME BoundaryInv, NEW r \in Answers
                PROVE  LET vary  == Tokens(r.fields["vary"])
                           given == input.terminal.fields["vary"]
                       IN  /\ Evaluated /\ input.fields["origin"] # <<>> =>
                                {"origin", "*"} \cap vary # {}
                           /\ seen # NotCalled /\ ~Contains(given, NotText) =>
                                Tokens(given) \subseteq vary \/ "*" \in vary
    BY DEF CacheSafe
  <2>. DEFINE given == input.terminal.fields["vary"]
              inner == Inner.fields["vary"]
              vary  == r.fields["vary"]
  <2>1. given \in Seq(Seq(STRING))
    BY InputAssumption DEF BoundaryInv, ResponseNames, CorsNames
  <2>2. WellFormed(Inner) /\ inner \in {<<>>, given}
    <3>1. WellFormed(input.terminal)
      BY CaseTypes DEF BoundaryInv
    <3>2. \A status : /\ WellFormed(empty_response(status, <<>>))
                      /\ empty_response(status, <<>>).fields["vary"] = <<>>
      BY EmptyResponse DEF ResponseNames, CorsNames
    <3>3. \A status : /\ WellFormed(empty_response(status, RetryAfter))
                      /\ empty_response(status, RetryAfter).fields["vary"] = <<>>
      BY EmptyResponse DEF ResponseNames, CorsNames, RetryAfter
    <3>4. /\ WellFormed(empty_response(RejectionStatus(Outcome), RejectionFields(Outcome)))
          /\ empty_response(RejectionStatus(Outcome), RejectionFields(Outcome)).fields["vary"] = <<>>
      BY EmptyResponse DEF ResponseNames, CorsNames, RejectionFields
    <3>. QED
      BY <3>1, <3>2, <3>3, <3>4 DEF Inner
  <2>3. inner \in Seq(Seq(STRING))
    <3>1. \A S : <<>> \in Seq(S)
      OBVIOUS
    <3>. QED
      BY <2>1, <2>2, <3>1, Zenon
  <2>4. vary = IF CorsHeaders["vary"] = <<>> THEN inner ELSE <<merge_vary_origin(inner)>>
    <3>1. r.fields = Marked(Merged(Inner.fields, CorsHeaders))
      BY AnswerIsFinal DEF Finished
    <3>2. vary = Merged(Inner.fields, CorsHeaders)["vary"]
      BY <3>1 DEF Marked, ResponseNames, CorsNames, Reserved
    <3>3. "vary" \in DOMAIN Inner.fields /\ "vary" \in CorsNames
      BY <2>2 DEF WellFormed, FieldsOf, ResponseNames, CorsNames
    <3>. QED
      BY <3>2, <3>3 DEF Merged
  <2>5. \A v : Tokens(<<v>>) = ToSet(v)
    BY DEF Tokens
  <2>6. ASSUME Evaluated, input.fields["origin"] # <<>>
        PROVE  {"origin", "*"} \cap Tokens(vary) # {}
    <3>1. CorsHeaders = Cors.headers /\ Cors # InvalidHeader
      BY <2>6 DEF Evaluated, CorsHeaders, CorsRuns, Cors
    <3>2. CorsHeaders["vary"] = <<<<"origin">>>>
      BY <2>6, <3>1, EvaluateDecides DEF Cors
    <3>3. vary = <<merge_vary_origin(inner)>>
      BY <2>4, <3>2
    <3>. QED
      BY <2>3, <2>5, <3>3, MergeKeeps
  <2>7. ASSUME seen # NotCalled, ~Contains(given, NotText)
        PROVE  Tokens(given) \subseteq Tokens(vary) \/ "*" \in Tokens(vary)
    <3>1. Reaches
      BY <2>7, SeenIsDownstream
    <3>2. inner = given
      BY <3>1 DEF Inner, Reaches, CorsPasses, CorsRuns
    <3>3. vary = given \/ vary = <<merge_vary_origin(given)>>
      BY <2>4, <3>2
    <3>. HIDE DEF vary, given
    <3>. QED
      BY <2>1, <2>5, <2>7, <3>3, MergeKeeps
  <2>. QED
    BY <2>6, <2>7
<1>. QED
  BY <1>1, Determined, PTL
===============================================================================
