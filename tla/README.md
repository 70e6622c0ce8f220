# A verification of wasi-http-middleware in TLA+

This directory holds TLA+ models of the middleware, the TLC configurations that
check them on small instances, and TLAPS proofs of their main properties for
every instance. `PROJECT.json` maps every definition to the lines it models.

## The system

HTTP middleware compiled to WebAssembly components. A request passes through
`request-id -> security-headers -> cors -> authn-policy -> terminal service`, or
through the single component `secure-defaults` that fuses the four. The terminal
service may also authenticate by itself, with `crates/authn`.

| Component | State it keeps | Operations | Hard behaviour |
|---|---|---|---|
| `crates/authn-runtime`, admission | `IN_FLIGHT`, process-wide | `InFlightGuard::acquire`, `Drop` | interleaved compare-exchange loops |
| `crates/authn-runtime`, exchange | per request: three joined futures, the collected body, a deadline | `authenticate_with_diagnostics`, `call_broker`, `exchange_with_broker`, `collect_broker_response`, `with_deadline` | answers in any order, partial failure, a silent or dripping broker, cancellation |
| `crates/component-support` | none; spawns a relay per rebuilt message | header helpers, `replace_*_headers`, `edit_*_headers`, `empty_response` | the result of a transmission travels back through stacked wrappers |
| `crates/policy-core` | validated CORS configuration | `CorsConfig::evaluate`, `RequestIdPolicy::canonicalize`, `parse_authn_response`, `normalize_policy_path` | duplicated, absent and unreadable headers; paths that a second decoder would read differently |
| `components/*` | `OnceLock` configurations | one `handle` each | order of policies; answers produced inside the chain; a second, fused implementation of all of it |
| `crates/authn` | the request object it is given | `authenticate_request`, `accept_trusted_ingress` | an await between stripping and installing; lifetimes that run out |
| `crates/metadata` | none | contexts, their wire form, stripping of reserved headers | canonical encoding, bounds on parts and on the whole, two ends with one format |
| `test-components/*` | spawned writers and result tasks | the echo service's producers and its echo, a mock broker | streams that fail at once or in the middle; two components that wait for each other |
| `fuzz` | none | `path.rs`, `auth_context.rs`, `headers.rs` | their assertions are claims about all inputs |
| `scripts` | none | build, packaging and release checks | none that TLC would reach |

Components interact by calls (a handler awaits the next one), by host resources
(streams and futures), and through the one shared atomic.

What makes each part correct: admission counts exactly the live exchanges; the
exchange fails closed, ends, and blames the client only when the broker did; the
relays tell every party the consumer's own result; the chain and the fused
component agree, keep client-supplied trust metadata and credentials from the
terminal service, and mark every answer; a normalised path means one thing to
everybody; an identity arrives at the terminal service as the broker asserted it
or is refused for a reason one can name; the terminal crate strips before it
decides and installs only identities that are bound and live.

## Modules

* `Admission` - abstract: at most `Max` clients hold a slot, and a client is
  refused only when every slot is taken. One variable, `phase`.
* `InFlightGuard` - `acquire` and `Drop`, one step per access of `IN_FLIGHT`.
  `current` and the program counter are per thread. A thread inside the loop
  is `idle` for `Admission`, so that the refinement says that the loop is
  linearizable. Native threads are assumed: the
  single-threaded build has a subset of these behaviours. A spurious failure of
  `compare_exchange_weak` is a stuttering step. The atomic is modelled as
  sequentially consistent, which is enough: there is one location, and all
  read-modify-writes of one location are totally ordered.
* `AuthnRuntime` - the requests one instance authenticates concurrently. `ex[r]`
  holds the progress of the three futures that `try_join!` polls
  (`send_and_collect`, `write_body`, `await_transmission`); `Advance` completes
  the join when the last one completes and `Fail` drops the others; each failure
  is mapped to its diagnostic stage as in the code. `Deadline` is the outer
  timer; `BeginRead` is the entry test of the inner `with_deadline`. When a
  future and the timer are ready at the same poll, both actions are enabled.
  `Cancel` is the drop of the caller's future at any await. A body is a number of
  units out of which the broker may send any slices, and the connection may be
  cut after any of them. A reply says where its JSON object ends, where the blanks behind
  it end and how long the body is: `serde_json::from_slice` takes a prefix that ends in the
  blanks, and no other. A cut inside the object is refused; a cut inside the blanks, with
  which the mock broker pads its `limit-ok` answer, is not noticed and does no harm.
* `StreamRelay` - a body through `N` stacked wrappers. `tx[i]` is the
  transmission result of message `i`; `Relay(i)` is the task that wrapper `i`
  spawns. The header edit may be refused before the message is consumed, or
  restoring the metadata may fail after it (`WrapFails`). In the script of an upload
  the wrapper `script.echo` is the echo service's `echo_body`: the stream of a request becomes the
  stream of its response, so the chain runs in and out. The `replace_*` and
  `edit_*` functions of both directions contain the same code for this. The
  producers are the echo service's (`MCStreamRelay`); its 50 ms pause stands for
  "long enough for the frames to be delivered", and is modelled as that. The
  consumer is the host, external to the repository.
* `Fields` - header fields and the helpers of `component-support`. A value is the
  sequence of its comma-separated tokens, or `NotText`. `Distinct`, what the merge of
  `Vary` keeps of a list of values, is given by the first places of its tokens and
  their ranks rather than by a loop, so that it can be reasoned about.
* `CorsPolicy` - `CorsConfig::evaluate`, and the outcome of authentication as a
  function of what the broker answers (`AuthnRuntime` justifies it).
* `Cases` - the case at hand, which chain and fused component share: request fields,
  configurations, the broker's and the terminal service's answers.
* `MiddlewareChain` - the four handlers, each split at its downstream call; a
  component that answers by itself continues at the outward half of the next
  outer one. `SecureDefaults` - the fused handler, split at its two awaits.
* `Boundary` - both on the same case, in any interleaving.
* `TerminalAuthn` - the two functions of `crates/authn` on one request object
  that the application may present repeatedly; `Begin` runs up to the await.
* `Configuration` - what an instance makes of its environment: `from_environment`
  and `load_config` as the error of the first check that fails, in the order of
  the code, read lazily by `LoadCors` and `LoadAuthn`. A key has a sequence of
  values, so that repetition is visible; a broker URL is its parts. Its host is
  given the way the code looks at it: the labels as written (`.spin.internal` is compared
  exactly), the labels in lower case (`localhost` is not), and the bytes of the IP address
  that it parses as, if any, of which `IpAddr::is_loopback` takes 127.0.0.0/8 and `::1`.
* `PolicyPath` - `normalize_policy_path` on the bytes of a path: one step per byte
  of the search for the query and per iteration of the decoding loop, with the
  index each decoded byte came from as a history variable. `Again` normalises the
  result a second time, as `fuzz_targets/path.rs` does. `PathReference` says
  without a loop which paths are acceptable and what each stands for.
* `AuthContext` - operators only: the bounds of `crates/metadata`, the
  constructors and builders, the wire format and `authenticated_claims` of
  `policy-core`. A text is its character class, its length, its length as JSON and
  a number that identifies and orders it; `Canonical` (sort and dedup) puts every text
  of a list at its rank; the encoded size of a context is computed
  exactly, field names, commas and base64url included. `serde_json` and base64 are
  external, modelled by the lengths they produce and the forms they accept.
* `IdentityPath` - an identity from the broker's answer through claims, context and
  header to the terminal service, whose deployment is configured separately; time
  passes before it is accepted. The terminal service may also be given a header that
  another ingress wrote, as any document: the input of `fuzz_targets/auth_context.rs`,
  whose assertions are `Reencodes` and `ObjectsReencode`.
* `BrokerExchange` - `AuthnRuntime` joined with the mock broker. Streams and futures
  are rendezvous: a write and the read that takes it are one step, an action of
  `AuthnRuntime` conjoined with the broker's half. `broker[r]` holds the handler,
  the spawned body writer and the task that awaits the transmission result.
* `RequestIds` - `generated_request_id`, one step per access of the `OnceLock`
  and of the sequence, whose width is a constant.
* `*Proofs` - theorems; `MC*` - instances.

## Runs

| Run | Instance | Shows |
|---|---|---|
| `in_flight_guard` | 4 threads, 2 slots | `SlotsConserved`, `ImplementsAdmission`, and `LockFree`: if a thread loops for ever, others keep leaving the loop |
| `authn_runtime` | 697 000 states: 2 requests, 1 slot, optional mode, timeout of 2 ticks, starts at 2 ticks, a limit of 2 units with bodies of 1, 2 and 3, some of them padded with blanks or followed by garbage | the exchange: slots and types, `AuthenticatedJustified`, `NoDowngrade` (a failure does not become anonymous access), `BlameDeserved`, `DeadlineKept` (absolute, and measured from the start of the exchange), `ImplementsAdmission`, and `ExchangeEnds` |
| `stream_relay` | 9 wrappers, 8 producers: 5 of the echo service's responses and 3 uploads that wrapper 5 echoes | `TruthRelayed`, `SuccessIsComplete`, `FramesBeforeError` (the streaming invariant of `docs/ARCHITECTURE.md`), `EveryoneLearns` |
| `boundary` | every CORS request against four policies; every credential, identifier and spoofed header against both modes and every broker answer; every terminal answer | `SameAnswer` (chain and fused component agree), `TrustBoundary`, `NoBypass`, `AnswersMarked`, `CacheSafe` |
| `terminal_authn` | 3 calls, 4 instants | `Stripped`, `AskedOnce`, `InstalledBound`, `InstalledLive` |
| `configuration` | 19 000 states: URLs of every shape (Spin, loopback and other hosts, in either case and as addresses), each number at and past its limits, lists with empty and repeated items, every key absent, once and twice | `AuthnConfigSafe`, `CorsConfigSafe`: what the other models assume of a configuration, and that no value was chosen among several |
| `request_ids` | 3 threads, 2 prefixes, a sequence of 4 numbers, 2 wraps | `UniqueUntilWrap`, `OnePrefix` |
| `policy_path` | 139 000 states: up to 3 of 21 literals, escapes and broken escapes, and up to 5 of the 4 commonest; a limit of 10 bytes | `NormalForm`, `SegmentsKept`, `Idempotent`, `MatchesReference` |
| `identity_path` | 114 000 states: deployments and answers with every field at and past its bound, contexts around the size limit; header values of another ingress in both JSON forms, around the limit, unordered, repeated, inconsistent | `RefusedForCause`, `IdentityKept`, `OnlySizeRefuses`, `ObjectsReencode`, `DecodedSound` |
| `broker_exchange` | 239 000 states: 2 overlapping exchanges, timeout of 2 ticks, tokens `slow`, `limit-over` and an unknown one, right and wrong path | `VerdictDelivered`, `EndsUnaided` (no circle of waiting), `BrokerQuiesces` |
| `vary_tokens` | the terminal answers of `boundary` | a violation, see below |
| `context_reencode` | the values of `identity_path` | a violation, see below |

Findings. `docs/CONFIGURATION.md` says that CORS responses keep existing `Vary`
tokens. When one `Vary` value of the terminal service is not UTF-8, the merge
(in the chain and in the fused component) drops all of them and stops reading,
a later `*` included; `vary_tokens` shows it. `CacheSafe` is the part of the promise
that does hold.

`fuzz_targets/auth_context.rs` asserts that "decoded contexts must re-encode".
`serde_json` also reads a struct from an array of its fields, which is shorter than
the object that `encode_auth_context` writes. A context near the size limit that is
written as arrays is therefore decoded and then refused by the encoder;
`context_reencode` shows it. `ObjectsReencode` is the part that holds, and nothing in
the repository writes arrays or re-encodes what it decoded.

Bounds. Two threads suffice for a lost update; the third and fourth let a stale
`current` return to its old value. Two requests on one slot make a lost slot
visible as a refusal. Bodies below, at and above the limit exercise its
boundary. Nine wrappers are the deployed
chain inwards, the echo service, and the chain outwards. `LastStart`
bounds the clock by bounding when requests start, never an exchange that has
started; three literals or escapes after a slash hold every ambiguity of two
segments, and `PolicyPathProofs` covers the longer paths. Sizes in `identity_path`
are the real ones: the instance contains contexts of exactly the
limit, one step below and above it. `MaxCalls` and `MaxTime` bound the presentations of one request and the
clock of the terminal crate.

Deadlock. It is checked for `InFlightGuard`, whose threads run for ever. The
other models end: each request is handled once.

Fairness. `InFlightGuard`: a thread inside the loop keeps running; nobody is
obliged to call or to drop. `AuthnRuntime`: time passes and an expired timer
wakes its task; nothing is assumed of the broker, the streams or the caller, so
`ExchangeEnds` rests on the deadline alone. `StreamRelay`: the executor polls
handlers, relays and producers, and the host keeps reading; nothing obliges a
wrapper to fail or a peer to leave. `BrokerExchange`: some step of the two components
on a request is taken while one is possible, and time passes; admission, the deadline
and cancellation are never obliged to happen, so that `EndsUnaided` rests on the
protocol alone.

## Proofs

All proofs are checked by TLAPS, for every value of the constants that
satisfies the named assumptions.

* `InFlightGuardProofs` (finitely many threads, `Max` positive). `SlotsConserved`
  is not inductive: a thread at its compare-exchange could carry a full
  `current`. `CasHasRoom` says that it tested `current < Max`; with it, success
  of the exchange (`IN_FLIGHT = current`) leaves the counter at most `Max`. The
  cardinality of the holders changes by one with each step (`FS_AddElement`,
  `FS_RemoveElement`). `Refinement` maps each access to a step of `Admission` or
  a stutter. `RetriesArePaidFor` is the safety part of `LockFree`: the threads whose
  exchange is due to fail (`Outdated`) become more only when the counter changes, which
  is a slot taken or given back, and each retry is one less of them.
* `AuthnRuntimeProofs` (finitely many requests; any positive limit and timeout and any
  set of replies). `IndInv` adds to the types and the slot count a `Local` invariant per
  request: it has no outcome before it is done, it carries a text credential while it is in
  an exchange, at most one chunk came after the deadline and none before the stream
  ended, and each kind of outcome has the reply, the mode and the finished futures it
  needs. `FailsClosed`, `NeverDowngrades`, `BlameCorrect` and `DeadlineCorrect` follow.
* `StreamRelayProofs` (any `N`, any scripts). `IndInv` says that messages not
  built yet have no result, that a good body result was published only after the
  stream was closed with every frame written, and that a success at the last
  message is the peer's. `FramesBeforeError` needs `PeerWaits` (while the peer waits
  on a whole chain nothing is resolved, so the producer was not cut off) and
  `ClosedDelivered` (a pausing producer closes after delivery) besides. Two theorems
  are what `EveryoneLearns` rests on, for any `N`. `NeverStuck`: until everyone has learnt
  the end, one of the fair steps has its guard open (`CanStep`). It needs `EndKnown`, that
  the peer's end and the result of the outermost message are one event; a result that is
  known there and not at the producer is held up at a relay, the least message that has
  it. `StepsAreUseful`: every step lowers `Work`, a count of wrappers, frames, ends and
  results to come. What TLC adds is that fairness then leads to the end.
* `PolicyPathProofs` (any set of paths, any limit). The invariant relates `decoded`,
  `from` and the part of `input` before `index`: every decoded byte is acceptable and
  comes from a literal or an escape in order, and every slash read so far was kept.
  `Idempotent` needs that the second pass reads a path in normal form, so that every
  step is a `Literal` that copies a byte. `MatchesReference` has an invariant of its
  own on top, `ReadSoFar`: the places behind `index` are well formed, no escape reaches
  over it, and the bytes pushed are what the kept places stand for; at the end of the
  loop `from` is a bijection that gives each kept place its rank. That the segment
  tests refuse what the reference's segments do is the lemma `SegmentsAgree`.
* `TerminalAuthnProofs` (any audiences, contexts, lifetimes and bounds).
  `AskedOnce` needs that a request still carrying a credential was never
  presented, hence that nothing was asked before.
* `RequestIdsProofs` (any threads, prefixes and width). The invariant says that at
  most one thread is in the initialiser, that nobody numbers before the prefix is
  stored or with another one, and how often each number was issued.

* `BrokerExchange`, in `AuthnRuntimeProofs` (any requests, tokens and paths).
  `Composed`: every step of the runtime joined with the mock broker is a step of the
  runtime or a stutter, so `BSpec => Spec` and every safety theorem above holds of the
  two together. `VerdictDelivered` needs more: `Coupled(r)` says, phase by phase, which
  states of the runtime's three futures go with which states of the broker's handler,
  writer and result task, and that what was answered is the broker's verdict on this
  request. `ComposedInv` is `IndInv`, the types and `Coupled` for every request; it was
  checked with TLC on the instance of `broker_exchange` first. `NobodyWaitsInACircle` is
  the safety part of `EndsUnaided` and `BrokerQuiesces`: an open exchange and an unfinished
  task of the broker have a step whose two sides are ready, or a timer to wait for
  (`CanMove`). It adds `Attended` (an answer under way has a writer with something left to
  write and a report that is awaited; a body sent to an unknown path is never taken), and
  assumes that the broker's answers are among `Reply`. On the instances of the two runs
  TLC finds `CanStep` and `CanMove` true exactly where the actions they stand for are
  enabled, a sleeping writer aside.
* `BoundaryProofs` (any set of cases whose fields are lists of lists of strings).
  The chain and the fused component never exchange anything, so `SameAnswer` can only
  follow from what each has computed at each point. `BoundaryInv` says exactly that:
  `ChainInv` gives the request, the identifier and the answer at every point of the chain
  as a function of the case, `FusedInv` does the same at the two awaits of the fused handler
  and for its result. The operator lemmas show that two ways of editing give one result: a diff of
  headers applied to the original is the desired list (`DiffIsDesired`), `apply_header_edits`
  sets what `set_header` sets, the two merges of `Vary` are one (`SameVary`), and merging keeps
  every token (`DistinctKeeps`, `MergeKeeps`), by way of the first place of a token
  (`FirstPlace`, from the well-foundedness of the naturals) and of ranks that tell places
  apart (`RankTells`). `TrustBoundary`, `NoBypass`, `AnswersMarked` and `CacheSafe` follow.
* `IdentityProofs` (any deployments, broker answers and foreign documents whose fields
  have the types of the wire structs: what serde does not let through is no document;
  any environment that gives every key a sequence of values; `NameAssumption`, that the
  names of fields are strings of some length, which the provers do not know). Ranks are an injection of the texts of a list into as many
  places, hence a bijection: a canonical list has the same texts, ascending, is no longer
  than the list and is canonical itself (`CanonicalPlaces`, `CanonicalKeeps`). So what
  was validated stays valid, a principal can be rebuilt from its own fields, and every context
  is read back as it was written (`PrincipalRebuilt`, `AnonymousRead`,
  `AuthenticatedRead`). `PathInv` distinguishes requests that the middleware serves, whose
  claims and context are functions of the answer and the deployment, from those of another ingress, and
  says that the verdict of the terminal service is about what the header decodes to.
  From it follow `RefusedForCause`, `IdentityKept`, `OnlySizeRefuses` and `DecodedSound`, and
  `ReencodingReadsTheSame`, the half of `ObjectsReencode` that does not depend on sizes.
  The other half, `ObjectsAreReencoded`, compares the length of a decoded document with that
  of the document made of what was decoded. Lengths are sums over lists, and the list that
  was decoded is in another order and has fewer items. A sum counts a set of places, one
  for each unit of each item (`TotalCounts`), so the places of the canonical list are an
  injective image of places of the list it was made from (`TotalOfSome`, `ListLens`). That
  a sum counts its places is the one induction over data: `Induction` derives it, for a
  property given as a set of numbers, from the well-foundedness of the naturals
  (`Smallest`). `FieldLens`, `OptionLens` and `PrincipalLens` carry the comparison through
  the document, and `EncodedLens` through base64.
  `ConfigInv` says that a configuration that is set is that of the environment;
  `AuthnConfigSafe` and `CorsConfigSafe` follow from the checks it passed (`AuthnChecks`,
  `CorsChecks`) and from the reading back of anonymous contexts.

Only model-checked:

* everything under fairness (`LockFree`, `ExchangeEnds`, `EveryoneLearns`,
  `EndsUnaided`, `BrokerQuiesces`), which is out of the prover's reach; what can be said
  of four of them without fairness is proved, as above.

## Assumptions and limits

* Code between two awaits takes no time, and the host gives the semantics of
  streams, futures and timers described above.
* The host validates header names and values before a guest runs, so the 400
  answers to fields that do not convert are unreachable; the chain tests every
  field and the fused component only those it reads.
* Names are lower case in `Fields`: the code compares them without case.
* `Boundary` generates one identifier per case; `RequestIds` shows that generated
  identifiers differ. The random source is not assumed to avoid collisions between
  instances, and nothing is claimed about them.

* Texts in `AuthContext` are classified, not spelled out: that `is_token` and
  `validate_text` recognise their character classes is not checked. Object documents
  are those of minimal length; blanks or escapes in them only make them longer.
* The broker of `BrokerExchange` is given what the runtime really sends, so its
  answers to invalid requests do not occur; `AuthnRuntime` covers them, as it lets a
  broker answer anything at any time.

Not modelled: the grammar of URIs and tokens; `passthrough`, one call without a
decision; the echo service's contract routes, which answer fixed texts; `headers.rs`
among the fuzz targets, whose assertions `boundary` covers; the build, audit and
release scripts, sequential checks over files; accessors and redacted `Debug` output.
A wall clock before the epoch is outside what `unix_time` can notice. One hazard has no
property: the code does not say whether a rejection must clear an identity installed by
an earlier call on the same request.

## Plan

1. Done: admission, the exchange, the relays and the echo, the boundary, the terminal
   crate, configuration, request identifiers, path normalisation, contexts and their
   way to the terminal service, and the exchange with the mock broker, each with the
   proofs of its safety properties.
2. Every invariant, action property and refinement that a run checks is a theorem. Left
   are the liveness properties themselves, which wait for a prover of `ENABLED` and
   fairness.
