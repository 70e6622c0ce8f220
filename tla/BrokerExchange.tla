---------------------------- MODULE BrokerExchange ----------------------------
(***************************************************************************)
(* The authentication runtime composed with the test broker                *)
(* (test-components/mock-authn-broker) through rendezvous streams and      *)
(* futures: a write completes when the other side reads, or when the other *)
(* side has dropped its end.  Every step of the runtime is an action of    *)
(* AuthnRuntime joined with the broker's half of it, so the behaviours     *)
(* here are behaviours of AuthnRuntime with a broker that follows its      *)
(* protocol.                                                               *)
(***************************************************************************)
EXTENDS AuthnRuntime

CONSTANTS
    Credential,     \* the bearer tokens sent
    Paths,          \* the paths a broker URL may be configured with
    MaxTime         \* bound: the last tick

ASSUME PathsAssumption == Paths \subseteq {"/authenticate", "other"}

VARIABLES
    path,           \* config.path_with_query
    credential,     \* the token of each request
    broker          \* the broker's tasks for each request: see Idle

bvars == <<path, credential, broker>>

\* handle: where the handler is (reading the body, its end, the trailers, writing
\* the result, answering, returned, failed); writer: the task that writes the
\* response body, with what is left and when it wakes; report: the task that
\* awaits the transmission result of the response.
Idle == [handle |-> "idle", writer |-> "none", left |-> 0, wake |-> 0, report |-> "none"]

BInit ==
    /\ Init
    /\ path \in Paths
    /\ credential \in [Request -> Credential]
    /\ broker = [r \in Request |-> Idle]

\* The answer to a token.  A unit of body is what one read takes: an object is
\* one unit, blanks pad it to the limit or past it, and the slow answer is an
\* object that is written one unit at a time.  The runtime always sends exactly
\* one authorization value and a complete BrokerRequestV1, so the 401 for none
\* and the 400 answers of handle do not occur.
Object(units, padded, body) ==
    [status |-> "200", size |-> padded, object |-> units, blanks |-> padded, body |-> body]

Empty(status) == [status |-> status, size |-> 0, object |-> 0, blanks |-> 0, body |-> "junk"]

Answers(token) ==
    CASE token \in {"allow", "readonly", "lowacr", "no-relation"} -> Object(1, 1, "claims")
      [] token = "slow" -> Object(Limit, Limit, "claims")
      [] token = "limit-ok" -> Object(1, Limit, "claims")
      [] token = "limit-over" -> Object(1, Limit + 1, "claims")
      [] token \in {"malformed", "invalid-identity"} -> Object(1, 1, "junk")
      [] token \in {"deny", "error"} -> Empty("other")
      [] OTHER -> Empty("401")

NotFound == Empty("other")

AnswerOf(r) == IF path = "/authenticate" THEN Answers(credential[r]) ELSE NotFound

\* The runtime has dropped its ends.
Gone(r) == pc[r] \in {"done", "cancelled"}

Becomes(r, b) == broker' = [broker EXCEPT ![r] = b] /\ UNCHANGED <<path, credential>>
Moves(r, handle) == Becomes(r, [broker[r] EXCEPT !.handle = handle])
-------------------------------------------------------------------------------
(* The request *)

\* handle is called; a wrong path is answered without reading the body.
Receive(r) ==
    /\ Sending(r) /\ broker[r].handle = "idle"
    /\ Moves(r, IF path = "/authenticate" THEN "reading" ELSE "answer")
    /\ UNCHANGED vars

\* write_body against the reads of collect_request.
TakeBody(r) ==
    /\ broker[r].handle = "reading"
    /\ WriteBody(r) /\ ex'[r].write = "written"
    /\ Moves(r, "read")

\* The stream was dropped by its writer.
SeeEnd(r) ==
    /\ broker[r].handle \in IF Gone(r) THEN {"reading", "read"} ELSE {"read"}
    /\ Moves(r, "trailers")
    /\ UNCHANGED vars

\* trailers.await
TakeTrailers(r) ==
    /\ broker[r].handle = "trailers"
    /\ PublishBodyResult(r) /\ ex'[r].write = "done"
    /\ Moves(r, "result")

\* The runtime went without writing: the future resolves to its default, an
\* error, and the result that reports it has no reader either.
TrailersNeverDefault(r) == FALSE /\ UNCHANGED <<vars, bvars>>

TrailersDefault(r) ==
    /\ broker[r].handle = "trailers" /\ Gone(r)
    /\ Moves(r, "error")
    /\ UNCHANGED vars

\* result_writer.write against await_transmission, or against nobody.
WriteResultDropped(r) ==
    /\ broker[r].handle = "result"
    /\ \/ Transmission(r) /\ pc'[r] = "done" /\ Moves(r, "answer")
       \/ Gone(r) /\ Moves(r, "error") /\ UNCHANGED vars

WriteResult(r) ==
    /\ broker[r].handle = "result"
    /\ \/ Transmission(r) /\ ex'[r].tx = "done" /\ Moves(r, "answer")
       \/ Gone(r) /\ Moves(r, "error") /\ UNCHANGED vars
-------------------------------------------------------------------------------
(* A request whose handler returned without reading it *)

Unread(r) == broker[r].handle = "returned" /\ path # "/authenticate"

WriteCut(r) ==
    /\ Unread(r)
    /\ \/ WriteBody(r) /\ ex'[r].write = "cut"
       \/ PublishBodyResult(r) /\ ex'[r].write # "done"
       \/ Transmission(r)
    /\ UNCHANGED bvars
-------------------------------------------------------------------------------
(* The response *)

AnsweredBy(r) ==
    [broker[r] EXCEPT !.handle = "returned", !.report = "waiting",
                      !.left = AnswerOf(r).size,
                      !.writer = IF AnswerOf(r).size = 0 THEN "done" ELSE "writing"]

\* response, sized_policy_response, slow_policy_response
Answer(r) ==
    /\ broker[r].handle = "answer"
    /\ \/ Respond(r) /\ reply'[r] = AnswerOf(r)
       \/ Gone(r) /\ UNCHANGED vars
    /\ Becomes(r, AnsweredBy(r))

\* The runtime reads one unit: within the limit, past it, or too late.
ReadUnit(r) ==
    /\ Chunk(r)
    /\ \/ ex'[r].len = ex[r].len + 1
       \/ ex[r].len = Limit /\ outcome'[r].stage = "BrokerProtocol"
       \/ ex[r].len < Limit /\ Expired(r) /\ outcome'[r].stage = "BrokerDeadline"

\* writer.write_all, and the wait between the chunks of the slow answer.
WriteUnit(r) ==
    /\ broker[r].writer = "writing" /\ broker[r].left > 0
    /\ ReadUnit(r)
    /\ Becomes(r, [broker[r] EXCEPT
           !.left = @ - 1,
           !.writer = CASE broker[r].left = 1 -> "publishing"
                        [] broker[r].left # 1 /\ credential[r] = "slow" -> "waiting"
                        [] OTHER -> "writing",
           !.wake = clock + 1])

Wake(r) ==
    /\ broker[r].writer = "waiting"
    /\ clock >= broker[r].wake \/ clock = MaxTime
    /\ Becomes(r, [broker[r] EXCEPT !.writer = "writing"])
    /\ UNCHANGED vars

\* The reader was dropped: write_all returns what is left and the task ends.
WriterStops(r) ==
    /\ broker[r].writer = "writing" /\ Gone(r)
    /\ Becomes(r, [broker[r] EXCEPT !.writer = "done"])
    /\ UNCHANGED vars

\* The stream is dropped by its writer, or there was none.
EndOfBody(r) ==
    /\ broker[r].writer \in {"publishing", "done"}
    /\ StreamEnd(r) /\ ex'[r].len = ex[r].len
    /\ UNCHANGED bvars

\* body_result_writer.write: the runtime drops the trailers unread.
WriterEnds(r) ==
    /\ broker[r].writer = "publishing"
    /\ Gone(r) \/ ex[r].send \in {"publishing", "done"}
    /\ Becomes(r, [broker[r] EXCEPT !.writer = "done"])
    /\ UNCHANGED vars

\* transmission_result.await of the response: the runtime's result, or an error.
TakeReport(r) ==
    /\ broker[r].report = "waiting"
    /\ \/ PublishCollected(r) /\ ex'[r].send = "done"
       \/ Gone(r) /\ UNCHANGED vars
    /\ Becomes(r, [broker[r] EXCEPT !.report = "done"])
-------------------------------------------------------------------------------
\* Steps of the runtime alone.
Alone(r) ==
    /\ \/ RejectMalformed(r) \/ NoCredentials(r) \/ RefuseAdmission(r) \/ Admit(r)
       \/ Deadline(r) \/ Cancel(r)
    /\ UNCHANGED bvars

BTick == clock < MaxTime /\ Tick /\ UNCHANGED bvars

Protocol(r) ==
    \/ Receive(r) \/ TakeBody(r) \/ SeeEnd(r) \/ TakeTrailers(r) \/ TrailersDefault(r)
    \/ WriteResult(r) \/ WriteCut(r) \/ Answer(r) \/ WriteUnit(r) \/ Wake(r)
    \/ WriterStops(r) \/ EndOfBody(r) \/ WriterEnds(r) \/ TakeReport(r)

BNext == BTick \/ \E r \in Request : Alone(r) \/ Protocol(r)

BSpec == BInit /\ [][BNext]_<<vars, bvars>>

\* Both components' tasks are polled when the other side wakes them, and time
\* passes.  The deadline is not needed and has no fairness here.
BFairSpec ==
    /\ BSpec
    /\ WF_<<vars, bvars>>(BTick)
    /\ \A r \in Request : WF_<<vars, bvars>>(Protocol(r))
-------------------------------------------------------------------------------
(* Properties *)

Expected(token) ==
    CASE Answers(token).status = "401" -> "InvalidCredentials"
      [] Answers(token).body = "claims" /\ Answers(token).size <= Limit -> "PassAuthenticated"
      [] OTHER -> "Unavailable"

\* With a broker that reads what it is sent, the outcome is the broker's verdict
\* on the token unless the exchange was not admitted or ran out of time: no order
\* of the three futures and of the broker's tasks turns it into a failure of the
\* transport.
VerdictDelivered == \A r \in Request :
    auth[r] = "text" /\ pc[r] = "done" /\ outcome[r].stage \notin {"BrokerDeadline", "Admission"} =>
        IF path = "/authenticate"
          THEN outcome[r].kind = Expected(credential[r]) /\ outcome[r].stage # "BrokerTransport"
          ELSE outcome[r].kind = "Unavailable"

\* Nobody waits for somebody who waits for them: with both sides following the
\* protocol an exchange ends although its deadline never comes.
EndsUnaided == \A r \in Request : pc[r] = "exchange" ~> pc[r] # "exchange"

\* The broker keeps no task: whenever and however the runtime leaves, by its
\* deadline and by cancellation too, handler, writer and report come to an end.
BrokerQuiesces == \A r \in Request :
    broker[r].handle # "idle" ~>
        /\ broker[r].handle \in {"returned", "error"}
        /\ broker[r].writer \in {"none", "done"} /\ broker[r].report \in {"none", "done"}
===============================================================================
