----------------------------- MODULE AuthnRuntime -----------------------------
(***************************************************************************)
(* crates/authn-runtime: the life of the requests that one component       *)
(* instance authenticates concurrently.  A request is classified, admitted *)
(* against the shared in-flight counter, and exchanged with the broker by  *)
(* three joined futures (send and collect, write the request body, await   *)
(* the transmission) under one deadline; the host may resolve them in any  *)
(* order, fail them, or never answer; the caller may drop the whole future.*)
(*                                                                         *)
(* A step runs from one await point to the next.  Taking a slot is atomic: *)
(* InFlightGuard shows that the compare-exchange loop is.  The code before *)
(* the first await takes no time.                                          *)
(***************************************************************************)
EXTENDS Integers, FiniteSets

CONSTANTS
    Request,    \* the requests, each authenticated once
    Mode,       \* config.mode
    Max,        \* config.max_in_flight
    Timeout,    \* config.timeout_ns, in ticks
    Limit,      \* MAX_BROKER_RESPONSE_SIZE, in units of body
    Reply,      \* the answers the broker may give
    LastStart   \* bound: no request is admitted after this tick

ASSUME RequestAssumption == IsFiniteSet(Request)
ASSUME ModeAssumption == Mode \in {"Required", "Optional"}
ASSUME MaxAssumption == Max \in Nat \ {0}
ASSUME TimeAssumption == Timeout \in Nat \ {0} /\ LastStart \in Nat
ASSUME LimitAssumption == Limit \in Nat \ {0}

\* A broker answer: its status class ("bad": not a status code), the size of
\* its body, where the JSON object in it ends, where the blanks behind the object
\* end, and what the object is: claims that can be forwarded, claims whose encoded
\* context is refused, or nothing that is accepted.  What follows the blanks is
\* not JSON, so a prefix of the body parses if it ends in the blanks.
Replies ==
    {a \in [status : {"200", "401", "other", "bad"},
            size : Nat, object : Nat, blanks : Nat,
            body : {"claims", "unencodable", "junk"}] :
        /\ a.object <= a.blanks /\ a.blanks <= a.size
        /\ a.body # "junk" => a.object > 0}

ASSUME ReplyAssumption == Reply \subseteq Replies

VARIABLES
    clock,      \* monotonic_clock::now
    inFlight,   \* IN_FLIGHT
    auth,       \* what the request carries in Authorization
    pc,         \* new, exchange (holding a guard), done, cancelled
    ex,         \* the state of the exchange: see Exchange
    reply,      \* the broker's answer
    outcome     \* what authenticate_with_diagnostics returned

vars == <<clock, inFlight, auth, pc, ex, reply, outcome>>

\* send: the send-and-collect future; write: the body writer ("written" and
\* "cut" still have their result to publish); tx: the transmission result;
\* len: bytes collected.  late is a history variable: the number of chunks
\* taken after the deadline.
Exchange == [started : Nat,
             send : {"sending", "reading", "publishing", "done"},
             write : {"writing", "written", "cut", "done"},
             tx : {"waiting", "done"},
             len : 0..Limit,
             late : Nat]

NewExchange(now) == [started |-> now, send |-> "sending", write |-> "writing",
                     tx |-> "waiting", len |-> 0, late |-> 0]

NoReply == [status |-> "none", size |-> 0, object |-> 0, blanks |-> 0, body |-> "junk"]

Stages == {"none", "InvalidRequest", "MissingCredentials", "Admission",
           "BrokerTransport", "BrokerDeadline", "BrokerProtocol", "ContextEncoding"}

Outcomes == [kind : {"none", "PassAnonymous", "PassAuthenticated", "InvalidRequest",
                     "MissingCredentials", "InvalidCredentials", "Unavailable"},
             stage : Stages]

NoOutcome == [kind |-> "none", stage |-> "none"]
Unavailable(stage) == [kind |-> "Unavailable", stage |-> stage]

Init ==
    /\ clock = 0
    /\ inFlight = 0
    /\ auth \in [Request -> {"absent", "text", "malformed"}]
    /\ pc = [r \in Request |-> "new"]
    /\ ex = [r \in Request |-> NewExchange(0)]
    /\ reply = [r \in Request |-> NoReply]
    /\ outcome = [r \in Request |-> NoOutcome]
-----------------------------------------------------------------------------
(* Returning *)

\* Return without having held a slot.
ReturnEarly(r, o) ==
    /\ pc' = [pc EXCEPT ![r] = "done"]
    /\ outcome' = [outcome EXCEPT ![r] = o]
    /\ UNCHANGED <<clock, inFlight, auth, ex, reply>>

\* Leave the exchange: the guard is dropped on every path.
LeaveKeepsSlot(r, where) ==
    /\ pc' = [pc EXCEPT ![r] = where]
    /\ UNCHANGED inFlight

Leave(r, where) ==
    /\ pc' = [pc EXCEPT ![r] = where]
    /\ inFlight' = inFlight - 1

ErrorStage == [Transport |-> "BrokerTransport", Deadline |-> "BrokerDeadline",
               Serialization |-> "BrokerProtocol", InvalidStatus |-> "BrokerProtocol",
               ResponseBody |-> "BrokerProtocol"]

\* The three futures are dropped, with what they had collected.
DropExchange(r) == ex' = [ex EXCEPT ![r] = NewExchange(@.started)]

FailOpen(r, error) ==
    /\ Leave(r, "done")
    /\ DropExchange(r)
    /\ outcome' = [outcome EXCEPT ![r] =
           IF Mode = "Optional" THEN [kind |-> "PassAnonymous", stage |-> "none"]
                                ELSE Unavailable(ErrorStage[error])]
    /\ UNCHANGED <<clock, auth>>

\* An error of one future fails the join, which drops the other two.
Fail(r, error) ==
    /\ Leave(r, "done")
    /\ DropExchange(r)
    /\ outcome' = [outcome EXCEPT ![r] = Unavailable(ErrorStage[error])]
    /\ UNCHANGED <<clock, auth>>

\* serde_json::from_slice and authenticated_claims on the first len units: the
\* object whole, and only blanks after it.
Accepted(a, len) == len \in a.object..a.blanks /\ a.body # "junk"

\* The decision that the collected prefix of the broker's answer amounts to.
parse_authn_response_forbidden_as_401(a, len) ==
    CASE a.status = "200" /\ Accepted(a, len) -> "Allow"
      [] a.status \in {"401", "other"} -> "Unauthenticated"
      [] OTHER -> "Unavailable"

parse_authn_response(a, len) ==
    CASE a.status = "200" /\ Accepted(a, len) -> "Allow"
      [] a.status = "401" -> "Unauthenticated"
      [] OTHER -> "Unavailable"

\* What is made of it: allowed claims still have to be encoded as a context.
Decide(a, len) ==
    LET decision == parse_authn_response(a, len)
    IN  CASE decision = "Unauthenticated" ->
               [kind |-> "InvalidCredentials", stage |-> "none"]
          [] decision = "Unavailable" -> Unavailable("BrokerProtocol")
          [] decision = "Allow" /\ a.body = "claims" ->
               [kind |-> "PassAuthenticated", stage |-> "none"]
          [] OTHER -> Unavailable("ContextEncoding")

JoinedOnSend(e) == e.send = "done"

Joined(e) == e.send = "done" /\ e.write = "done" /\ e.tx = "done"

\* One of the three futures reaches its next state; the last one to complete
\* completes the join within the same poll.
Advance(r, e) ==
    /\ ex' = [ex EXCEPT ![r] = e]
    /\ UNCHANGED <<clock, auth>>
    /\ IF Joined(e)
         THEN Leave(r, "done") /\ outcome' = [outcome EXCEPT ![r] = Decide(reply[r], e.len)]
         ELSE UNCHANGED <<pc, inFlight, outcome>>
-----------------------------------------------------------------------------
(* authenticate_with_diagnostics, up to the first await *)

RejectMalformed(r) ==
    /\ pc[r] = "new" /\ auth[r] = "malformed"
    /\ ReturnEarly(r, [kind |-> "InvalidRequest", stage |-> "InvalidRequest"])

NoCredentials(r) ==
    /\ pc[r] = "new" /\ auth[r] = "absent"
    /\ ReturnEarly(r, IF Mode = "Optional"
                        THEN [kind |-> "PassAnonymous", stage |-> "none"]
                        ELSE [kind |-> "MissingCredentials", stage |-> "MissingCredentials"])

RefuseAdmissionEarly(r) ==
    /\ pc[r] = "new" /\ auth[r] = "text"
    /\ inFlight >= Max - 1
    /\ ReturnEarly(r, Unavailable("Admission"))

RefuseAdmission(r) ==
    /\ pc[r] = "new" /\ auth[r] = "text"
    /\ inFlight >= Max
    /\ ReturnEarly(r, Unavailable("Admission"))

\* The broker request cannot be serialized or built: the slot is taken and
\* given back before anything else runs.
BuildFails(r) ==
    /\ pc[r] = "new" /\ auth[r] = "text"
    /\ inFlight < Max
    /\ \E error \in {"Serialization", "Transport"} :
           ReturnEarly(r, Unavailable(ErrorStage[error]))

Admit(r) ==
    /\ pc[r] = "new" /\ auth[r] = "text"
    /\ inFlight < Max
    /\ clock <= LastStart
    /\ inFlight' = inFlight + 1
    /\ pc' = [pc EXCEPT ![r] = "exchange"]
    /\ ex' = [ex EXCEPT ![r] = NewExchange(clock)]
    /\ UNCHANGED <<clock, auth, reply, outcome>>
-----------------------------------------------------------------------------
(* with_deadline *)

ExpiredSinceLoad(r) == clock >= Timeout

Expired(r) == clock >= ex[r].started + Timeout

\* The timer fires while the exchange is pending.  A future that is ready at
\* the same poll wins: its action is enabled too.
NoDeadline(r) == FALSE /\ UNCHANGED vars

Deadline(r) ==
    /\ pc[r] = "exchange"
    /\ Expired(r)
    /\ Fail(r, "Deadline")
    /\ UNCHANGED reply

\* A read of the response body begins only with time left.
BeginReadFreshTimeout(r, e) == Advance(r, e)

BeginRead(r, e) == IF Expired(r) THEN Fail(r, "Deadline") ELSE Advance(r, e)
-----------------------------------------------------------------------------
(* send_and_collect *)

Sending(r) == pc[r] = "exchange" /\ ex[r].send = "sending"
Reading(r) == pc[r] = "exchange" /\ ex[r].send = "reading"

SendFails(r) == Sending(r) /\ Fail(r, "Transport") /\ UNCHANGED reply

Respond(r) ==
    /\ Sending(r)
    /\ \E a \in Reply :
        /\ reply' = [reply EXCEPT ![r] = a]
        /\ IF a.status = "bad"
             THEN Fail(r, "InvalidStatus")
             ELSE BeginRead(r, [ex[r] EXCEPT !.send = "reading"])

\* A chunk of n units arrives, possibly with the end of the stream.
Collect(r, n) ==
    [ex[r] EXCEPT !.len = @ + n, !.late = IF Expired(r) THEN @ + 1 ELSE @]

ChunkUnlimited(r) ==
    /\ Reading(r)
    /\ \E n \in 0..(reply[r].size - ex[r].len) : BeginRead(r, Collect(r, n))
    /\ UNCHANGED reply

Chunk(r) ==
    /\ Reading(r)
    /\ \E n \in 0..(reply[r].size - ex[r].len) :
        IF ex[r].len + n > Limit
          THEN Fail(r, "ResponseBody")
          ELSE BeginRead(r, Collect(r, n))
    /\ UNCHANGED reply

\* The stream closes: the end of the body, or a connection cut before it (the
\* code drops the trailers that would tell).
StreamEnd(r) ==
    /\ Reading(r)
    /\ \E n \in 0..(reply[r].size - ex[r].len) :
        IF ex[r].len + n > Limit
          THEN Fail(r, "ResponseBody")
          ELSE Advance(r, [Collect(r, n) EXCEPT !.send = "publishing"])
    /\ UNCHANGED reply

ReadCancelled(r) == Reading(r) /\ Fail(r, "ResponseBody") /\ UNCHANGED reply

\* The response's body result is written, or the host has dropped its reader.
PublishCollected(r) ==
    /\ pc[r] = "exchange" /\ ex[r].send = "publishing"
    /\ Advance(r, [ex[r] EXCEPT !.send = "done"]) \/ Fail(r, "ResponseBody")
    /\ UNCHANGED reply
-----------------------------------------------------------------------------
(* write_body and await_transmission *)

WriteBody(r) ==
    /\ pc[r] = "exchange" /\ ex[r].write = "writing"
    /\ \E w \in {"written", "cut"} : Advance(r, [ex[r] EXCEPT !.write = w])
    /\ UNCHANGED reply

PublishBodyResult(r) ==
    /\ pc[r] = "exchange" /\ ex[r].write \in {"written", "cut"}
    /\ \/ ex[r].write = "written" /\ Advance(r, [ex[r] EXCEPT !.write = "done"])
       \/ Fail(r, "Transport")
    /\ UNCHANGED reply

TransmissionAfterSend(r) ==
    /\ pc[r] = "exchange" /\ ex[r].tx = "waiting" /\ ex[r].send = "done"
    /\ Advance(r, [ex[r] EXCEPT !.tx = "done"]) \/ Fail(r, "Transport")
    /\ UNCHANGED reply

Transmission(r) ==
    /\ pc[r] = "exchange" /\ ex[r].tx = "waiting"
    /\ Advance(r, [ex[r] EXCEPT !.tx = "done"]) \/ Fail(r, "Transport")
    /\ UNCHANGED reply
-----------------------------------------------------------------------------
(* The caller drops the future at one of its awaits; time passes. *)

CancelKeepsSlot(r) ==
    /\ pc[r] = "exchange"
    /\ LeaveKeepsSlot(r, "cancelled")
    /\ DropExchange(r)
    /\ UNCHANGED <<clock, auth, reply, outcome>>

Cancel(r) ==
    /\ pc[r] = "exchange"
    /\ Leave(r, "cancelled")
    /\ DropExchange(r)
    /\ UNCHANGED <<clock, auth, reply, outcome>>

Tick ==
    /\ clock < LastStart + Timeout
    /\ clock' = clock + 1
    /\ UNCHANGED <<inFlight, auth, pc, ex, reply, outcome>>

Step(r) ==
    \/ RejectMalformed(r) \/ NoCredentials(r) \/ RefuseAdmission(r)
    \/ BuildFails(r) \/ Admit(r)
    \/ Deadline(r) \/ SendFails(r) \/ Respond(r)
    \/ Chunk(r) \/ StreamEnd(r) \/ ReadCancelled(r) \/ PublishCollected(r)
    \/ WriteBody(r) \/ PublishBodyResult(r) \/ Transmission(r)
    \/ Cancel(r)

Next == Tick \/ \E r \in Request : Step(r)

Spec == Init /\ [][Next]_vars

\* Time passes and an expired timer wakes its task.  Nothing is assumed of the
\* broker, of the host's streams and futures, or of the caller.
FairSpec == Spec /\ WF_vars(Tick) /\ \A r \in Request : WF_vars(Deadline(r))
-----------------------------------------------------------------------------
(* Properties *)

\* Every variable has its type; in particular output.len() never exceeds
\* MAX_BROKER_RESPONSE_SIZE, however the broker slices its body.
TypeOK ==
    /\ clock \in Nat
    /\ inFlight \in Nat
    /\ auth \in [Request -> {"absent", "text", "malformed"}]
    /\ pc \in [Request -> {"new", "exchange", "done", "cancelled"}]
    /\ ex \in [Request -> Exchange]
    /\ reply \in [Request -> Reply \cup {NoReply}]
    /\ outcome \in [Request -> Outcomes]

Holders == {r \in Request : pc[r] = "exchange"}

\* The shared counter is the number of requests inside the exchange: success,
\* every error, the deadline and cancellation all give the slot back once.
SlotsConserved == inFlight = Cardinality(Holders) /\ inFlight <= Max

\* A request passes as authenticated only if it carried one usable credential,
\* the broker answered 200 to it with forwardable claims, the object that holds
\* them was collected whole, with nothing but blanks behind it, and the request
\* body and its transmission had succeeded: no partial failure of the exchange
\* lets it through.  A connection that is cut in the blanks is not noticed.
AuthenticatedJustified == \A r \in Request :
    outcome[r].kind = "PassAuthenticated" =>
        /\ auth[r] = "text"
        /\ reply[r].status = "200" /\ reply[r].body = "claims"
        /\ ex[r].len \in reply[r].object..reply[r].blanks
        /\ ex[r].write = "done" /\ ex[r].tx = "done"

\* A supplied credential is never downgraded to anonymous access: a request
\* passes as anonymous only without credentials and only in Optional mode.
NoDowngrade == \A r \in Request :
    outcome[r].kind = "PassAnonymous" => auth[r] = "absent" /\ Mode = "Optional"

\* A client is told that its credentials are bad only when the broker said so:
\* overload, timeouts and a faulty broker (its 403 too) answer 503.
BlameDeserved == \A r \in Request :
    outcome[r].kind = "InvalidCredentials" => reply[r].status = "401"

\* The deadline is absolute and the exchange's own.  A broker that keeps dripping
\* its answer cannot outlive it: once it has passed, at most the read that was
\* already pending still delivers.  And it is never reported earlier, whenever
\* the instance or another exchange started.
DeadlineKept == \A r \in Request :
    /\ ex[r].late <= 1
    /\ outcome[r].stage = "BrokerDeadline" => clock >= ex[r].started + Timeout

AbstractPhase ==
    [r \in Request |-> IF pc[r] = "exchange" THEN "holding"
                       ELSE IF outcome[r].stage = "Admission" THEN "refused"
                       ELSE "idle"]

A == INSTANCE Admission WITH Client <- Request, Max <- Max, phase <- AbstractPhase

\* Requests are admitted and refused as Admission says: 503 for lack of a slot
\* is returned only while max_in_flight exchanges are running.
ImplementsAdmission == A!AdmissionSpec

\* An exchange always ends, even with a broker that never answers.
ExchangeEnds == \A r \in Request : pc[r] = "exchange" ~> pc[r] # "exchange"
=============================================================================
