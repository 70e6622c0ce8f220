-------------------------- MODULE AuthnRuntimeProofs --------------------------
(***************************************************************************)
(* AuthnRuntime for every finite set of requests, every configuration and  *)
(* every set of broker answers.  The safety properties speak of requests   *)
(* that have returned; what makes them inductive is what holds of the ones *)
(* still running: only a request with a credential is in the exchange, it  *)
(* has no outcome yet, and it has taken no chunk after its deadline while  *)
(* it can still start a read.                                              *)
(*                                                                         *)
(* The composition with the test broker follows: it takes no step that     *)
(* AuthnRuntime does not allow, and where the handler of the broker is     *)
(* tells how far each of the three futures of the exchange has come.       *)
(***************************************************************************)
EXTENDS BrokerExchange, FiniteSetTheorems, TLAPS

\* What is known of one request.
Local(r) ==
    /\ pc[r] # "done" => outcome[r] = NoOutcome
    /\ pc[r] = "exchange" => auth[r] = "text"
    /\ ex[r].late <= 1
    /\ ex[r].send \in {"sending", "reading"} => ex[r].late = 0
    /\ outcome[r].kind = "PassAuthenticated" =>
        /\ auth[r] = "text"
        /\ reply[r].status = "200" /\ reply[r].body = "claims"
        /\ ex[r].len \in reply[r].object..reply[r].blanks
        /\ ex[r].write = "done" /\ ex[r].tx = "done"
    /\ outcome[r].kind = "PassAnonymous" => auth[r] = "absent" /\ Mode = "Optional"
    /\ outcome[r].kind = "InvalidCredentials" => reply[r].status = "401"
    /\ outcome[r].stage = "BrokerDeadline" => clock >= ex[r].started + Timeout

IndInv == TypeOK /\ SlotsConserved /\ \A r \in Request : Local(r)

\* The requests in the exchange can be counted.
LEMMA HoldersFinite == IsFiniteSet(Holders) /\ Cardinality(Holders) \in Nat
<1>1. Holders \subseteq Request
  BY DEF Holders
<1>2. IsFiniteSet(Holders)
  BY <1>1, RequestAssumption, FS_Subset
<1>. QED
  BY <1>2, FS_CardinalityType

\* Nothing about a request changes while its variables keep their values: time
\* only moves forward.
LEMMA LocalFrame ==
  ASSUME TypeOK, NEW q \in Request, Local(q),
         pc'[q] = pc[q], outcome'[q] = outcome[q], auth'[q] = auth[q],
         ex'[q] = ex[q], reply'[q] = reply[q],
         clock' \in Nat, clock' >= clock
  PROVE  Local(q)'
<1>1. ex[q].started \in Nat
  BY DEF TypeOK, Exchange
<1>. QED
  BY <1>1, TimeAssumption DEF Local, TypeOK

\* The initial exchange has the type of an exchange.
LEMMA NewExchangeType ==
  ASSUME NEW now \in Nat
  PROVE  NewExchange(now) \in Exchange
  BY LimitAssumption DEF NewExchange, Exchange

\* Before the first request the invariant holds.
LEMMA InitIndInv == Init => IndInv
<1>. SUFFICES ASSUME Init PROVE IndInv
  OBVIOUS
<1>1. TypeOK
  <2>1. NewExchange(0) \in Exchange
    BY NewExchangeType
  <2>. QED
    BY <2>1 DEF Init, TypeOK, Outcomes, NoOutcome, Stages
<1>2. SlotsConserved
  <2>1. Holders = {}
    BY DEF Init, Holders
  <2>. QED
    BY <2>1, FS_EmptySet, MaxAssumption DEF Init, SlotsConserved
<1>3. ASSUME NEW r \in Request PROVE Local(r)
  BY DEF Init, Local, NoOutcome, NewExchange
<1>. QED
  BY <1>1, <1>2, <1>3 DEF IndInv
-----------------------------------------------------------------------------
\* Leaving the exchange gives exactly one slot back.
LEMMA LeaveSlots ==
  ASSUME TypeOK, SlotsConserved, NEW r \in Request, pc[r] = "exchange",
         NEW w \in {"done", "cancelled"}, Leave(r, w)
  PROVE  SlotsConserved' /\ inFlight' \in Nat
<1>1. Holders' = Holders \ {r} /\ r \in Holders
  BY DEF Holders, Leave, TypeOK
<1>2. Cardinality(Holders') = Cardinality(Holders) - 1
  BY <1>1, HoldersFinite, FS_RemoveElement
<1>3. Cardinality(Holders') \in Nat
  BY <1>1, HoldersFinite, FS_RemoveElement, FS_CardinalityType
<1>4. inFlight' = inFlight - 1
  BY DEF Leave
<1>. QED
  BY <1>2, <1>3, <1>4, MaxAssumption DEF SlotsConserved, TypeOK

\* Returning before admission disturbs no slot.
LEMMA EarlyInv ==
  ASSUME IndInv, NEW r \in Request, pc[r] = "new",
         NEW o \in Outcomes, ReturnEarly(r, o),
         o.kind \notin {"PassAuthenticated", "InvalidCredentials"},
         o.kind = "PassAnonymous" => auth[r] = "absent" /\ Mode = "Optional",
         o.stage # "BrokerDeadline"
  PROVE  IndInv'
<1>. USE DEF IndInv, ReturnEarly
<1>1. TypeOK'
  BY DEF TypeOK
<1>2. Holders' = Holders
  BY DEF Holders, TypeOK
<1>3. SlotsConserved'
  BY <1>2 DEF SlotsConserved
<1>4. Local(r)'
  BY DEF Local, TypeOK
<1>5. ASSUME NEW q \in Request, q # r PROVE Local(q)'
  BY <1>5, LocalFrame DEF TypeOK
<1>. QED
  BY <1>1, <1>3, <1>4, <1>5

\* reply may change for r alone.
ReplyStep(r) ==
    /\ reply' \in [Request -> Reply \cup {NoReply}]
    /\ \A q \in Request : q # r => reply'[q] = reply[q]

\* Every error ends the exchange with Unavailable and a slot given back.
LEMMA FailInv ==
  ASSUME IndInv, NEW r \in Request, pc[r] = "exchange",
         NEW error \in {"Transport", "Deadline", "InvalidStatus", "ResponseBody"},
         error = "Deadline" => Expired(r),
         Fail(r, error), ReplyStep(r)
  PROVE  IndInv'
<1>. USE DEF IndInv, ReplyStep
<1>0. ex[r].started \in Nat
  BY DEF TypeOK, Exchange
<1>1. SlotsConserved' /\ inFlight' \in Nat
  BY LeaveSlots DEF Fail
<1>2. Unavailable(ErrorStage[error]) \in Outcomes
  BY DEF Unavailable, ErrorStage, Outcomes, Stages
<1>3. TypeOK'
  BY <1>0, <1>1, <1>2, NewExchangeType DEF TypeOK, Fail, Leave, DropExchange
<1>4. Local(r)'
  <2>1. pc'[r] = "done" /\ ex'[r] = NewExchange(ex[r].started) /\ clock' = clock
    BY DEF Fail, Leave, DropExchange, TypeOK
  <2>2. outcome'[r].kind = "Unavailable" /\ outcome'[r].stage = ErrorStage[error]
    BY DEF Fail, TypeOK, Unavailable
  <2>3. ErrorStage[error] = "BrokerDeadline" => error = "Deadline"
    BY DEF ErrorStage
  <2>. QED
    BY <2>1, <2>2, <2>3 DEF Local, NewExchange, Expired
<1>5. ASSUME NEW q \in Request, q # r PROVE Local(q)'
  BY <1>5, LocalFrame DEF Fail, Leave, DropExchange, TypeOK
<1>. QED
  BY <1>1, <1>3, <1>4, <1>5

\* What the broker's answer is turned into.
LEMMA DecideFacts ==
  ASSUME NEW a, NEW len
  PROVE  /\ Decide(a, len) \in Outcomes
         /\ Decide(a, len).stage \notin {"BrokerDeadline", "Admission"}
         /\ Decide(a, len).kind # "PassAnonymous"
         /\ Decide(a, len).kind = "PassAuthenticated" =>
                a.status = "200" /\ len \in a.object..a.blanks /\ a.body = "claims"
         /\ Decide(a, len).kind = "InvalidCredentials" => a.status = "401"
  BY DEF Decide, parse_authn_response, Accepted, Outcomes, Stages, Unavailable

\* A future that goes on, or completes the join.
LEMMA AdvanceInv ==
  ASSUME IndInv, NEW r \in Request, pc[r] = "exchange",
         NEW e \in Exchange, e.started = ex[r].started, e.late <= 1,
         e.send \in {"sending", "reading"} => e.late = 0,
         Joined(e) => reply'[r] = reply[r],
         Advance(r, e), ReplyStep(r)
  PROVE  IndInv'
<1>. USE DEF IndInv, ReplyStep
<1>1. ASSUME NEW q \in Request, q # r PROVE Local(q)'
  BY <1>1, LocalFrame DEF Advance, Leave, TypeOK
<1>2. CASE Joined(e)
  <2>1. SlotsConserved' /\ inFlight' \in Nat
    BY <1>2, LeaveSlots DEF Advance
  <2>2. TypeOK'
    <3>1. Decide(reply[r], e.len) \in Outcomes
      BY DecideFacts
    <3>. QED
      BY <1>2, <2>1, <3>1 DEF TypeOK, Advance, Leave
  <2>3. Local(r)'
    <3>1. pc'[r] = "done" /\ ex'[r] = e /\ auth'[r] = "text"
      BY <1>2 DEF Advance, Leave, TypeOK, Local
    <3>2. outcome'[r] = Decide(reply'[r], e.len)
      BY <1>2 DEF Advance, TypeOK
    <3>. QED
      BY <1>2, <3>1, <3>2, DecideFacts DEF Local, Joined
  <2>. QED
    BY <1>1, <2>1, <2>2, <2>3
<1>3. CASE ~Joined(e)
  <2>1. TypeOK'
    BY <1>3 DEF TypeOK, Advance
  <2>2. Holders' = Holders
    BY <1>3 DEF Advance, Holders
  <2>3. SlotsConserved'
    BY <1>3, <2>2 DEF SlotsConserved, Advance
  <2>4. Local(r)'
    <3>1. pc'[r] = "exchange" /\ ex'[r] = e /\ auth'[r] = "text"
      BY <1>3 DEF Advance, TypeOK, Local
    <3>2. outcome'[r] = NoOutcome
      BY <1>3 DEF Advance, Local
    <3>. QED
      BY <3>1, <3>2 DEF Local, NoOutcome
  <2>. QED
    BY <1>1, <2>1, <2>3, <2>4
<1>. QED
  BY <1>2, <1>3

\* A read that begins after the deadline fails; otherwise the future goes on.
LEMMA BeginReadInv ==
  ASSUME IndInv, NEW r \in Request, pc[r] = "exchange",
         NEW e \in Exchange, e.started = ex[r].started, e.send = "reading",
         ~Expired(r) => e.late = 0,
         BeginRead(r, e), ReplyStep(r)
  PROVE  IndInv'
<1>1. CASE Expired(r)
  BY <1>1, FailInv DEF BeginRead
<1>2. CASE ~Expired(r)
  BY <1>2, AdvanceInv DEF BeginRead, Joined
<1>. QED
  BY <1>1, <1>2

\* What a chunk of the answer does to the exchange.
LEMMA CollectFacts ==
  ASSUME TypeOK, NEW r \in Request, Local(r), Reading(r),
         NEW n \in Nat, ex[r].len + n <= Limit
  PROVE  /\ Collect(r, n) \in Exchange
         /\ Collect(r, n).started = ex[r].started
         /\ Collect(r, n).send = "reading"
         /\ Collect(r, n).late <= 1
         /\ ~Expired(r) => Collect(r, n).late = 0
         /\ [Collect(r, n) EXCEPT !.send = "publishing"] \in Exchange
         /\ [Collect(r, n) EXCEPT !.send = "publishing"].started = ex[r].started
         /\ [Collect(r, n) EXCEPT !.send = "publishing"].send = "publishing"
         /\ [Collect(r, n) EXCEPT !.send = "publishing"].late <= 1
<1>1. ex[r] \in Exchange /\ ex[r].late = 0
  BY DEF TypeOK, Local, Reading
<1>. DEFINE c == Collect(r, n)
            late == IF Expired(r) THEN ex[r].late + 1 ELSE ex[r].late
<1>2. /\ ex[r].len + n \in 0..Limit /\ late \in Nat /\ late <= 1
      /\ ~Expired(r) => late = 0
  BY <1>1, LimitAssumption DEF Exchange
<1>3. c = [ex[r] EXCEPT !.len = ex[r].len + n, !.late = late]
  BY DEF Collect
<1>. HIDE DEF late
<1>4. /\ c \in Exchange /\ c.started = ex[r].started
      /\ c.send = "reading" /\ c.late = late
  BY <1>1, <1>2, <1>3 DEF Exchange, Reading
<1>. HIDE DEF c
<1>5. /\ [c EXCEPT !.send = "publishing"] \in Exchange
      /\ [c EXCEPT !.send = "publishing"].started = ex[r].started
      /\ [c EXCEPT !.send = "publishing"].send = "publishing"
      /\ [c EXCEPT !.send = "publishing"].late = late
  BY <1>4 DEF Exchange
<1>. QED
  BY <1>2, <1>4, <1>5 DEF c
-----------------------------------------------------------------------------
\* Every step preserves the inductive invariant.
LEMMA NextIndInv == IndInv /\ [Next]_vars => IndInv'
<1>. SUFFICES ASSUME IndInv, [Next]_vars PROVE IndInv'
  OBVIOUS
<1>. USE DEF IndInv
<1>1. ASSUME NEW r \in Request, RejectMalformed(r) PROVE IndInv'
  BY <1>1, EarlyInv DEF RejectMalformed, Outcomes, Stages
<1>2. ASSUME NEW r \in Request, NoCredentials(r) PROVE IndInv'
  <2>1. CASE Mode = "Optional"
    BY <1>2, <2>1, EarlyInv DEF NoCredentials, Outcomes, Stages
  <2>2. CASE Mode # "Optional"
    BY <1>2, <2>2, EarlyInv DEF NoCredentials, Outcomes, Stages
  <2>. QED
    BY <2>1, <2>2
<1>3. ASSUME NEW r \in Request, RefuseAdmission(r) PROVE IndInv'
  BY <1>3, EarlyInv DEF RefuseAdmission, Unavailable, Outcomes, Stages
<1>4. ASSUME NEW r \in Request, BuildFails(r) PROVE IndInv'
  <2>1. PICK error \in {"Serialization", "Transport"} :
            ReturnEarly(r, Unavailable(ErrorStage[error]))
    BY <1>4 DEF BuildFails
  <2>2. ErrorStage[error] \in {"BrokerProtocol", "BrokerTransport"}
    BY DEF ErrorStage
  <2>. QED
    BY <1>4, <2>1, <2>2, EarlyInv DEF BuildFails, Unavailable, Outcomes, Stages
<1>5. ASSUME NEW r \in Request, Admit(r) PROVE IndInv'
  <2>1. TypeOK'
    BY <1>5, NewExchangeType DEF TypeOK, Admit
  <2>2. Holders' = Holders \cup {r} /\ r \notin Holders
    BY <1>5 DEF Admit, Holders, TypeOK
  <2>3. Cardinality(Holders') = Cardinality(Holders) + 1
    BY <2>2, HoldersFinite, FS_AddElement
  <2>4. SlotsConserved'
    <3>1. inFlight' = inFlight + 1 /\ inFlight < Max
      BY <1>5 DEF Admit
    <3>. QED
      BY <2>3, <3>1, MaxAssumption DEF SlotsConserved, TypeOK
  <2>5. Local(r)'
    BY <1>5 DEF Admit, Local, TypeOK, NewExchange, NoOutcome
  <2>6. ASSUME NEW q \in Request, q # r PROVE Local(q)'
    BY <1>5, <2>6, LocalFrame DEF Admit, TypeOK
  <2>. QED
    BY <2>1, <2>4, <2>5, <2>6
<1>6. ASSUME NEW r \in Request, Deadline(r) PROVE IndInv'
  BY <1>6, FailInv DEF Deadline, ReplyStep, TypeOK
<1>7. ASSUME NEW r \in Request, SendFails(r) PROVE IndInv'
  BY <1>7, FailInv DEF SendFails, Sending, ReplyStep, TypeOK
<1>8. ASSUME NEW r \in Request, Respond(r) PROVE IndInv'
  <2>1. PICK a \in Reply :
            /\ reply' = [reply EXCEPT ![r] = a]
            /\ IF a.status = "bad"
                 THEN Fail(r, "InvalidStatus")
                 ELSE BeginRead(r, [ex[r] EXCEPT !.send = "reading"])
    BY <1>8 DEF Respond
  <2>2. ReplyStep(r)
    BY <2>1 DEF ReplyStep, TypeOK
  <2>3. ex[r] \in Exchange /\ ex[r].send = "sending" /\ ex[r].late = 0
    BY <1>8 DEF Respond, Sending, TypeOK, Local
  <2>. DEFINE e == [ex[r] EXCEPT !.send = "reading"]
  <2>4. e \in Exchange /\ e.started = ex[r].started /\ e.send = "reading" /\ e.late = 0
    BY <2>3 DEF Exchange
  <2>5. CASE a.status = "bad"
    BY <1>8, <2>1, <2>2, <2>5, FailInv DEF Respond, Sending
  <2>6. CASE a.status # "bad"
    <3>1. BeginRead(r, e)
      BY <2>1, <2>6
    <3>. HIDE DEF e
    <3>. QED
      BY <1>8, <2>2, <2>4, <3>1, BeginReadInv DEF Respond, Sending
  <2>. QED
    BY <2>5, <2>6
<1>9. ASSUME NEW r \in Request, Chunk(r) PROVE IndInv'
  <2>1. PICK n \in 0..(reply[r].size - ex[r].len) :
            IF ex[r].len + n > Limit
              THEN Fail(r, "ResponseBody")
              ELSE BeginRead(r, Collect(r, n))
    BY <1>9 DEF Chunk
  <2>2. ReplyStep(r) /\ pc[r] = "exchange"
    BY <1>9 DEF Chunk, Reading, ReplyStep, TypeOK
  <2>3. ex[r].len \in Nat /\ n \in Nat
    BY LimitAssumption DEF TypeOK, Exchange
  <2>4. CASE ex[r].len + n > Limit
    BY <2>1, <2>2, <2>4, FailInv
  <2>5. CASE ~(ex[r].len + n > Limit)
    <3>1. ex[r].len + n <= Limit
      BY <2>3, <2>5, LimitAssumption
    <3>. QED
      BY <1>9, <2>1, <2>2, <2>3, <2>5, <3>1, CollectFacts, BeginReadInv DEF Chunk
  <2>. QED
    BY <2>4, <2>5
<1>10. ASSUME NEW r \in Request, StreamEnd(r) PROVE IndInv'
  <2>1. PICK n \in 0..(reply[r].size - ex[r].len) :
            IF ex[r].len + n > Limit
              THEN Fail(r, "ResponseBody")
              ELSE Advance(r, [Collect(r, n) EXCEPT !.send = "publishing"])
    BY <1>10 DEF StreamEnd
  <2>2. ReplyStep(r) /\ pc[r] = "exchange"
    BY <1>10 DEF StreamEnd, Reading, ReplyStep, TypeOK
  <2>3. ex[r].len \in Nat /\ n \in Nat
    BY LimitAssumption DEF TypeOK, Exchange
  <2>4. CASE ex[r].len + n > Limit
    BY <2>1, <2>2, <2>4, FailInv
  <2>5. CASE ~(ex[r].len + n > Limit)
    <3>. DEFINE e == [Collect(r, n) EXCEPT !.send = "publishing"]
    <3>1. ex[r].len + n <= Limit
      BY <2>3, <2>5, LimitAssumption
    <3>2. /\ e \in Exchange /\ e.started = ex[r].started
          /\ e.send = "publishing" /\ e.late <= 1
      BY <1>10, <2>3, <3>1, CollectFacts DEF StreamEnd
    <3>3. Advance(r, e)
      BY <2>1, <2>5
    <3>. HIDE DEF e
    <3>. QED
      BY <2>2, <3>2, <3>3, AdvanceInv DEF Joined
  <2>. QED
    BY <2>4, <2>5
<1>11. ASSUME NEW r \in Request, ReadCancelled(r) PROVE IndInv'
  BY <1>11, FailInv DEF ReadCancelled, Reading, ReplyStep, TypeOK
<1>12. ASSUME NEW r \in Request, PublishCollected(r) PROVE IndInv'
  <2>. DEFINE e == [ex[r] EXCEPT !.send = "done"]
  <2>1. ReplyStep(r) /\ pc[r] = "exchange" /\ reply'[r] = reply[r]
    BY <1>12 DEF PublishCollected, ReplyStep, TypeOK
  <2>2. /\ e \in Exchange /\ e.started = ex[r].started
        /\ e.send = "done" /\ e.late <= 1
    BY DEF TypeOK, Exchange, Local
  <2>3. Advance(r, e) \/ Fail(r, "ResponseBody")
    BY <1>12 DEF PublishCollected
  <2>. HIDE DEF e
  <2>. QED
    BY <2>1, <2>2, <2>3, AdvanceInv, FailInv
<1>13. ASSUME NEW r \in Request, WriteBody(r) PROVE IndInv'
  <2>1. PICK w \in {"written", "cut"} : Advance(r, [ex[r] EXCEPT !.write = w])
    BY <1>13 DEF WriteBody
  <2>. DEFINE e == [ex[r] EXCEPT !.write = w]
  <2>2. ReplyStep(r) /\ pc[r] = "exchange" /\ reply'[r] = reply[r]
    BY <1>13 DEF WriteBody, ReplyStep, TypeOK
  <2>3. /\ e \in Exchange /\ e.started = ex[r].started /\ e.late <= 1
        /\ e.send \in {"sending", "reading"} => e.late = 0
    BY DEF TypeOK, Exchange, Local
  <2>4. Advance(r, e)
    BY <2>1
  <2>. HIDE DEF e
  <2>. QED
    BY <2>2, <2>3, <2>4, AdvanceInv
<1>14. ASSUME NEW r \in Request, PublishBodyResult(r) PROVE IndInv'
  <2>. DEFINE e == [ex[r] EXCEPT !.write = "done"]
  <2>1. ReplyStep(r) /\ pc[r] = "exchange" /\ reply'[r] = reply[r]
    BY <1>14 DEF PublishBodyResult, ReplyStep, TypeOK
  <2>2. /\ e \in Exchange /\ e.started = ex[r].started /\ e.late <= 1
        /\ e.send \in {"sending", "reading"} => e.late = 0
    BY DEF TypeOK, Exchange, Local
  <2>3. Advance(r, e) \/ Fail(r, "Transport")
    BY <1>14 DEF PublishBodyResult
  <2>. HIDE DEF e
  <2>. QED
    BY <2>1, <2>2, <2>3, AdvanceInv, FailInv
<1>15. ASSUME NEW r \in Request, Transmission(r) PROVE IndInv'
  <2>. DEFINE e == [ex[r] EXCEPT !.tx = "done"]
  <2>1. ReplyStep(r) /\ pc[r] = "exchange" /\ reply'[r] = reply[r]
    BY <1>15 DEF Transmission, ReplyStep, TypeOK
  <2>2. /\ e \in Exchange /\ e.started = ex[r].started /\ e.late <= 1
        /\ e.send \in {"sending", "reading"} => e.late = 0
    BY DEF TypeOK, Exchange, Local
  <2>3. Advance(r, e) \/ Fail(r, "Transport")
    BY <1>15 DEF Transmission
  <2>. HIDE DEF e
  <2>. QED
    BY <2>1, <2>2, <2>3, AdvanceInv, FailInv
<1>16. ASSUME NEW r \in Request, Cancel(r) PROVE IndInv'
  <2>0. ex[r].started \in Nat
    BY DEF TypeOK, Exchange
  <2>1. SlotsConserved' /\ inFlight' \in Nat
    BY <1>16, LeaveSlots DEF Cancel
  <2>2. TypeOK'
    BY <1>16, <2>0, <2>1, NewExchangeType DEF TypeOK, Cancel, Leave, DropExchange
  <2>3. Local(r)'
    BY <1>16 DEF Cancel, Leave, DropExchange, Local, TypeOK, NewExchange, NoOutcome
  <2>4. ASSUME NEW q \in Request, q # r PROVE Local(q)'
    BY <1>16, <2>4, LocalFrame DEF Cancel, Leave, DropExchange, TypeOK
  <2>. QED
    BY <2>1, <2>2, <2>3, <2>4
<1>17. CASE Tick
  <2>1. TypeOK'
    BY <1>17 DEF Tick, TypeOK
  <2>2. Holders' = Holders
    BY <1>17 DEF Tick, Holders
  <2>3. ASSUME NEW q \in Request PROVE Local(q)'
    BY <1>17, LocalFrame DEF Tick, TypeOK
  <2>. QED
    BY <1>17, <2>1, <2>2, <2>3 DEF SlotsConserved, Tick
<1>18. CASE UNCHANGED vars
  BY <1>18 DEF vars, TypeOK, SlotsConserved, Holders, Local
<1>. QED
  BY <1>1, <1>2, <1>3, <1>4, <1>5, <1>6, <1>7, <1>8, <1>9, <1>10, <1>11, <1>12,
     <1>13, <1>14, <1>15, <1>16, <1>17, <1>18 DEF Next, Step

\* IndInv is an invariant of the runtime.
THEOREM Inductive == Spec => []IndInv
  BY InitIndInv, NextIndInv, PTL DEF Spec

\* Type correctness; the collected answer never exceeds the limit.
THEOREM TypeCorrect == Spec => []TypeOK
<1>1. IndInv => TypeOK
  BY DEF IndInv
<1>. QED
  BY <1>1, Inductive, PTL

\* No path of authenticate leaks or returns a slot twice.
THEOREM SlotsCorrect == Spec => []SlotsConserved
<1>1. IndInv => SlotsConserved
  BY DEF IndInv
<1>. QED
  BY <1>1, Inductive, PTL

\* The runtime fails closed: an authenticated identity rests on a broker answer
\* whose object was collected whole, in an exchange none of whose futures failed.
THEOREM FailsClosed == Spec => []AuthenticatedJustified
<1>1. IndInv => AuthenticatedJustified
  BY DEF IndInv, Local, AuthenticatedJustified
<1>. QED
  BY <1>1, Inductive, PTL

\* A request that presented a credential never goes on as anonymous.
THEOREM NeverDowngrades == Spec => []NoDowngrade
<1>1. IndInv => NoDowngrade
  BY DEF IndInv, Local, NoDowngrade
<1>. QED
  BY <1>1, Inductive, PTL

\* Only the broker's 401 blames the credentials.
THEOREM BlameCorrect == Spec => []BlameDeserved
<1>1. IndInv => BlameDeserved
  BY DEF IndInv, Local, BlameDeserved
<1>. QED
  BY <1>1, Inductive, PTL

\* The deadline is not extended by a dripping broker, and no request gives up as
\* timed out before its own deadline has passed.
THEOREM DeadlineCorrect == Spec => []DeadlineKept
<1>1. IndInv => DeadlineKept
  BY DEF IndInv, Local, DeadlineKept
<1>. QED
  BY <1>1, Inductive, PTL
-----------------------------------------------------------------------------
(* The runtime implements Admission. *)

\* The instance counts a set as this module does.
LEMMA SameCardinality == \A S : A!Cardinality(S) = Cardinality(S)
  BY DEF A!Cardinality, Cardinality, A!IsFiniteSet, IsFiniteSet

\* The abstract holders are the requests inside the exchange.
LEMMA AbstractHolders == A!HoldingClients = Holders
  BY DEF A!HoldingClients, Holders, AbstractPhase

\* Every initial state maps to an initial state of Admission.
LEMMA InitRefines == Init => A!AdmissionInit
  BY DEF Init, A!AdmissionInit, AbstractPhase, NoOutcome

\* A return that is not a refusal leaves a new request idle.
LEMMA EarlyRefines ==
  ASSUME IndInv, NEW r \in Request, pc[r] = "new",
         NEW o, ReturnEarly(r, o), o.stage # "Admission"
  PROVE  AbstractPhase' = AbstractPhase
  BY DEF IndInv, Local, TypeOK, ReturnEarly, AbstractPhase, NoOutcome

\* Leaving the exchange, whatever the outcome, frees the abstract slot.
LEMMA LeaveRefines ==
  ASSUME IndInv, NEW r \in Request, pc[r] = "exchange",
         NEW w \in {"done", "cancelled"}, Leave(r, w),
         NEW o, outcome' = [outcome EXCEPT ![r] = o], o.stage # "Admission"
  PROVE  [A!AdmissionNext]_AbstractPhase
<1>1. AbstractPhase' = [AbstractPhase EXCEPT ![r] = "idle"]
  BY DEF IndInv, TypeOK, Leave, AbstractPhase
<1>2. AbstractPhase[r] = "holding"
  BY DEF AbstractPhase
<1>. QED
  BY <1>1, <1>2 DEF A!AdmissionNext, A!Finish

\* An error frees the slot.
LEMMA FailRefines ==
  ASSUME IndInv, NEW r \in Request, pc[r] = "exchange",
         NEW error \in {"Transport", "Deadline", "InvalidStatus", "ResponseBody"},
         Fail(r, error)
  PROVE  [A!AdmissionNext]_AbstractPhase
<1>1. Unavailable(ErrorStage[error]).stage # "Admission"
  BY DEF Unavailable, ErrorStage
<1>. QED
  BY <1>1, LeaveRefines DEF Fail

\* A future that advances changes nothing abstractly, unless it completes the
\* join and frees the slot.
LEMMA AdvanceRefines ==
  ASSUME IndInv, NEW r \in Request, pc[r] = "exchange", NEW e, Advance(r, e)
  PROVE  [A!AdmissionNext]_AbstractPhase
<1>1. CASE Joined(e)
  <2>1. Decide(reply[r], e.len).stage # "Admission"
    BY DecideFacts
  <2>. QED
    BY <1>1, <2>1, LeaveRefines DEF Advance
<1>2. CASE ~Joined(e)
  BY <1>2 DEF Advance, AbstractPhase
<1>. QED
  BY <1>1, <1>2

\* Every step of the runtime maps to a step of Admission or to a stutter.
LEMMA NextRefines ==
  ASSUME IndInv, [Next]_vars
  PROVE  [A!AdmissionNext]_AbstractPhase
<1>1. ASSUME NEW r \in Request, RejectMalformed(r) PROVE [A!AdmissionNext]_AbstractPhase
  BY <1>1, EarlyRefines DEF RejectMalformed
<1>2. ASSUME NEW r \in Request, NoCredentials(r) PROVE [A!AdmissionNext]_AbstractPhase
  <2>1. CASE Mode = "Optional"
    BY <1>2, <2>1, EarlyRefines DEF NoCredentials
  <2>2. CASE Mode # "Optional"
    BY <1>2, <2>2, EarlyRefines DEF NoCredentials
  <2>. QED
    BY <2>1, <2>2
<1>3. ASSUME NEW r \in Request, RefuseAdmission(r) PROVE [A!AdmissionNext]_AbstractPhase
  <2>1. AbstractPhase' = [AbstractPhase EXCEPT ![r] = "refused"]
    BY <1>3 DEF IndInv, TypeOK, RefuseAdmission, ReturnEarly, Unavailable, AbstractPhase
  <2>2. AbstractPhase[r] = "idle"
    BY <1>3 DEF IndInv, Local, RefuseAdmission, NoOutcome, AbstractPhase
  <2>3. A!Cardinality(A!HoldingClients) >= Max
    BY <1>3, AbstractHolders, SameCardinality DEF IndInv, RefuseAdmission, SlotsConserved
  <2>. QED
    BY <2>1, <2>2, <2>3 DEF A!AdmissionNext, A!Refuse
<1>4. ASSUME NEW r \in Request, BuildFails(r) PROVE [A!AdmissionNext]_AbstractPhase
  <2>1. PICK error \in {"Serialization", "Transport"} :
            ReturnEarly(r, Unavailable(ErrorStage[error]))
    BY <1>4 DEF BuildFails
  <2>2. Unavailable(ErrorStage[error]).stage # "Admission"
    BY DEF Unavailable, ErrorStage
  <2>. QED
    BY <1>4, <2>1, <2>2, EarlyRefines DEF BuildFails
<1>5. ASSUME NEW r \in Request, Admit(r) PROVE [A!AdmissionNext]_AbstractPhase
  <2>1. AbstractPhase' = [AbstractPhase EXCEPT ![r] = "holding"]
    BY <1>5 DEF IndInv, TypeOK, Admit, AbstractPhase
  <2>2. AbstractPhase[r] = "idle"
    BY <1>5 DEF IndInv, Local, Admit, NoOutcome, AbstractPhase
  <2>3. A!Cardinality(A!HoldingClients) < Max
    BY <1>5, AbstractHolders, SameCardinality DEF IndInv, Admit, SlotsConserved
  <2>. QED
    BY <2>1, <2>2, <2>3 DEF A!AdmissionNext, A!Admit
<1>6. ASSUME NEW r \in Request, Deadline(r) PROVE [A!AdmissionNext]_AbstractPhase
  BY <1>6, FailRefines DEF Deadline
<1>7. ASSUME NEW r \in Request, SendFails(r) \/ ReadCancelled(r)
      PROVE  [A!AdmissionNext]_AbstractPhase
  BY <1>7, FailRefines DEF SendFails, Sending, ReadCancelled, Reading
<1>8. ASSUME NEW r \in Request, Respond(r) PROVE [A!AdmissionNext]_AbstractPhase
  BY <1>8, FailRefines, AdvanceRefines DEF Respond, Sending, BeginRead
<1>9. ASSUME NEW r \in Request, Chunk(r) PROVE [A!AdmissionNext]_AbstractPhase
  BY <1>9, FailRefines, AdvanceRefines DEF Chunk, Reading, BeginRead
<1>10. ASSUME NEW r \in Request, StreamEnd(r) PROVE [A!AdmissionNext]_AbstractPhase
  BY <1>10, FailRefines, AdvanceRefines DEF StreamEnd, Reading
<1>11. ASSUME NEW r \in Request, PublishCollected(r) PROVE [A!AdmissionNext]_AbstractPhase
  BY <1>11, FailRefines, AdvanceRefines DEF PublishCollected
<1>12. ASSUME NEW r \in Request, WriteBody(r) PROVE [A!AdmissionNext]_AbstractPhase
  BY <1>12, AdvanceRefines DEF WriteBody
<1>13. ASSUME NEW r \in Request, PublishBodyResult(r) PROVE [A!AdmissionNext]_AbstractPhase
  BY <1>13, FailRefines, AdvanceRefines DEF PublishBodyResult
<1>14. ASSUME NEW r \in Request, Transmission(r) PROVE [A!AdmissionNext]_AbstractPhase
  BY <1>14, FailRefines, AdvanceRefines DEF Transmission
<1>15. ASSUME NEW r \in Request, Cancel(r) PROVE [A!AdmissionNext]_AbstractPhase
  <2>1. outcome' = [outcome EXCEPT ![r] = NoOutcome]
    BY <1>15 DEF Cancel, IndInv, TypeOK, Local
  <2>2. NoOutcome.stage # "Admission"
    BY DEF NoOutcome
  <2>3. pc[r] = "exchange" /\ Leave(r, "cancelled")
    BY <1>15 DEF Cancel
  <2>. QED
    BY <2>1, <2>2, <2>3, LeaveRefines
<1>16. CASE Tick
  BY <1>16 DEF Tick, AbstractPhase
<1>17. CASE UNCHANGED vars
  BY <1>17 DEF vars, AbstractPhase
<1>. QED
  BY <1>1, <1>2, <1>3, <1>4, <1>5, <1>6, <1>7, <1>8, <1>9, <1>10, <1>11, <1>12,
     <1>13, <1>14, <1>15, <1>16, <1>17 DEF Next, Step

\* The runtime implements Admission, for every configuration.
THEOREM Refinement == Spec => ImplementsAdmission
<1>1. IndInv /\ [Next]_vars => [A!AdmissionNext]_AbstractPhase
  BY NextRefines
<1>. QED
  BY <1>1, InitRefines, Inductive, PTL
     DEF Spec, ImplementsAdmission, A!AdmissionSpec
-----------------------------------------------------------------------------
(* The composition with the broker *)

BrokerTask ==
    [handle : {"idle", "reading", "read", "trailers", "result", "answer", "returned", "error"},
     writer : {"none", "writing", "waiting", "publishing", "done"},
     left : Nat, wake : Nat, report : {"none", "waiting", "done"}]

BTypeOK == broker \in [Request -> BrokerTask] /\ path \in Paths

\* The verdict on one request.
Verdict(r) ==
    auth[r] = "text" /\ pc[r] = "done" /\ outcome[r].stage \notin {"BrokerDeadline", "Admission"} =>
        IF path = "/authenticate"
          THEN outcome[r].kind = Expected(credential[r]) /\ outcome[r].stage # "BrokerTransport"
          ELSE outcome[r].kind = "Unavailable"

\* While the handler of the broker reads, each of its awaits has one counterpart
\* in the runtime; once it has returned, what the runtime has and what is left to
\* write make up the answer.
InStep(r) ==
    LET e == ex[r]
        b == broker[r]
    IN  /\ b.handle # "error" /\ e.send # "done"
        /\ e.send = "sending" => e.len = 0
        /\ e.write = CASE b.handle \in {"idle", "reading"} -> "writing"
                       [] b.handle \in {"read", "trailers"} -> "written"
                       [] OTHER -> "done"
        /\ e.tx = IF b.handle \in {"answer", "returned"} THEN "done" ELSE "waiting"
        /\ b.handle = "returned" =>
             /\ e.len + b.left = AnswerOf(r).size
             /\ b.writer \in {"publishing", "done"} => b.left = 0
        /\ e.send = "publishing" => b.left = 0

Coupled(r) ==
    /\ pc[r] = "new" => broker[r] = Idle
    /\ pc[r] = "exchange" =>
         /\ broker[r].handle = "returned" <=> ex[r].send # "sending"
         /\ broker[r].handle = "returned" => reply[r] = AnswerOf(r)
         /\ path = "/authenticate" => InStep(r)
    /\ Verdict(r)

ComposedInv == IndInv /\ BTypeOK /\ \A r \in Request : Coupled(r)

\* Every step of the composition is a step of the runtime, or leaves it alone.
LEMMA BNextIsNext == [BNext]_<<vars, bvars>> => [Next]_vars
<1>. SUFFICES ASSUME [BNext]_<<vars, bvars>> PROVE [Next]_vars
  OBVIOUS
<1>1. CASE BTick
  BY <1>1 DEF BTick, Next
<1>2. ASSUME NEW r \in Request, Alone(r) PROVE [Next]_vars
  BY <1>2 DEF Alone, Next, Step
<1>3. ASSUME NEW r \in Request, Protocol(r) PROVE Step(r) \/ UNCHANGED vars
  BY <1>3 DEF Protocol, Receive, TakeBody, SeeEnd, TakeTrailers, TrailersDefault, WriteResult,
              WriteCut, Answer, WriteUnit, ReadUnit, Wake, WriterStops, EndOfBody, WriterEnds,
              TakeReport, Step
<1>. QED
  BY <1>1, <1>2, <1>3 DEF BNext, Next, vars

\* The runtime composed with the broker behaves as the runtime: what is proved of
\* it for every broker holds with this one.
THEOREM Composed == BSpec => Spec
<1>1. BInit => Init
  BY DEF BInit
<1>. QED
  BY <1>1, BNextIsNext, PTL DEF BSpec, Spec

\* What the runtime knows of a request does not change with the steps of another.
RuntimeKeeps(q) ==
    /\ pc'[q] = pc[q] /\ ex'[q] = ex[q] /\ reply'[q] = reply[q]
    /\ outcome'[q] = outcome[q] /\ auth'[q] = auth[q]

\* No step of one request touches the exchange of another.
LEMMA StepKeeps ==
  ASSUME TypeOK, NEW r \in Request, Step(r), NEW q \in Request, q # r
  PROVE  RuntimeKeeps(q)
<1>. USE DEF RuntimeKeeps, TypeOK
<1>1. ASSUME NEW o, ReturnEarly(r, o) PROVE RuntimeKeeps(q)
  BY <1>1 DEF ReturnEarly
<1>2. ASSUME NEW error, Fail(r, error), reply'[q] = reply[q] PROVE RuntimeKeeps(q)
  BY <1>2 DEF Fail, Leave, DropExchange
<1>3. ASSUME NEW e, Advance(r, e), reply'[q] = reply[q] PROVE RuntimeKeeps(q)
  BY <1>3 DEF Advance, Leave
<1>4. CASE RejectMalformed(r) \/ NoCredentials(r) \/ RefuseAdmission(r) \/ BuildFails(r)
  BY <1>1, <1>4 DEF RejectMalformed, NoCredentials, RefuseAdmission, BuildFails
<1>5. CASE Admit(r)
  BY <1>5 DEF Admit
<1>6. CASE Deadline(r) \/ SendFails(r) \/ ReadCancelled(r)
  BY <1>2, <1>6 DEF Deadline, SendFails, ReadCancelled
<1>7. CASE Respond(r)
  BY <1>2, <1>3, <1>7 DEF Respond, BeginRead
<1>8. CASE Chunk(r) \/ StreamEnd(r)
  BY <1>2, <1>3, <1>8 DEF Chunk, StreamEnd, BeginRead
<1>9. CASE PublishCollected(r) \/ WriteBody(r) \/ PublishBodyResult(r) \/ Transmission(r)
  BY <1>2, <1>3, <1>9 DEF PublishCollected, WriteBody, PublishBodyResult, Transmission
<1>10. CASE Cancel(r)
  BY <1>10 DEF Cancel, Leave, DropExchange
<1>. QED
  BY <1>4, <1>5, <1>6, <1>7, <1>8, <1>9, <1>10 DEF Step

\* What an error does to its own request.
LEMMA FailEffect ==
  ASSUME TypeOK, NEW r \in Request, NEW error, Fail(r, error)
  PROVE  /\ pc'[r] = "done" /\ auth'[r] = auth[r]
         /\ outcome'[r] = Unavailable(ErrorStage[error])
         /\ ex'[r].send = "sending" /\ ex'[r].write = "writing"
         /\ ex'[r].tx = "waiting" /\ ex'[r].len = 0
<1>1. ex'[r] = NewExchange(ex[r].started)
  BY DEF TypeOK, Fail, DropExchange
<1>. QED
  BY <1>1 DEF TypeOK, Fail, Leave, NewExchange

\* What a future that goes on does to its own request.
LEMMA AdvanceEffect ==
  ASSUME TypeOK, NEW r \in Request, NEW e, Advance(r, e)
  PROVE  /\ ex'[r] = e /\ auth'[r] = auth[r]
         /\ IF Joined(e) THEN pc'[r] = "done" /\ outcome'[r] = Decide(reply[r], e.len)
                         ELSE pc'[r] = pc[r] /\ outcome'[r] = outcome[r]
  BY DEF TypeOK, Advance, Leave

\* What a step of the broker's tasks does to them.
LEMMA BecomesEffect ==
  ASSUME BTypeOK, NEW r \in Request, NEW b, Becomes(r, b)
  PROVE  /\ broker'[r] = b /\ path' = path /\ credential' = credential
         /\ \A q \in Request : q # r => broker'[q] = broker[q]
         /\ b \in BrokerTask => BTypeOK'
  BY DEF BTypeOK, Becomes

\* What is coupled stays coupled as long as nobody moves.
LEMMA CoupledFrame ==
  ASSUME NEW q \in Request, Coupled(q), RuntimeKeeps(q),
         broker'[q] = broker[q], path' = path, credential' = credential
  PROVE  Coupled(q)'
<1>1. AnswerOf(q)' = AnswerOf(q)
  BY DEF AnswerOf
<1>2. Verdict(q)' = Verdict(q) /\ InStep(q)' = InStep(q)
  BY <1>1 DEF Verdict, InStep, RuntimeKeeps
<1>. QED
  BY <1>1, <1>2 DEF Coupled, RuntimeKeeps

\* The answers of the broker.
LEMMA AnswerFacts ==
  ASSUME NEW r \in Request
  PROVE  /\ AnswerOf(r).size \in Nat
         /\ AnswerOf(r).status \in {"200", "401", "other"}
         /\ path # "/authenticate" => AnswerOf(r).status = "other"
         /\ path = "/authenticate" => AnswerOf(r) = Answers(credential[r])
  BY LimitAssumption DEF AnswerOf, Answers, NotFound, Object, Empty

\* An error is a verdict if the deadline has passed, if the broker was not found,
\* or if its answer is too long.
LEMMA FailCoupled ==
  ASSUME TypeOK, NEW r \in Request, NEW error, Fail(r, error),
         path' = path, credential' = credential,
         \/ error = "Deadline"
         \/ path # "/authenticate"
         \/ error = "ResponseBody" /\ Expected(credential[r]) = "Unavailable"
  PROVE  Coupled(r)'
<1>1. pc'[r] = "done" /\ outcome'[r] = Unavailable(ErrorStage[error])
  BY FailEffect
<1>2. Verdict(r)'
  BY <1>1 DEF Verdict, Unavailable, ErrorStage, Expected, Answers, Object, Empty
<1>. QED
  BY <1>1, <1>2 DEF Coupled

\* When the runtime is gone, the broker's tasks change no verdict.
LEMMA GoneCoupled ==
  ASSUME NEW r \in Request, Coupled(r), Gone(r), UNCHANGED vars,
         path' = path, credential' = credential
  PROVE  Coupled(r)'
<1>1. Verdict(r)' = Verdict(r)
  BY DEF Verdict, vars
<1>. QED
  BY <1>1 DEF Coupled, Gone, vars

\* Steps of the runtime alone.
LEMMA AloneCoupled ==
  ASSUME ComposedInv, NEW r \in Request, Alone(r)
  PROVE  BTypeOK' /\ Coupled(r)'
<1>. USE DEF ComposedInv, IndInv
<1>1. BTypeOK' /\ path' = path /\ credential' = credential /\ broker'[r] = broker[r]
  BY DEF Alone, bvars, BTypeOK
<1>2. CASE RejectMalformed(r) \/ NoCredentials(r)
  <2>1. pc'[r] = "done" /\ auth'[r] # "text"
    BY <1>2 DEF RejectMalformed, NoCredentials, ReturnEarly, TypeOK
  <2>. QED
    BY <1>1, <2>1 DEF Coupled, Verdict
<1>3. CASE RefuseAdmission(r)
  <2>1. pc'[r] = "done" /\ outcome'[r].stage = "Admission"
    BY <1>3 DEF RefuseAdmission, ReturnEarly, TypeOK, Unavailable
  <2>. QED
    BY <1>1, <2>1 DEF Coupled, Verdict
<1>4. CASE Admit(r)
  <2>1. pc'[r] = "exchange" /\ ex'[r] = NewExchange(clock) /\ broker'[r] = Idle
    BY <1>1, <1>4 DEF Admit, TypeOK, Coupled
  <2>2. InStep(r)'
    BY <2>1 DEF InStep, Idle, NewExchange
  <2>. QED
    BY <1>1, <2>1, <2>2 DEF Coupled, Verdict, Idle, NewExchange
<1>5. CASE Deadline(r)
  BY <1>1, <1>5, FailCoupled DEF Deadline
<1>6. CASE Cancel(r)
  <2>1. pc'[r] = "cancelled"
    BY <1>6 DEF Cancel, Leave, TypeOK
  <2>. QED
    BY <1>1, <2>1 DEF Coupled, Verdict
<1>. QED
  BY <1>1, <1>2, <1>3, <1>4, <1>5, <1>6 DEF Alone

\* The request is received and read.
LEMMA RequestCoupled ==
  ASSUME ComposedInv, NEW r \in Request,
         Receive(r) \/ TakeBody(r) \/ SeeEnd(r) \/ TakeTrailers(r) \/ TrailersDefault(r)
         \/ WriteResult(r)
  PROVE  BTypeOK' /\ Coupled(r)'
<1>. USE DEF ComposedInv, IndInv
<1>. DEFINE Handles == {"reading", "read", "trailers", "result", "answer", "error"}
<1>1. PICK handle \in Handles : Moves(r, handle)
  BY DEF Receive, TakeBody, SeeEnd, TakeTrailers, TrailersDefault, WriteResult
<1>2. broker[r] \in BrokerTask /\ ex[r] \in Exchange
  BY DEF BTypeOK, TypeOK
<1>3. /\ broker'[r] = [broker[r] EXCEPT !.handle = handle]
      /\ path' = path /\ credential' = credential /\ BTypeOK'
  <2>1. [broker[r] EXCEPT !.handle = handle] \in BrokerTask
    BY <1>2 DEF BrokerTask
  <2>. QED
    BY <1>1, <2>1, BecomesEffect DEF Moves
<1>4. /\ broker'[r].handle = handle /\ broker'[r].left = broker[r].left
      /\ broker'[r].writer = broker[r].writer
  BY <1>2, <1>3 DEF BrokerTask
<1>5. CASE Gone(r) /\ UNCHANGED vars
  BY <1>3, <1>5, GoneCoupled
<1>6. ASSUME pc[r] = "exchange", NEW e, Advance(r, e), ~Joined(e), UNCHANGED reply,
             e.send = "sending", broker[r].handle # "returned",
             path = "/authenticate" =>
               /\ handle # "error" /\ e.len = 0
               /\ e.write = CASE handle \in {"idle", "reading"} -> "writing"
                              [] handle \in {"read", "trailers"} -> "written"
                              [] OTHER -> "done"
               /\ e.tx = IF handle \in {"answer", "returned"} THEN "done" ELSE "waiting"
      PROVE  Coupled(r)'
  <2>1. ex'[r] = e /\ pc'[r] = "exchange"
    BY <1>6, AdvanceEffect
  <2>2. (path = "/authenticate" => InStep(r))'
    BY <1>3, <1>4, <1>6, <2>1 DEF InStep
  <2>. QED
    BY <1>4, <1>6, <2>1, <2>2 DEF Coupled, Verdict
<1>7. CASE Receive(r)
  <2>1. /\ pc[r] = "exchange" /\ ex[r].send = "sending" /\ broker[r].handle = "idle"
        /\ UNCHANGED vars
    BY <1>7 DEF Receive, Sending
  <2>2. handle = IF path = "/authenticate" THEN "reading" ELSE "answer"
    <3>1. Moves(r, IF path = "/authenticate" THEN "reading" ELSE "answer")
      BY <1>7 DEF Receive
    <3>2. broker'[r] = [broker[r] EXCEPT !.handle =
                          IF path = "/authenticate" THEN "reading" ELSE "answer"]
      BY <3>1, BecomesEffect DEF Moves
    <3>. QED
      BY <1>2, <1>4, <3>2 DEF BrokerTask
  <2>3. (path = "/authenticate" => InStep(r))'
    BY <1>3, <1>4, <2>1, <2>2 DEF Coupled, InStep, vars
  <2>. QED
    BY <1>3, <1>4, <2>1, <2>2, <2>3 DEF Coupled, Verdict, vars
<1>8. CASE SeeEnd(r)
  <2>1. UNCHANGED vars /\ broker[r].handle \in {"reading", "read"} /\ (Gone(r) \/ broker[r].handle = "read")
    BY <1>8 DEF SeeEnd
  <2>2. handle = "trailers"
    <3>1. broker'[r] = [broker[r] EXCEPT !.handle = "trailers"]
      BY <1>8, BecomesEffect DEF SeeEnd, Moves
    <3>. QED
      BY <1>2, <1>4, <3>1 DEF BrokerTask
  <2>3. CASE ~Gone(r)
    <3>1. pc[r] = "exchange" /\ pc'[r] = "exchange"
      BY <2>1, <2>3 DEF Gone, TypeOK, Coupled, Idle, vars
    <3>2. ex'[r] = ex[r]
      BY <2>1 DEF vars
    <3>3. (path = "/authenticate" => InStep(r))'
      BY <1>3, <1>4, <2>1, <2>2, <2>3, <3>1, <3>2 DEF Coupled, InStep
    <3>. QED
      BY <1>3, <1>4, <2>1, <2>2, <2>3, <3>1, <3>2, <3>3 DEF Coupled, Verdict
  <2>. QED
    BY <1>5, <2>1, <2>3
<1>9. CASE TrailersDefault(r)
  BY <1>5, <1>9 DEF TrailersDefault
<1>10. CASE TakeBody(r)
  <2>1. handle = "read"
    <3>1. broker'[r] = [broker[r] EXCEPT !.handle = "read"]
      BY <1>10, BecomesEffect DEF TakeBody, Moves
    <3>. QED
      BY <1>2, <1>4, <3>1 DEF BrokerTask
  <2>2. pc[r] = "exchange" /\ broker[r].handle = "reading" /\ UNCHANGED reply
    BY <1>10 DEF TakeBody, WriteBody
  <2>3. PICK w \in {"written", "cut"} : Advance(r, [ex[r] EXCEPT !.write = w])
    BY <1>10 DEF TakeBody, WriteBody
  <2>. DEFINE e == [ex[r] EXCEPT !.write = "written"]
  <2>4. Advance(r, e)
    <3>1. ex'[r] = [ex[r] EXCEPT !.write = w] /\ ex'[r].write = "written"
      BY <1>10, <2>3, AdvanceEffect DEF TakeBody
    <3>. QED
      BY <1>2, <2>3, <3>1 DEF Exchange
  <2>5. /\ e.send = ex[r].send /\ e.len = ex[r].len /\ e.tx = ex[r].tx /\ e.write = "written"
    BY <1>2 DEF Exchange
  <2>6. ex[r].send = "sending"
    BY <2>2 DEF Coupled
  <2>. HIDE DEF e
  <2>. QED
    BY <1>3, <1>6, <2>1, <2>2, <2>4, <2>5, <2>6 DEF Joined, Coupled, InStep
<1>11. CASE TakeTrailers(r)
  <2>1. handle = "result"
    <3>1. broker'[r] = [broker[r] EXCEPT !.handle = "result"]
      BY <1>11, BecomesEffect DEF TakeTrailers, Moves
    <3>. QED
      BY <1>2, <1>4, <3>1 DEF BrokerTask
  <2>2. pc[r] = "exchange" /\ broker[r].handle = "trailers" /\ UNCHANGED reply
    BY <1>11 DEF TakeTrailers, PublishBodyResult
  <2>. DEFINE e == [ex[r] EXCEPT !.write = "done"]
  <2>3. ~Fail(r, "Transport")
    <3>. SUFFICES ASSUME Fail(r, "Transport") PROVE FALSE
      OBVIOUS
    <3>. QED
      BY <1>11, FailEffect DEF TakeTrailers
  <2>4. Advance(r, e)
    BY <1>11, <2>3 DEF TakeTrailers, PublishBodyResult
  <2>5. /\ e.send = ex[r].send /\ e.len = ex[r].len /\ e.tx = ex[r].tx /\ e.write = "done"
    BY <1>2 DEF Exchange
  <2>6. ex[r].send = "sending"
    BY <2>2 DEF Coupled
  <2>. HIDE DEF e
  <2>. QED
    BY <1>3, <1>6, <2>1, <2>2, <2>4, <2>5, <2>6 DEF Joined, Coupled, InStep
<1>12. CASE WriteResult(r)
  <2>1. CASE Gone(r) /\ UNCHANGED vars
    BY <1>3, <1>5, <2>1
  <2>2. CASE Transmission(r) /\ ex'[r].tx = "done" /\ Moves(r, "answer")
    <3>1. handle = "answer"
      <4>1. broker'[r] = [broker[r] EXCEPT !.handle = "answer"]
        BY <2>2, BecomesEffect DEF Moves
      <4>. QED
        BY <1>2, <1>4, <4>1 DEF BrokerTask
    <3>2. pc[r] = "exchange" /\ broker[r].handle = "result" /\ UNCHANGED reply
      BY <1>12, <2>2 DEF WriteResult, Transmission
    <3>. DEFINE e == [ex[r] EXCEPT !.tx = "done"]
    <3>3. ~Fail(r, "Transport")
      <4>. SUFFICES ASSUME Fail(r, "Transport") PROVE FALSE
        OBVIOUS
      <4>. QED
        BY <2>2, FailEffect
    <3>4. Advance(r, e)
      BY <2>2, <3>3 DEF Transmission
    <3>5. /\ e.send = ex[r].send /\ e.len = ex[r].len /\ e.write = ex[r].write /\ e.tx = "done"
      BY <1>2 DEF Exchange
    <3>6. ex[r].send = "sending"
      BY <3>2 DEF Coupled
    <3>. HIDE DEF e
    <3>. QED
      BY <1>3, <1>6, <3>1, <3>2, <3>4, <3>5, <3>6 DEF Joined, Coupled, InStep
  <2>. QED
    BY <1>12, <2>1, <2>2 DEF WriteResult
<1>. QED
  BY <1>3, <1>7, <1>8, <1>9, <1>10, <1>11, <1>12

\* A join over the broker's whole answer is its verdict.
LEMMA JoinVerdict ==
  ASSUME TypeOK, NEW r \in Request, NEW e \in Exchange, pc[r] = "exchange", Advance(r, e), Joined(e),
         path' = path, credential' = credential, reply[r] = AnswerOf(r),
         path = "/authenticate" => e.len = AnswerOf(r).size
  PROVE  Coupled(r)'
<1>1. pc'[r] = "done" /\ outcome'[r] = Decide(AnswerOf(r), e.len)
  BY AdvanceEffect
<1>2. e.len \in Nat /\ e.len <= Limit
  BY LimitAssumption DEF Exchange
<1>3. CASE path = "/authenticate"
  <2>1. AnswerOf(r) = Answers(credential[r]) /\ e.len = Answers(credential[r]).size
    BY <1>3, AnswerFacts
  <2>2. \A token : Answers(token).body \in {"claims", "junk"}
    BY DEF Answers, Object, Empty
  <2>3. Answers(credential[r]).body = "claims" =>
            e.len \in Answers(credential[r]).object..Answers(credential[r]).blanks
    BY <1>2, <2>1, LimitAssumption DEF Answers, Object, Empty
  <2>4. ASSUME NEW a, NEW len, a.body \in {"claims", "junk"},
               a.body = "claims" => len \in a.object..a.blanks
        PROVE  /\ Decide(a, len).kind = CASE a.status = "401" -> "InvalidCredentials"
                                         [] a.body = "claims" /\ a.status = "200" ->
                                              "PassAuthenticated"
                                         [] OTHER -> "Unavailable"
               /\ Decide(a, len).stage # "BrokerTransport"
    BY <2>4 DEF Decide, parse_authn_response, Accepted, Unavailable
  <2>5. \A token : Answers(token).body = "claims" => Answers(token).status = "200"
    BY DEF Answers, Object, Empty
  <2>6. outcome'[r].kind = Expected(credential[r]) /\ outcome'[r].stage # "BrokerTransport"
    BY <1>1, <1>2, <2>1, <2>2, <2>3, <2>4, <2>5 DEF Expected
  <2>. QED
    BY <1>1, <1>3, <2>6 DEF Coupled, Verdict
<1>4. CASE path # "/authenticate"
  <2>1. AnswerOf(r).status = "other"
    BY <1>4, AnswerFacts
  <2>2. \A a, len : a.status = "other" => Decide(a, len).kind = "Unavailable"
    BY DEF Decide, parse_authn_response, Unavailable
  <2>. QED
    BY <1>1, <1>4, <2>1, <2>2 DEF Coupled, Verdict
<1>. QED
  BY <1>3, <1>4

\* A request that was not read: the exchange fails, or joins over a 404.
LEMMA WriteCutCoupled ==
  ASSUME ComposedInv, NEW r \in Request, WriteCut(r)
  PROVE  BTypeOK' /\ Coupled(r)'
<1>. USE DEF ComposedInv, IndInv
<1>1. /\ BTypeOK' /\ path' = path /\ credential' = credential /\ broker'[r] = broker[r]
      /\ path # "/authenticate" /\ broker[r].handle = "returned"
  BY DEF WriteCut, Unread, bvars, BTypeOK
<1>2. pc[r] = "exchange" /\ UNCHANGED reply /\ ex[r] \in Exchange
  BY DEF WriteCut, WriteBody, PublishBodyResult, Transmission, TypeOK
<1>3. AnswerOf(r)' = AnswerOf(r) /\ reply[r] = AnswerOf(r)
  BY <1>1, <1>2 DEF AnswerOf, Coupled
<1>4. ASSUME NEW e \in Exchange, Advance(r, e), e.send = ex[r].send PROVE Coupled(r)'
  <2>1. CASE Joined(e)
    BY <1>1, <1>2, <1>3, <1>4, <2>1, JoinVerdict
  <2>2. CASE ~Joined(e)
    <3>1. pc'[r] = "exchange" /\ ex'[r] = e
      BY <1>2, <1>4, <2>2, AdvanceEffect
    <3>. QED
      BY <1>1, <1>2, <1>3, <1>4, <3>1 DEF Coupled, Verdict
  <2>. QED
    BY <2>1, <2>2
<1>5. ASSUME NEW error, Fail(r, error) PROVE Coupled(r)'
  BY <1>1, <1>5, FailCoupled
<1>6. CASE WriteBody(r)
  <2>1. PICK w \in {"written", "cut"} : Advance(r, [ex[r] EXCEPT !.write = w])
    BY <1>6 DEF WriteBody
  <2>2. [ex[r] EXCEPT !.write = w] \in Exchange /\ [ex[r] EXCEPT !.write = w].send = ex[r].send
    BY <1>2 DEF Exchange
  <2>. QED
    BY <1>1, <1>4, <2>1, <2>2
<1>7. CASE PublishBodyResult(r)
  <2>1. [ex[r] EXCEPT !.write = "done"] \in Exchange
        /\ [ex[r] EXCEPT !.write = "done"].send = ex[r].send
    BY <1>2 DEF Exchange
  <2>. QED
    BY <1>1, <1>4, <1>5, <1>7, <2>1 DEF PublishBodyResult
<1>8. CASE Transmission(r)
  <2>1. [ex[r] EXCEPT !.tx = "done"] \in Exchange
        /\ [ex[r] EXCEPT !.tx = "done"].send = ex[r].send
    BY <1>2 DEF Exchange
  <2>. QED
    BY <1>1, <1>4, <1>5, <1>8, <2>1 DEF Transmission
<1>. QED
  BY <1>6, <1>7, <1>8 DEF WriteCut

\* The broker answers.
LEMMA AnswerCoupled ==
  ASSUME ComposedInv, NEW r \in Request, Answer(r)
  PROVE  BTypeOK' /\ Coupled(r)'
<1>. USE DEF ComposedInv, IndInv
<1>. DEFINE size == AnswerOf(r).size
<1>1. broker[r] \in BrokerTask /\ broker[r].handle = "answer" /\ ex[r] \in Exchange
  BY DEF BTypeOK, TypeOK, Answer
<1>2. size \in Nat
  BY AnswerFacts
<1>. HIDE DEF size
<1>3. /\ AnsweredBy(r) \in BrokerTask
      /\ AnsweredBy(r).handle = "returned" /\ AnsweredBy(r).left = size
      /\ AnsweredBy(r).writer = IF size = 0 THEN "done" ELSE "writing"
  BY <1>1, <1>2 DEF AnsweredBy, BrokerTask, size
<1>4. /\ broker'[r] = AnsweredBy(r) /\ path' = path /\ credential' = credential /\ BTypeOK'
  BY <1>3, BecomesEffect DEF Answer
<1>5. CASE Gone(r) /\ UNCHANGED vars
  BY <1>4, <1>5, GoneCoupled
<1>6. CASE Respond(r) /\ reply'[r] = AnswerOf(r)
  <2>1. pc[r] = "exchange" /\ ex[r].send = "sending"
    BY <1>6 DEF Respond, Sending
  <2>2. reply'[r].status # "bad"
    BY <1>6, AnswerFacts
  <2>. DEFINE e == [ex[r] EXCEPT !.send = "reading"]
  <2>3. PICK a \in Reply : /\ reply' = [reply EXCEPT ![r] = a]
                           /\ IF a.status = "bad" THEN Fail(r, "InvalidStatus") ELSE BeginRead(r, e)
    BY <1>6 DEF Respond
  <2>4. reply'[r] = a
    BY <2>3 DEF TypeOK
  <2>5. CASE Expired(r)
    BY <1>4, <2>2, <2>3, <2>4, <2>5, FailCoupled DEF BeginRead
  <2>6. CASE ~Expired(r)
    <3>1. Advance(r, e)
      BY <2>2, <2>3, <2>4, <2>6 DEF BeginRead
    <3>2. /\ e.send = "reading" /\ e.len = ex[r].len /\ e.tx = ex[r].tx /\ e.write = ex[r].write
      BY <1>1 DEF Exchange
    <3>. HIDE DEF e
    <3>3. pc'[r] = "exchange" /\ ex'[r] = e
      BY <2>1, <3>1, <3>2, AdvanceEffect DEF Joined
    <3>4. AnswerOf(r)' = AnswerOf(r)
      BY <1>4 DEF AnswerOf
    <3>5. (path = "/authenticate" => InStep(r))'
      BY <1>1, <1>2, <1>3, <1>4, <2>1, <3>2, <3>3, <3>4 DEF Coupled, InStep, size
    <3>. QED
      BY <1>3, <1>4, <1>6, <3>2, <3>3, <3>4, <3>5 DEF Coupled, Verdict
  <2>. QED
    BY <2>5, <2>6
<1>. QED
  BY <1>5, <1>6 DEF Answer

\* The runtime reads one unit of the answer.
LEMMA WriteUnitCoupled ==
  ASSUME ComposedInv, NEW r \in Request, WriteUnit(r)
  PROVE  BTypeOK' /\ Coupled(r)'
<1>. USE DEF ComposedInv, IndInv
<1>. DEFINE writer == CASE broker[r].left = 1 -> "publishing"
                        [] broker[r].left # 1 /\ credential[r] = "slow" -> "waiting"
                        [] OTHER -> "writing"
            b == [broker[r] EXCEPT !.left = @ - 1, !.writer = writer, !.wake = clock + 1]
<1>1. /\ broker[r] \in BrokerTask /\ broker[r].left > 0 /\ broker[r].left \in Nat
      /\ ex[r] \in Exchange /\ clock \in Nat
  BY DEF BTypeOK, TypeOK, WriteUnit, BrokerTask
<1>2. writer \in {"publishing", "waiting", "writing"} /\ (writer = "publishing" => broker[r].left = 1)
  OBVIOUS
<1>3. broker'[r] = b /\ path' = path /\ credential' = credential
  BY BecomesEffect DEF WriteUnit
<1>. HIDE DEF writer
<1>4. /\ b \in BrokerTask /\ b.handle = broker[r].handle /\ b.left = broker[r].left - 1
      /\ b.writer = writer
  <2>. DEFINE left == broker[r].left - 1
              wake == clock + 1
  <2>1. left \in Nat /\ wake \in Nat
    BY <1>1
  <2>2. b = [broker[r] EXCEPT !.left = left, !.writer = writer, !.wake = wake]
    OBVIOUS
  <2>. HIDE DEF left, wake, b
  <2>3. /\ b \in BrokerTask /\ b.handle = broker[r].handle /\ b.left = left /\ b.writer = writer
    BY <1>1, <1>2, <2>1, <2>2 DEF BrokerTask
  <2>. QED
    BY <2>3 DEF left
<1>5. BTypeOK'
  BY <1>4, BecomesEffect DEF WriteUnit, writer
<1>. HIDE DEF b
<1>6. Chunk(r) /\ pc[r] = "exchange" /\ ex[r].send = "reading" /\ UNCHANGED reply
  BY DEF WriteUnit, ReadUnit, Chunk, Reading
<1>7. broker[r].handle = "returned" /\ reply[r] = AnswerOf(r)
  BY <1>6 DEF Coupled
<1>8. PICK n \in 0..(reply[r].size - ex[r].len) :
        IF ex[r].len + n > Limit THEN Fail(r, "ResponseBody") ELSE BeginRead(r, Collect(r, n))
  BY <1>6 DEF Chunk
<1>9. reply[r].size \in Nat /\ ex[r].len \in Nat /\ n \in Nat
  BY <1>1, <1>7, AnswerFacts DEF Exchange
<1>10. CASE ex[r].len + n > Limit
  <2>1. reply[r].size > Limit
    BY <1>8, <1>9, <1>10, LimitAssumption
  <2>2. path = "/authenticate" => Expected(credential[r]) = "Unavailable"
    <3>1. \A token : Answers(token).status = "401" => Answers(token).size = 0
      BY DEF Answers, Object, Empty
    <3>2. ~(0 > Limit) /\ \A k \in Nat : k > Limit => ~(k <= Limit)
      BY LimitAssumption
    <3>. QED
      BY <1>7, <1>9, <2>1, <3>1, <3>2, AnswerFacts DEF Expected
  <2>. QED
    BY <1>3, <1>5, <1>8, <1>10, <2>2, FailCoupled
<1>11. CASE ~(ex[r].len + n > Limit) /\ Expired(r)
  BY <1>3, <1>5, <1>8, <1>11, FailCoupled DEF BeginRead
<1>12. CASE ~(ex[r].len + n > Limit) /\ ~Expired(r)
  <2>. DEFINE e == Collect(r, n)
  <2>1. Advance(r, e)
    BY <1>8, <1>12 DEF BeginRead
  <2>2. /\ e.send = "reading" /\ e.tx = ex[r].tx /\ e.write = ex[r].write
        /\ e.len = ex[r].len + n
    BY <1>1, <1>6, <1>9 DEF Exchange, Collect
  <2>. HIDE DEF e
  <2>3. pc'[r] = "exchange" /\ ex'[r] = e /\ outcome'[r] = outcome[r]
    BY <1>6, <2>1, <2>2, AdvanceEffect DEF Joined
  <2>4. outcome[r].stage = "none"
    BY <1>6 DEF Local, NoOutcome
  <2>5. ex'[r].len = ex[r].len + 1
    BY <2>3, <2>4 DEF WriteUnit, ReadUnit
  <2>6. AnswerOf(r)' = AnswerOf(r)
    BY <1>3 DEF AnswerOf
  <2>7. (path = "/authenticate" => InStep(r))'
    <3>. SUFFICES ASSUME path = "/authenticate" PROVE InStep(r)'
      BY <1>3
    <3>1. InStep(r)
      BY <1>6 DEF Coupled
    <3>2. ex'[r].len + b.left = AnswerOf(r).size
      BY <1>1, <1>4, <1>7, <1>9, <2>5, <3>1 DEF InStep
    <3>3. b.writer \in {"publishing", "done"} => b.left = 0
      BY <1>1, <1>2, <1>4
    <3>. QED
      BY <1>3, <1>4, <1>7, <2>2, <2>3, <2>6, <3>1, <3>2, <3>3 DEF InStep
  <2>. QED
    BY <1>3, <1>4, <1>5, <1>6, <1>7, <2>2, <2>3, <2>6, <2>7 DEF Coupled, Verdict
<1>. QED
  BY <1>10, <1>11, <1>12

\* The end of the answer and the result that the broker's report task awaits.
LEMMA EndCoupled ==
  ASSUME ComposedInv, NEW r \in Request, EndOfBody(r) \/ TakeReport(r)
  PROVE  BTypeOK' /\ Coupled(r)'
<1>. USE DEF ComposedInv, IndInv
<1>1. broker[r] \in BrokerTask /\ ex[r] \in Exchange
  BY DEF BTypeOK, TypeOK
<1>2. CASE EndOfBody(r)
  <2>1. /\ pc[r] = "exchange" /\ ex[r].send = "reading" /\ UNCHANGED reply
        /\ broker[r].writer \in {"publishing", "done"} /\ ex'[r].len = ex[r].len
        /\ broker'[r] = broker[r] /\ path' = path /\ credential' = credential /\ BTypeOK'
    BY <1>2 DEF EndOfBody, StreamEnd, Reading, bvars, BTypeOK
  <2>2. broker[r].handle = "returned" /\ reply[r] = AnswerOf(r)
    BY <2>1 DEF Coupled
  <2>3. PICK n \in 0..(reply[r].size - ex[r].len) :
          IF ex[r].len + n > Limit THEN Fail(r, "ResponseBody")
          ELSE Advance(r, [Collect(r, n) EXCEPT !.send = "publishing"])
    BY <1>2 DEF EndOfBody, StreamEnd
  <2>4. CASE ex[r].len + n > Limit /\ path # "/authenticate"
    BY <2>1, <2>3, <2>4, FailCoupled
  <2>5. path = "/authenticate" => ~(ex[r].len + n > Limit)
    <3>. SUFFICES ASSUME path = "/authenticate" PROVE ~(ex[r].len + n > Limit)
      OBVIOUS
    <3>1. broker[r].left = 0 /\ ex[r].len + broker[r].left = reply[r].size
      BY <2>1, <2>2 DEF Coupled, InStep
    <3>2. ex[r].len \in 0..Limit
      BY <1>1 DEF Exchange
    <3>. QED
      BY <2>3, <3>1, <3>2, LimitAssumption
  <2>6. CASE ~(ex[r].len + n > Limit)
    <3>. DEFINE e == [Collect(r, n) EXCEPT !.send = "publishing"]
    <3>1. Advance(r, e)
      BY <2>3, <2>6
    <3>2. e.send = "publishing" /\ e.tx = ex[r].tx /\ e.write = ex[r].write
      BY <1>1 DEF Collect, Exchange
    <3>. HIDE DEF e
    <3>3. pc'[r] = "exchange" /\ ex'[r] = e
      BY <2>1, <3>1, <3>2, AdvanceEffect DEF Joined
    <3>4. AnswerOf(r)' = AnswerOf(r)
      BY <2>1 DEF AnswerOf
    <3>5. (path = "/authenticate" => InStep(r))'
      BY <2>1, <2>2, <3>2, <3>3, <3>4 DEF Coupled, InStep
    <3>. QED
      BY <2>1, <2>2, <3>2, <3>3, <3>4, <3>5 DEF Coupled, Verdict
  <2>. QED
    BY <2>1, <2>4, <2>5, <2>6
<1>3. CASE TakeReport(r)
  <2>1. [broker[r] EXCEPT !.report = "done"] \in BrokerTask
    BY <1>1 DEF BrokerTask
  <2>2. /\ broker'[r] = [broker[r] EXCEPT !.report = "done"]
        /\ path' = path /\ credential' = credential /\ BTypeOK'
    BY <1>3, <2>1, BecomesEffect DEF TakeReport
  <2>3. CASE Gone(r) /\ UNCHANGED vars
    BY <2>2, <2>3, GoneCoupled
  <2>4. CASE PublishCollected(r) /\ ex'[r].send = "done"
    <3>1. pc[r] = "exchange" /\ ex[r].send = "publishing" /\ UNCHANGED reply
      BY <2>4 DEF PublishCollected
    <3>2. ~Fail(r, "ResponseBody")
      <4>. SUFFICES ASSUME Fail(r, "ResponseBody") PROVE FALSE
        OBVIOUS
      <4>. QED
        BY <2>4, FailEffect
    <3>. DEFINE e == [ex[r] EXCEPT !.send = "done"]
    <3>3. Advance(r, e)
      BY <2>4, <3>2 DEF PublishCollected
    <3>4. /\ e \in Exchange /\ e.send = "done" /\ e.len = ex[r].len
          /\ e.tx = ex[r].tx /\ e.write = ex[r].write
      BY <1>1 DEF Exchange
    <3>5. broker[r].handle = "returned" /\ reply[r] = AnswerOf(r)
      BY <3>1 DEF Coupled
    <3>6. path = "/authenticate" =>
            e.len = AnswerOf(r).size /\ e.write = "done" /\ e.tx = "done"
      <4>1. broker[r].left \in Nat /\ ex[r].len \in Nat
        BY <1>1, LimitAssumption DEF BrokerTask, Exchange
      <4>. HIDE DEF e
      <4>. QED
        BY <3>1, <3>4, <3>5, <4>1 DEF Coupled, InStep
    <3>. HIDE DEF e
    <3>7. CASE Joined(e)
      BY <2>2, <3>1, <3>3, <3>4, <3>5, <3>6, <3>7, JoinVerdict
    <3>8. CASE ~Joined(e)
      <4>1. path # "/authenticate"
        BY <3>4, <3>6, <3>8 DEF Joined
      <4>2. pc'[r] = "exchange" /\ ex'[r] = e /\ broker'[r].handle = "returned"
        BY <1>1, <2>2, <3>1, <3>3, <3>5, <3>8, AdvanceEffect DEF BrokerTask
      <4>3. AnswerOf(r)' = AnswerOf(r)
        BY <2>2 DEF AnswerOf
      <4>. QED
        BY <2>2, <3>1, <3>4, <3>5, <4>1, <4>2, <4>3 DEF Coupled, Verdict
    <3>. QED
      BY <2>2, <3>7, <3>8
  <2>. QED
    BY <1>3, <2>2, <2>3, <2>4 DEF TakeReport
<1>. QED
  BY <1>2, <1>3

\* The writer of the answer waits, wakes and ends by itself.
LEMMA WriterCoupled ==
  ASSUME ComposedInv, NEW r \in Request, Wake(r) \/ WriterStops(r) \/ WriterEnds(r)
  PROVE  BTypeOK' /\ Coupled(r)'
<1>. USE DEF ComposedInv, IndInv
<1>1. broker[r] \in BrokerTask /\ UNCHANGED vars
  BY DEF BTypeOK, Wake, WriterStops, WriterEnds
<1>2. PICK writer \in {"writing", "done"} :
         /\ Becomes(r, [broker[r] EXCEPT !.writer = writer])
         /\ writer = "done" => Gone(r) \/ broker[r].writer = "publishing"
  BY DEF Wake, WriterStops, WriterEnds
<1>. DEFINE b == [broker[r] EXCEPT !.writer = writer]
<1>3. /\ b \in BrokerTask /\ b.handle = broker[r].handle /\ b.left = broker[r].left
      /\ b.writer = writer
  BY <1>1 DEF BrokerTask
<1>4. broker'[r] = b /\ path' = path /\ credential' = credential /\ BTypeOK'
  BY <1>2, <1>3, BecomesEffect
<1>. HIDE DEF b
<1>5. CASE Gone(r)
  BY <1>1, <1>4, <1>5, GoneCoupled
<1>6. CASE pc[r] = "exchange"
  <2>1. AnswerOf(r)' = AnswerOf(r) /\ ex' = ex /\ pc' = pc /\ reply' = reply
    BY <1>1, <1>4 DEF AnswerOf, vars
  <2>2. ~Gone(r)
    BY <1>6 DEF Gone
  <2>3. (path = "/authenticate" => InStep(r))'
    BY <1>2, <1>3, <1>4, <1>6, <2>1, <2>2 DEF Coupled, InStep
  <2>. QED
    BY <1>3, <1>4, <1>6, <2>1, <2>3 DEF Coupled, Verdict
<1>7. CASE pc[r] = "new"
  BY <1>7 DEF Coupled, Idle, Wake, WriterStops, WriterEnds
<1>. QED
  BY <1>5, <1>6, <1>7 DEF Gone, TypeOK

\* The coupling is kept by every step.
THEOREM CoupledAlways == BSpec => []ComposedInv
<1>1. BInit => ComposedInv
  <2>. SUFFICES ASSUME BInit PROVE ComposedInv
    OBVIOUS
  <2>1. IndInv
    BY InitIndInv DEF BInit
  <2>2. Idle \in BrokerTask
    BY DEF Idle, BrokerTask
  <2>3. BTypeOK
    BY <2>2 DEF BInit, BTypeOK
  <2>4. \A r \in Request : Coupled(r)
    BY DEF BInit, Init, Coupled, Verdict
  <2>. QED
    BY <2>1, <2>3, <2>4 DEF ComposedInv
<1>2. ComposedInv /\ [BNext]_<<vars, bvars>> => ComposedInv'
  <2>. SUFFICES ASSUME ComposedInv, [BNext]_<<vars, bvars>> PROVE ComposedInv'
    OBVIOUS
  <2>1. IndInv'
    BY BNextIsNext, NextIndInv DEF ComposedInv
  <2>2. ASSUME NEW r \in Request, Alone(r) \/ Protocol(r)
        PROVE  BTypeOK' /\ \A q \in Request : Coupled(q)'
    <3>1. BTypeOK' /\ Coupled(r)'
      BY <2>2, AloneCoupled, RequestCoupled, WriteCutCoupled, AnswerCoupled, WriteUnitCoupled,
         EndCoupled, WriterCoupled DEF Protocol
    <3>2. ASSUME NEW q \in Request, q # r PROVE Coupled(q)'
      <4>1. Step(r) \/ UNCHANGED vars
        BY <2>2 DEF Alone, Protocol, Receive, TakeBody, SeeEnd, TakeTrailers, TrailersDefault,
                    WriteResult, WriteCut, Answer, WriteUnit, ReadUnit, Wake, WriterStops,
                    EndOfBody, WriterEnds, TakeReport, Step
      <4>2. RuntimeKeeps(q)
        BY <3>2, <4>1, StepKeeps DEF ComposedInv, IndInv, RuntimeKeeps, vars
      <4>3. (\E b : Becomes(r, b)) \/ UNCHANGED bvars
        BY <2>2 DEF Alone, Protocol, Receive, TakeBody, SeeEnd, TakeTrailers, TrailersDefault,
                    WriteResult, WriteCut, Answer, WriteUnit, Wake, WriterStops,
                    EndOfBody, WriterEnds, TakeReport, Moves
      <4>4. broker'[q] = broker[q] /\ path' = path /\ credential' = credential
        BY <3>2, <4>3, BecomesEffect DEF ComposedInv, bvars
      <4>. QED
        BY <4>2, <4>4, CoupledFrame DEF ComposedInv
    <3>. QED
      BY <3>1, <3>2
  <2>3. CASE BTick \/ UNCHANGED <<vars, bvars>>
    <3>1. ASSUME NEW q \in Request PROVE Coupled(q)'
      <4>1. RuntimeKeeps(q) /\ UNCHANGED bvars
        BY <2>3 DEF BTick, Tick, RuntimeKeeps, vars
      <4>. QED
        BY <4>1, CoupledFrame DEF ComposedInv, bvars
    <3>2. BTypeOK'
      BY <2>3 DEF BTick, ComposedInv, BTypeOK, bvars
    <3>. QED
      BY <2>1, <3>1, <3>2 DEF ComposedInv
  <2>. QED
    BY <2>1, <2>2, <2>3 DEF BNext, ComposedInv
<1>. QED
  BY <1>1, <1>2, PTL DEF BSpec

\* Whatever the order in which the futures of the runtime and the tasks of the
\* broker run, an exchange that is admitted and in time ends with the broker's
\* verdict on the token.
THEOREM VerdictCorrect == BSpec => []VerdictDelivered
<1>1. ComposedInv => VerdictDelivered
  BY DEF ComposedInv, Coupled, Verdict, VerdictDelivered
<1>. QED
  BY <1>1, CoupledAlways, PTL
-----------------------------------------------------------------------------
(* What EndsUnaided and BrokerQuiesces rest on: nobody waits in a circle. *)

\* An answer that is under way has its writer and its report; a broker that does
\* not know the path never reads, so the runtime's body is never taken.
Attended(r) ==
    pc[r] = "exchange" =>
        IF path = "/authenticate"
          THEN broker[r].handle = "returned" =>
                 /\ broker[r].report = "waiting" /\ broker[r].writer # "none"
                 /\ broker[r].writer \in {"writing", "waiting"} => broker[r].left > 0
          ELSE broker[r].handle \in {"idle", "answer", "returned"}
                 /\ ex[r].write \in {"writing", "cut"}

AttendedInv ==
    /\ ComposedInv
    /\ credential \in [Request -> Credential]
    /\ \A r \in Request : Attended(r)

\* The broker's tasks for a request have ended, or never began.
Quiet(r) ==
    /\ broker[r].handle \in {"idle", "returned", "error"}
    /\ broker[r].writer \in {"none", "done"} /\ broker[r].report \in {"none", "done"}

\* The steps of the protocol that need no more than their two sides, by their
\* guards: each await of the broker with its counterpart in the runtime, then
\* those that the runtime has left alone.  A writer that sleeps waits for its
\* timer only.
CanMove(r) ==
    LET e == ex[r]
        b == broker[r]
    IN  \/ Sending(r) /\ b.handle = "idle"
        \/ pc[r] = "exchange" /\ b.handle = "reading" /\ e.write = "writing"
        \/ b.handle = "read"
        \/ pc[r] = "exchange" /\ b.handle = "trailers" /\ e.write = "written"
        \/ pc[r] = "exchange" /\ b.handle = "result" /\ e.tx = "waiting"
        \/ Sending(r) /\ b.handle = "answer" /\ AnswerOf(r) \in Reply
        \/ Reading(r) /\ b.writer = "writing" /\ b.left > 0 /\ e.len < reply[r].size
        \/ b.writer = "waiting"
        \/ Reading(r) /\ b.writer \in {"publishing", "done"}
        \/ pc[r] = "exchange" /\ e.send = "publishing" /\ b.report = "waiting"
        \/ pc[r] = "exchange" /\ Unread(r) /\ e.write # "done"
        \/ Gone(r) /\ b.handle \in {"reading", "trailers", "result", "answer"}
        \/ Gone(r) /\ b.writer \in {"writing", "publishing"}
        \/ Gone(r) /\ b.report = "waiting"

\* Only write_body and the publication of its result touch the writer's state.
LEMMA WriteKept ==
  ASSUME TypeOK, NEW r \in Request, pc'[r] = "exchange",
         Respond(r) \/ Chunk(r) \/ StreamEnd(r) \/ PublishCollected(r) \/ Transmission(r)
  PROVE  pc[r] = "exchange" /\ ex'[r].write = ex[r].write
<1>1. ex[r] \in Exchange
  BY DEF TypeOK
<1>2. pc[r] = "exchange"
  BY DEF Respond, Chunk, StreamEnd, PublishCollected, Transmission, Sending, Reading
<1>3. ASSUME NEW error, Fail(r, error) PROVE FALSE
  BY <1>3, FailEffect
<1>4. \A error : ~Fail(r, error)
  BY <1>3
<1>5. ASSUME NEW e, Advance(r, e), e.write = ex[r].write PROVE ex'[r].write = ex[r].write
  BY <1>5, AdvanceEffect
<1>6. CASE Respond(r)
  <2>1. Advance(r, [ex[r] EXCEPT !.send = "reading"])
    BY <1>4, <1>6 DEF Respond, BeginRead
  <2>. QED
    BY <1>1, <1>2, <1>5, <2>1 DEF Exchange
<1>7. CASE Chunk(r)
  <2>1. PICK n : Advance(r, Collect(r, n))
    BY <1>4, <1>7 DEF Chunk, BeginRead
  <2>2. Collect(r, n).write = ex[r].write
    BY <1>1 DEF Collect, Exchange
  <2>. QED
    BY <1>2, <1>5, <2>1, <2>2
<1>8. CASE StreamEnd(r)
  <2>1. PICK n : Advance(r, [Collect(r, n) EXCEPT !.send = "publishing"])
    BY <1>4, <1>8 DEF StreamEnd
  <2>2. [Collect(r, n) EXCEPT !.send = "publishing"].write = ex[r].write
    BY <1>1 DEF Collect, Exchange
  <2>. QED
    BY <1>2, <1>5, <2>1, <2>2
<1>9. CASE PublishCollected(r)
  <2>1. Advance(r, [ex[r] EXCEPT !.send = "done"])
    BY <1>4, <1>9 DEF PublishCollected
  <2>. QED
    BY <1>1, <1>2, <1>5, <2>1 DEF Exchange
<1>10. CASE Transmission(r)
  <2>1. Advance(r, [ex[r] EXCEPT !.tx = "done"])
    BY <1>4, <1>10 DEF Transmission
  <2>. QED
    BY <1>1, <1>2, <1>5, <2>1 DEF Exchange
<1>. QED
  BY <1>2, <1>6, <1>7, <1>8, <1>9, <1>10

\* The steps of a request keep its answer attended.
LEMMA StepAttended ==
  ASSUME ComposedInv, ComposedInv', NEW r \in Request, Attended(r), Alone(r) \/ Protocol(r)
  PROVE  Attended(r)'
<1>. SUFFICES ASSUME pc'[r] = "exchange" PROVE Attended(r)'
  BY DEF Attended
<1>1. /\ TypeOK /\ BTypeOK /\ Coupled(r) /\ Coupled(r)'
      /\ broker[r] \in BrokerTask /\ ex[r] \in Exchange
  BY DEF ComposedInv, IndInv, BTypeOK, TypeOK
<1>2. \A error : ~Fail(r, error)
  <2>1. ASSUME NEW error, Fail(r, error) PROVE FALSE
    BY <1>1, <2>1, FailEffect
  <2>. QED
    BY <2>1
<1>3. UNCHANGED vars => pc[r] = "exchange" /\ ex'[r] = ex[r] /\ ~Gone(r)
  BY DEF vars, Gone
<1>4. CASE Alone(r)
  <2>1. broker'[r] = broker[r] /\ path' = path
    BY <1>4 DEF Alone, bvars
  <2>2. Admit(r)
    BY <1>1, <1>2, <1>4
       DEF Alone, RejectMalformed, NoCredentials, RefuseAdmission, ReturnEarly, Deadline,
           Cancel, Leave, TypeOK
  <2>3. broker[r] = Idle /\ ex'[r] = NewExchange(clock)
    BY <1>1, <2>2 DEF Admit, Coupled, TypeOK
  <2>. QED
    BY <2>1, <2>3 DEF Attended, Idle, NewExchange
<1>5. CASE Receive(r)
  <2>1. broker'[r] = [broker[r] EXCEPT !.handle =
                        IF path = "/authenticate" THEN "reading" ELSE "answer"]
        /\ path' = path
    BY <1>1, <1>5, BecomesEffect DEF Receive, Moves
  <2>. QED
    BY <1>1, <1>3, <1>5, <2>1 DEF Receive, Attended, BrokerTask
<1>6. CASE TakeBody(r) \/ SeeEnd(r) \/ TakeTrailers(r) \/ TrailersDefault(r) \/ WriteResult(r)
  <2>1. PICK handle \in {"read", "trailers", "result", "answer", "error"} : Moves(r, handle)
    BY <1>6 DEF TakeBody, SeeEnd, TakeTrailers, TrailersDefault, WriteResult
  <2>2. broker'[r] = [broker[r] EXCEPT !.handle = handle] /\ path' = path
    BY <1>1, <2>1, BecomesEffect DEF Moves
  <2>3. broker'[r].handle # "returned"
    BY <1>1, <2>2 DEF BrokerTask
  <2>4. pc[r] = "exchange" /\ broker[r].handle \in {"reading", "read", "trailers", "result"}
    BY <1>3, <1>6 DEF TakeBody, SeeEnd, TakeTrailers, TrailersDefault, WriteResult,
                      WriteBody, PublishBodyResult, Transmission
  <2>5. path = "/authenticate"
    BY <2>4 DEF Attended
  <2>. QED
    BY <2>2, <2>3, <2>5 DEF Attended
<1>7. CASE WriteCut(r)
  <2>1. broker'[r] = broker[r] /\ path' = path /\ path # "/authenticate" /\ pc[r] = "exchange"
    BY <1>7 DEF WriteCut, Unread, bvars, WriteBody, PublishBodyResult, Transmission
  <2>2. ex'[r].write \in {"writing", "cut"}
    <3>1. CASE Transmission(r)
      BY <1>1, <2>1, <3>1, WriteKept DEF Attended
    <3>2. ~PublishBodyResult(r)
      BY <1>2, <2>1 DEF PublishBodyResult, Attended
    <3>. QED
      BY <1>7, <3>1, <3>2 DEF WriteCut
  <2>. QED
    BY <2>1, <2>2 DEF Attended
<1>8. CASE Answer(r)
  <2>1. broker'[r] = AnsweredBy(r) /\ path' = path
    BY <1>1, <1>8, BecomesEffect DEF Answer
  <2>2. AnswerOf(r).size \in Nat
    BY AnswerFacts
  <2>3. /\ broker'[r].handle = "returned" /\ broker'[r].report = "waiting"
        /\ broker'[r].left = AnswerOf(r).size
        /\ broker'[r].writer = IF AnswerOf(r).size = 0 THEN "done" ELSE "writing"
    BY <1>1, <2>1 DEF AnsweredBy, BrokerTask
  <2>4. pc[r] = "exchange" /\ ex'[r].write = ex[r].write
    BY <1>1, <1>3, <1>8, WriteKept DEF Answer
  <2>. QED
    BY <2>1, <2>2, <2>3, <2>4 DEF Attended
<1>9. CASE WriteUnit(r)
  <2>. DEFINE w == CASE broker[r].left = 1 -> "publishing"
                     [] broker[r].left # 1 /\ credential[r] = "slow" -> "waiting"
                     [] OTHER -> "writing"
  <2>1. /\ broker'[r] = [broker[r] EXCEPT !.left = @ - 1, !.writer = w, !.wake = clock + 1]
        /\ path' = path /\ broker[r].left > 0
    BY <1>1, <1>9, BecomesEffect DEF WriteUnit
  <2>2. /\ broker'[r].left = broker[r].left - 1 /\ broker'[r].writer = w
        /\ broker'[r].handle = broker[r].handle /\ broker'[r].report = broker[r].report
        /\ broker[r].left \in Nat
    BY <1>1, <2>1 DEF BrokerTask
  <2>3. pc[r] = "exchange" /\ ex'[r].write = ex[r].write
    BY <1>1, <1>9, WriteKept DEF WriteUnit, ReadUnit
  <2>4. w # "none" /\ (w \in {"writing", "waiting"} => broker[r].left - 1 > 0)
    <3>1. w \in {"publishing", "writing", "waiting"} /\ (w # "publishing" => broker[r].left # 1)
      OBVIOUS
    <3>. HIDE DEF w
    <3>. QED
      BY <2>1, <2>2, <3>1
  <2>. HIDE DEF w
  <2>. QED
    BY <2>1, <2>2, <2>3, <2>4 DEF Attended
<1>10. CASE Wake(r) \/ WriterStops(r) \/ WriterEnds(r)
  <2>1. PICK writer \in {"writing", "done"} :
           /\ broker'[r] = [broker[r] EXCEPT !.writer = writer]
           /\ writer = "writing" => broker[r].writer = "waiting"
    BY <1>1, <1>10, BecomesEffect DEF Wake, WriterStops, WriterEnds
  <2>2. path' = path /\ UNCHANGED vars
    BY <1>10 DEF Wake, WriterStops, WriterEnds, Becomes
  <2>3. /\ broker'[r].left = broker[r].left /\ broker'[r].writer = writer
        /\ broker'[r].handle = broker[r].handle /\ broker'[r].report = broker[r].report
    BY <1>1, <2>1 DEF BrokerTask
  <2>. QED
    BY <1>3, <2>1, <2>2, <2>3 DEF Attended
<1>11. CASE EndOfBody(r)
  <2>1. broker'[r] = broker[r] /\ path' = path
    BY <1>11 DEF EndOfBody, bvars
  <2>2. pc[r] = "exchange" /\ ex'[r].write = ex[r].write
    BY <1>1, <1>11, WriteKept DEF EndOfBody
  <2>. QED
    BY <2>1, <2>2 DEF Attended
<1>12. CASE TakeReport(r)
  <2>1. /\ broker'[r] = [broker[r] EXCEPT !.report = "done"]
        /\ path' = path /\ PublishCollected(r) /\ ex'[r].send = "done"
    BY <1>1, <1>3, <1>12, BecomesEffect DEF TakeReport
  <2>2. path # "/authenticate"
    BY <1>1, <2>1 DEF Coupled, InStep
  <2>3. pc[r] = "exchange" /\ ex'[r].write = ex[r].write
    BY <1>1, <2>1, WriteKept
  <2>4. broker'[r].handle = broker[r].handle
    BY <1>1, <2>1 DEF BrokerTask
  <2>. QED
    BY <2>1, <2>2, <2>3, <2>4 DEF Attended
<1>. QED
  BY <1>4, <1>5, <1>6, <1>7, <1>8, <1>9, <1>10, <1>11, <1>12 DEF Protocol

\* Every step keeps every answer attended.
LEMMA NextAttended == AttendedInv /\ ComposedInv' /\ [BNext]_<<vars, bvars>> => AttendedInv'
<1>. SUFFICES ASSUME AttendedInv, ComposedInv', [BNext]_<<vars, bvars>> PROVE AttendedInv'
  OBVIOUS
<1>1. /\ ComposedInv /\ TypeOK /\ BTypeOK /\ credential \in [Request -> Credential]
      /\ \A q \in Request : Attended(q)
  BY DEF AttendedInv, ComposedInv, IndInv
<1>2. ASSUME NEW q \in Request, RuntimeKeeps(q), broker'[q] = broker[q], path' = path
      PROVE  Attended(q)'
  BY <1>1, <1>2 DEF Attended, RuntimeKeeps
<1>3. ASSUME NEW r \in Request, Alone(r) \/ Protocol(r) PROVE AttendedInv'
  <2>1. Step(r) \/ UNCHANGED vars
    BY <1>3 DEF Alone, Protocol, Receive, TakeBody, SeeEnd, TakeTrailers, TrailersDefault,
                WriteResult, WriteCut, Answer, WriteUnit, ReadUnit, Wake, WriterStops,
                EndOfBody, WriterEnds, TakeReport, Step
  <2>2. (\E b : Becomes(r, b)) \/ UNCHANGED bvars
    BY <1>3 DEF Alone, Protocol, Receive, TakeBody, SeeEnd, TakeTrailers, TrailersDefault,
                WriteResult, WriteCut, Answer, WriteUnit, Wake, WriterStops,
                EndOfBody, WriterEnds, TakeReport, Moves
  <2>3. path' = path /\ credential' = credential
        /\ \A q \in Request : q # r => broker'[q] = broker[q]
    BY <1>1, <2>2, BecomesEffect DEF bvars
  <2>4. ASSUME NEW q \in Request, q # r PROVE Attended(q)'
    <3>1. RuntimeKeeps(q)
      BY <1>1, <2>1, <2>4, StepKeeps DEF RuntimeKeeps, vars
    <3>. QED
      BY <1>2, <2>3, <2>4, <3>1
  <2>5. Attended(r)'
    BY <1>1, <1>3, StepAttended
  <2>. QED
    BY <1>1, <2>3, <2>4, <2>5 DEF AttendedInv
<1>4. CASE BTick \/ UNCHANGED <<vars, bvars>>
  <2>1. UNCHANGED bvars /\ \A q \in Request : RuntimeKeeps(q)
    BY <1>4 DEF BTick, Tick, RuntimeKeeps, vars
  <2>2. \A q \in Request : Attended(q)'
    BY <1>2, <2>1 DEF bvars
  <2>. QED
    BY <1>1, <2>1, <2>2 DEF AttendedInv, bvars
<1>. QED
  BY <1>3, <1>4 DEF BNext

\* However many requests there are, however long the answers and wherever the
\* runtime left, an exchange that is open and a broker task that is not over have
\* a step to take whose two sides are ready, or a timer to wait for: the handler,
\* its writer and its report, and the three futures of the runtime, never wait for
\* each other in a circle.  The broker's answers are assumed to be among those the
\* runtime is given.
THEOREM NobodyWaitsInACircle ==
  ASSUME \A token \in Credential : Answers(token) \in Reply, NotFound \in Reply
  PROVE  BSpec => [](\A r \in Request : pc[r] = "exchange" \/ ~Quiet(r) => CanMove(r))
<1>1. BInit /\ ComposedInv => AttendedInv
  BY DEF BInit, Init, AttendedInv, Attended
<1>2. AttendedInv => \A r \in Request : pc[r] = "exchange" \/ ~Quiet(r) => CanMove(r)
  <2>. SUFFICES ASSUME AttendedInv, NEW r \in Request, pc[r] = "exchange" \/ ~Quiet(r)
                PROVE  CanMove(r)
    OBVIOUS
  <2>1. /\ Coupled(r) /\ Attended(r) /\ broker[r] \in BrokerTask /\ ex[r] \in Exchange
        /\ pc[r] \in {"new", "exchange", "done", "cancelled"} /\ credential[r] \in Credential
    BY DEF AttendedInv, ComposedInv, IndInv, BTypeOK, TypeOK
  <2>2. pc[r] # "new"
    BY <2>1 DEF Coupled, Idle, Quiet
  <2>3. CASE Gone(r)
    BY <2>1, <2>3 DEF Gone, Quiet, CanMove, BrokerTask
  <2>4. CASE pc[r] = "exchange" /\ path = "/authenticate"
    <3>1. AnswerOf(r) \in Reply
      BY <2>1, <2>4 DEF AnswerOf
    <3>2. CASE broker[r].handle = "returned"
      <4>1. /\ broker[r].left \in Nat /\ ex[r].len \in Nat
            /\ ex[r].len + broker[r].left = reply[r].size
            /\ ex[r].send \in {"reading", "publishing"}
        BY <2>1, <2>4, <3>2, LimitAssumption DEF Coupled, InStep, BrokerTask, Exchange
      <4>2. broker[r].left > 0 => ex[r].len < reply[r].size
        BY <4>1
      <4>. QED
        BY <2>1, <2>4, <3>2, <4>1, <4>2 DEF CanMove, Attended, Reading, BrokerTask
    <3>3. CASE broker[r].handle # "returned"
      BY <2>1, <2>4, <3>1, <3>3 DEF CanMove, Coupled, InStep, Sending, BrokerTask
    <3>. QED
      BY <3>2, <3>3
  <2>5. CASE pc[r] = "exchange" /\ path # "/authenticate"
    <3>1. AnswerOf(r) \in Reply
      BY <2>5 DEF AnswerOf
    <3>. QED
      BY <2>1, <2>5, <3>1 DEF CanMove, Attended, Coupled, Unread, Sending
  <2>. QED
    BY <2>1, <2>2, <2>3, <2>4, <2>5 DEF Gone
<1>. QED
  BY <1>1, <1>2, NextAttended, CoupledAlways, PTL DEF BSpec
===============================================================================
