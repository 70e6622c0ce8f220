----------------------------- MODULE StreamRelay -----------------------------
(***************************************************************************)
(* A message body that travels through N stacked wrappers of               *)
(* crates/component-support.  Each wrapper consumes message i-1, moves its *)
(* body stream and trailers future into a new message i, and spawns a      *)
(* relay that awaits the transmission result of i and writes it as the     *)
(* body result of i-1.  Message 0 belongs to the producer, message N is    *)
(* handed to the consumer.  The same code serves both directions: a        *)
(* response goes from the terminal service to the host, a request body     *)
(* from the host to the service.  echo_body of the echo service joins the  *)
(* two: it is the wrapper that turns the request body back into the body   *)
(* of its response, so that a body runs from the client in through the     *)
(* middleware, round, and out through the same middleware.                 *)
(*                                                                         *)
(* The producers are those of test-components/echo-service.  The consumer  *)
(* is the host, modelled from how the code uses it: it reads the stream,   *)
(* then the trailers future, and resolves the transmission result; an      *)
(* error of any message's transmission cancels its producer.               *)
(***************************************************************************)
EXTENDS Naturals

CONSTANTS
    N,          \* the number of stacked wrappers
    Script      \* what producers may do

ASSUME NAssumption == N \in Nat

\* frames to write; pause: wait for the frames to be delivered before closing;
\* result: what becomes of the producer's body-result future ("dropped": its
\* writer is dropped unwritten); echo: the wrapper that is echo_body if the
\* producer is a client whose body is echoed, 0 otherwise.
Scripts == [frames : Nat, pause : BOOLEAN, result : {"ok", "error", "dropped"}, echo : Nat]

ASSUME ScriptAssumption == Script \subseteq Scripts

VARIABLES
    script,     \* the producer's script
    built,      \* wrappers applied so far
    alive,      \* FALSE once a wrapper has returned Err
    stream,     \* the producer's stream: open, closed, cut (reader dropped)
    trailers,   \* the body-result future the producer writes
    sent,       \* frames accepted by the consumer
    delivered,  \* frames that reached the consumer's peer
    tx,         \* transmission result of every message
    peer        \* what the consumer's peer saw: ok, error, gone

vars == <<script, built, alive, stream, trailers, sent, delivered, tx, peer>>

Messages == 0..N

Init ==
    /\ script \in Script
    /\ built = 0
    /\ alive = TRUE
    /\ stream = "open"
    /\ trailers = "pending"
    /\ sent = 0
    /\ delivered = 0
    /\ tx = [i \in Messages |-> "pending"]
    /\ peer = "waiting"
-----------------------------------------------------------------------------
(* The wrappers *)

Wrap ==
    /\ alive /\ built < N /\ built + 1 # script.echo
    /\ built' = built + 1
    /\ UNCHANGED <<script, alive, stream, trailers, sent, delivered, tx, peer>>

\* A header edit is refused before the message is consumed, or the metadata
\* (status) cannot be restored after the new message and its relay exist: the
\* last message is dropped, which resolves its transmission result, and Err
\* travels outwards.
WrapFails ==
    /\ alive /\ built < N /\ built + 1 # script.echo
    /\ \E b \in {built, built + 1} :
        /\ built' = b
        /\ tx' = [tx EXCEPT ![b] = "error"]
    /\ alive' = FALSE
    /\ peer' = "error"
    /\ UNCHANGED <<script, stream, trailers, sent, delivered>>

\* echo_body: the stream and the trailers future of the request become those of
\* the response; its spawned task is the relay of this wrapper.
EchoBody ==
    /\ alive /\ built < N /\ built + 1 = script.echo
    /\ built' = built + 1
    /\ UNCHANGED <<script, alive, stream, trailers, sent, delivered, tx, peer>>

\* The response's headers are refused once the request is consumed: its result
\* writer is dropped unwritten, which resolves the result to the default error.
EchoFails ==
    /\ alive /\ built < N /\ built + 1 = script.echo
    /\ tx' = [tx EXCEPT ![built] = "error"]
    /\ alive' = FALSE
    /\ peer' = "error"
    /\ UNCHANGED <<script, built, stream, trailers, sent, delivered>>

\* The spawned relay of wrapper i.
RelayDiscarded(i) ==
    /\ i <= built
    /\ tx[i - 1] = "pending"
    /\ tx' = [tx EXCEPT ![i - 1] = "error"]
    /\ UNCHANGED <<script, built, alive, stream, trailers, sent, delivered, peer>>

RelayOnlySuccess(i) ==
    /\ i <= built
    /\ tx[i] = "ok" /\ tx[i - 1] = "pending"
    /\ tx' = [tx EXCEPT ![i - 1] = tx[i]]
    /\ UNCHANGED <<script, built, alive, stream, trailers, sent, delivered, peer>>

Relay(i) ==
    /\ i <= built
    /\ tx[i] # "pending" /\ tx[i - 1] = "pending"
    /\ tx' = [tx EXCEPT ![i - 1] = tx[i]]
    /\ UNCHANGED <<script, built, alive, stream, trailers, sent, delivered, peer>>
-----------------------------------------------------------------------------
(* The producer *)

\* write_all completes a frame when the consumer reads it.
WriteFrame ==
    /\ alive /\ built = N
    /\ stream = "open" /\ tx[N] = "pending"
    /\ sent < script.frames
    /\ sent' = sent + 1
    /\ UNCHANGED <<script, built, alive, stream, trailers, delivered, tx, peer>>

\* drop(writer), after every frame has been written.
CloseStream ==
    /\ stream = "open"
    /\ sent = script.frames
    /\ script.pause => delivered = sent
    /\ stream' = "closed"
    /\ UNCHANGED <<script, built, alive, trailers, sent, delivered, tx, peer>>

\* The value the reader of a body-result future gets: the default given to
\* wit_future::new if the writer is dropped.
ResolvedDefaultOk(result) == IF result = "error" THEN "error" ELSE "ok"

Resolved(result) == IF result = "ok" THEN "ok" ELSE "error"

PublishResult ==
    /\ stream = "closed" /\ trailers = "pending"
    /\ trailers' = Resolved(script.result)
    /\ UNCHANGED <<script, built, alive, stream, sent, delivered, tx, peer>>

\* write_all returned what it could not write: the task returns and drops both
\* writers.
GiveUp ==
    /\ stream = "cut" /\ trailers = "pending"
    /\ trailers' = Resolved("dropped")
    /\ UNCHANGED <<script, built, alive, stream, sent, delivered, tx, peer>>
-----------------------------------------------------------------------------
(* The consumer: the host (external) *)

Flush ==
    /\ peer = "waiting"
    /\ delivered < sent
    /\ delivered' = delivered + 1
    /\ UNCHANGED <<script, built, alive, stream, trailers, sent, tx, peer>>

\* A clean end is reported once everything is flushed; an error ends the
\* connection at once.
Finish ==
    /\ alive /\ built = N /\ tx[N] = "pending"
    /\ stream # "open" /\ trailers # "pending"
    /\ trailers = "ok" => delivered = sent
    /\ tx' = [tx EXCEPT ![N] = trailers]
    /\ peer' = trailers
    /\ UNCHANGED <<script, built, alive, stream, trailers, sent, delivered>>

Disconnect ==
    /\ alive /\ built = N /\ tx[N] = "pending"
    /\ tx' = [tx EXCEPT ![N] = "error"]
    /\ peer' = "gone"
    /\ UNCHANGED <<script, built, alive, stream, trailers, sent, delivered>>

CancelProducer ==
    /\ stream = "open"
    /\ \E i \in Messages : tx[i] = "error"
    /\ stream' = "cut"
    /\ UNCHANGED <<script, built, alive, trailers, sent, delivered, tx, peer>>

Next ==
    \/ Wrap \/ WrapFails \/ EchoBody \/ EchoFails \/ \E i \in 1..N : Relay(i)
    \/ WriteFrame \/ CloseStream \/ PublishResult \/ GiveUp
    \/ Flush \/ Finish \/ Disconnect \/ CancelProducer

Spec == Init /\ [][Next]_vars

\* Handlers, spawned relays and the producer's task keep running, and the host
\* keeps reading; nothing obliges a wrapper to fail or the peer to leave.
FairSpec ==
    /\ Spec
    /\ WF_vars(Wrap) /\ WF_vars(EchoBody) /\ WF_vars(WriteFrame) /\ WF_vars(CloseStream)
    /\ WF_vars(PublishResult) /\ WF_vars(GiveUp)
    /\ WF_vars(Flush) /\ WF_vars(Finish) /\ WF_vars(CancelProducer)
    /\ \A i \in 1..N : WF_vars(Relay(i))
-----------------------------------------------------------------------------
(* Properties *)

Result == {"pending", "ok", "error"}

\* Every variable has its type; the peer never sees more frames than the
\* producer wrote.
TypeOK ==
    /\ script \in Script
    /\ built \in 0..N
    /\ alive \in BOOLEAN
    /\ stream \in {"open", "closed", "cut"}
    /\ trailers \in Result
    /\ sent \in 0..script.frames
    /\ delivered \in 0..sent
    /\ tx \in [Messages -> Result]
    /\ peer \in {"waiting", "ok", "error", "gone"}

\* The relays invent nothing: a result known for a message is the result
\* already known for every message further out, up to the consumer's own.  An
\* upstream producer is never told of an error before one happened.
TruthRelayed == \A i, j \in 0..built :
    i < j /\ tx[i] # "pending" => tx[j] = tx[i]

\* Success is complete: neither the peer nor the producer is told that the
\* transmission succeeded unless every frame was delivered and the producer
\* published a success.
SuccessIsComplete ==
    tx[0] = "ok" \/ peer = "ok" =>
        peer = "ok" /\ delivered = script.frames /\ script.result = "ok"

\* docs/ARCHITECTURE.md, "Streaming invariant": when the stream fails after an
\* observable pause, the frames written before it are delivered before the
\* error, through any number of wrappers.
FramesBeforeError ==
    script.pause /\ alive /\ peer = "error" => delivered = script.frames

\* Nobody hangs: the peer sees an end and the producer learns the result, also
\* when the body result fails at once or a wrapper returns an error.
EveryoneLearns == <>(peer # "waiting" /\ tx[0] # "pending")
=============================================================================
