--------------------------- MODULE StreamRelayProofs ---------------------------
(***************************************************************************)
(* StreamRelay for any number of wrappers and any producers.  While the    *)
(* chain is being built nothing is resolved; a clean end of the trailers   *)
(* implies that the stream was closed after its last frame.  With these    *)
(* two facts the relayed truth and the completeness of a success are       *)
(* inductive.                                                              *)
(***************************************************************************)
EXTENDS StreamRelay, FiniteSetTheorems, WellFoundedInduction, TLAPS

\* No result exists before the outermost message does.
BuildingPending ==
    alive /\ built < N => \A i \in Messages : tx[i] = "pending"

\* The stream is closed only after the last frame, and trailers are clean only
\* after that and only if the producer said so.
CleanTrailers ==
    /\ stream = "closed" => sent = script.frames
    /\ trailers = "ok" => stream = "closed" /\ script.result = "ok"

\* A success known anywhere is one the peer saw, with every frame.
OkReachedPeer ==
    /\ \A i \in Messages : tx[i] = "ok" => peer = "ok"
    /\ peer = "ok" => /\ delivered = script.frames /\ script.result = "ok"
                      /\ stream = "closed" /\ trailers = "ok"
                      /\ tx[N] = "ok" /\ built = N

IndInv == TypeOK /\ TruthRelayed /\ BuildingPending /\ CleanTrailers /\ OkReachedPeer

\* Init establishes the inductive invariant.
LEMMA InitIndInv == Init => IndInv
  BY NAssumption, ScriptAssumption
     DEF Init, IndInv, TypeOK, TruthRelayed, BuildingPending, CleanTrailers,
         OkReachedPeer, Scripts, Messages, Result

\* Steps that resolve no transmission result and touch neither the chain nor
\* what the peer saw keep the facts about results.
LEMMA ResultsFrame ==
  ASSUME TruthRelayed, BuildingPending, UNCHANGED <<built, alive, tx>>
  PROVE  TruthRelayed' /\ BuildingPending'
  BY DEF TruthRelayed, BuildingPending

\* Every step preserves the inductive invariant.
LEMMA NextIndInv == IndInv /\ [Next]_vars => IndInv'
<1>. SUFFICES ASSUME IndInv, [Next]_vars PROVE IndInv'
  OBVIOUS
<1>. USE NAssumption DEF IndInv, Messages
<1>0. script.frames \in Nat /\ sent \in Nat /\ delivered \in Nat
  BY ScriptAssumption DEF TypeOK, Scripts
<1>1. CASE Wrap \/ EchoBody
  <2>1. TypeOK' /\ CleanTrailers' /\ OkReachedPeer'
    BY <1>1 DEF Wrap, EchoBody, TypeOK, CleanTrailers, OkReachedPeer
  <2>2. TruthRelayed' /\ BuildingPending'
    BY <1>1 DEF Wrap, EchoBody, TypeOK, TruthRelayed, BuildingPending
  <2>. QED
    BY <2>1, <2>2
<1>2. CASE WrapFails \/ EchoFails
  <2>1. PICK b \in {built, built + 1} :
            built' = b /\ tx' = [tx EXCEPT ![b] = "error"]
    BY <1>2 DEF WrapFails, EchoFails
  <2>2. b \in 0..N /\ alive /\ built < N /\ alive' = FALSE /\ peer' = "error"
    BY <1>2, <2>1 DEF WrapFails, EchoFails, TypeOK
  <2>3. \A i \in 0..N : tx[i] = "pending"
    BY <2>2 DEF BuildingPending
  <2>4. TypeOK'
    BY <1>2, <2>1, <2>2 DEF WrapFails, EchoFails, TypeOK, Result
  <2>5. TruthRelayed'
    BY <2>1, <2>2, <2>3 DEF TruthRelayed, TypeOK
  <2>6. BuildingPending'
    BY <2>2 DEF BuildingPending
  <2>7. CleanTrailers'
    BY <1>2 DEF WrapFails, EchoFails, CleanTrailers
  <2>8. OkReachedPeer'
    BY <2>1, <2>2, <2>3 DEF OkReachedPeer, TypeOK
  <2>. QED
    BY <2>4, <2>5, <2>6, <2>7, <2>8
<1>3. ASSUME NEW i \in 1..N, Relay(i) PROVE IndInv'
  <2>1. /\ i <= built /\ tx[i] # "pending" /\ tx[i - 1] = "pending"
        /\ tx' = [tx EXCEPT ![i - 1] = tx[i]]
        /\ UNCHANGED <<script, built, alive, stream, trailers, sent, delivered, peer>>
    BY <1>3 DEF Relay
  <2>2. i - 1 \in 0..N /\ i \in 0..N /\ i \in 0..built /\ built \in 0..N
    BY <2>1 DEF TypeOK
  <2>3. TypeOK'
    BY <2>1, <2>2 DEF TypeOK
  <2>4. TruthRelayed'
    <3>. SUFFICES ASSUME NEW k \in 0..built, NEW j \in 0..built,
                         k < j, tx'[k] # "pending"
                  PROVE  tx'[j] = tx'[k]
      BY <2>1 DEF TruthRelayed
    <3>1. k \in 0..N /\ j \in 0..N
      BY <2>2
    <3>2. CASE k = i - 1
      <4>1. j = i \/ i < j
        BY <3>2, <2>2
      <4>2. tx[j] = tx[i]
        BY <4>1, <2>1, <2>2 DEF TruthRelayed
      <4>. QED
        BY <3>1, <3>2, <4>2, <2>1, <2>2 DEF TypeOK
    <3>3. CASE k # i - 1
      <4>1. tx[k] # "pending" /\ tx[j] = tx[k]
        BY <3>1, <3>3, <2>1 DEF TruthRelayed, TypeOK
      <4>2. j # i - 1
        BY <4>1, <2>1
      <4>. QED
        BY <3>1, <3>3, <4>1, <4>2, <2>1 DEF TypeOK
    <3>. QED
      BY <3>2, <3>3
  <2>5. BuildingPending'
    BY <2>1, <2>2 DEF BuildingPending
  <2>6. CleanTrailers'
    BY <2>1 DEF CleanTrailers
  <2>7. OkReachedPeer'
    BY <2>1, <2>2 DEF OkReachedPeer, TypeOK
  <2>. QED
    BY <2>3, <2>4, <2>5, <2>6, <2>7
<1>4. CASE WriteFrame
  BY <1>0, <1>4, ResultsFrame
     DEF WriteFrame, TypeOK, CleanTrailers, OkReachedPeer
<1>5. CASE CloseStream
  BY <1>0, <1>5, ResultsFrame
     DEF CloseStream, TypeOK, CleanTrailers, OkReachedPeer
<1>6. CASE PublishResult
  BY <1>6, ResultsFrame
     DEF PublishResult, TypeOK, CleanTrailers, OkReachedPeer, Resolved, Result
<1>7. CASE GiveUp
  BY <1>7, ResultsFrame
     DEF GiveUp, TypeOK, CleanTrailers, OkReachedPeer, Resolved, Result
<1>8. CASE Flush
  BY <1>0, <1>8, ResultsFrame
     DEF Flush, TypeOK, CleanTrailers, OkReachedPeer
<1>9. CASE Finish \/ Disconnect
  <2>1. PICK v \in {"ok", "error"} : tx' = [tx EXCEPT ![N] = v]
    BY <1>9 DEF Finish, Disconnect, TypeOK, Result
  <2>2. /\ alive /\ built = N /\ tx[N] = "pending"
        /\ UNCHANGED <<script, built, alive, stream, trailers, sent, delivered>>
    BY <1>9 DEF Finish, Disconnect
  <2>3. \A i \in 0..N : tx[i] = "pending"
    BY <2>2 DEF TruthRelayed, TypeOK
  <2>4. TypeOK'
    BY <1>9, <2>1, <2>2 DEF Finish, Disconnect, TypeOK, Result
  <2>5. TruthRelayed' /\ BuildingPending' /\ CleanTrailers'
    BY <2>1, <2>2, <2>3 DEF TruthRelayed, BuildingPending, CleanTrailers, TypeOK
  <2>6. OkReachedPeer'
    <3>1. CASE Finish
      BY <3>1, <2>2, <2>3 DEF Finish, OkReachedPeer, CleanTrailers, TypeOK
    <3>2. CASE Disconnect
      BY <3>2, <2>2, <2>3 DEF Disconnect, OkReachedPeer, TypeOK
    <3>. QED
      BY <1>9, <3>1, <3>2
  <2>. QED
    BY <2>4, <2>5, <2>6
<1>10. CASE CancelProducer
  <2>1. trailers # "ok"
    BY <1>10 DEF CancelProducer, CleanTrailers
  <2>. QED
    BY <1>10, <2>1, ResultsFrame
       DEF CancelProducer, TypeOK, CleanTrailers, OkReachedPeer
<1>11. CASE UNCHANGED vars
  BY <1>11, ResultsFrame DEF vars, TypeOK, CleanTrailers, OkReachedPeer
<1>. QED
  BY <1>1, <1>2, <1>3, <1>4, <1>5, <1>6, <1>7, <1>8, <1>9, <1>10, <1>11 DEF Next

\* IndInv is an invariant of the relay chain.
THEOREM Inductive == Spec => []IndInv
  BY InitIndInv, NextIndInv, PTL DEF Spec

\* Type correctness of the relay chain.
THEOREM TypeCorrect == Spec => []TypeOK
<1>1. IndInv => TypeOK
  BY DEF IndInv
<1>. QED
  BY <1>1, Inductive, PTL

\* The relays report the consumer's result and nothing else, through any
\* number of wrappers.
THEOREM RelayFaithful == Spec => []TruthRelayed
<1>1. IndInv => TruthRelayed
  BY DEF IndInv
<1>. QED
  BY <1>1, Inductive, PTL

\* A reported success is a complete one.
THEOREM NoFalseSuccess == Spec => []SuccessIsComplete
<1>1. IndInv => SuccessIsComplete
  BY NAssumption DEF IndInv, OkReachedPeer, SuccessIsComplete, Messages
<1>. QED
  BY <1>1, Inductive, PTL
-----------------------------------------------------------------------------
(* Frames before the error *)

\* While the outermost message exists and the peer still waits, nothing has
\* been resolved and the producer has not been cut off.
PeerWaits ==
    alive => /\ peer = "waiting" =>
                   stream # "cut" /\ \A i \in Messages : tx[i] = "pending"
             /\ tx[N] = "pending" => peer = "waiting"

\* A producer that pauses closes its stream only when its frames are delivered.
ClosedDelivered ==
    script.pause /\ stream = "closed" => delivered = script.frames

OrderInv == IndInv /\ PeerWaits /\ ClosedDelivered /\ FramesBeforeError

\* Every step keeps the order of frames and error.
LEMMA NextOrderInv == OrderInv /\ [Next]_vars => OrderInv'
<1>. SUFFICES ASSUME OrderInv, [Next]_vars PROVE OrderInv'
  OBVIOUS
<1>1. IndInv /\ IndInv' /\ PeerWaits /\ ClosedDelivered /\ FramesBeforeError
  BY NextIndInv DEF OrderInv
<1>2. TypeOK /\ CleanTrailers
  BY <1>1 DEF IndInv
<1>3. N \in Messages /\ script.frames \in Nat /\ sent \in Nat /\ delivered \in Nat
  BY <1>2, NAssumption, ScriptAssumption DEF TypeOK, Scripts, Messages
<1>. SUFFICES PeerWaits' /\ ClosedDelivered' /\ FramesBeforeError'
  BY <1>1 DEF OrderInv
<1>4. CASE Wrap \/ EchoBody
  BY <1>1, <1>4 DEF Wrap, EchoBody, PeerWaits, ClosedDelivered, FramesBeforeError
<1>5. CASE WrapFails \/ EchoFails
  BY <1>1, <1>5
     DEF WrapFails, EchoFails, PeerWaits, ClosedDelivered, FramesBeforeError
<1>6. ASSUME NEW i \in 1..N, Relay(i)
      PROVE  PeerWaits' /\ ClosedDelivered' /\ FramesBeforeError'
  <2>1. i \in Messages /\ tx[i] # "pending"
    BY <1>6, NAssumption DEF Relay, Messages
  <2>2. alive => peer # "waiting"
    BY <1>1, <2>1 DEF PeerWaits
  <2>3. alive => tx[N] # "pending"
    BY <1>1, <2>2 DEF PeerWaits
  <2>4. alive => tx'[N] # "pending"
    BY <1>6, <2>3, <1>2, <1>3, <2>1, NAssumption DEF Relay, TypeOK, Messages
  <2>. QED
    BY <1>1, <1>6, <2>2, <2>4
       DEF Relay, PeerWaits, ClosedDelivered, FramesBeforeError
<1>7. CASE WriteFrame
  BY <1>1, <1>2, <1>3, <1>7
     DEF WriteFrame, PeerWaits, ClosedDelivered, FramesBeforeError
<1>8. CASE CloseStream
  BY <1>1, <1>8 DEF CloseStream, PeerWaits, ClosedDelivered, FramesBeforeError
<1>9. CASE PublishResult \/ GiveUp
  BY <1>1, <1>9
     DEF PublishResult, GiveUp, PeerWaits, ClosedDelivered, FramesBeforeError
<1>10. CASE Flush
  <2>1. ~(script.pause /\ stream = "closed")
    BY <1>1, <1>2, <1>3, <1>10 DEF Flush, CleanTrailers, ClosedDelivered
  <2>. QED
    BY <1>1, <1>10, <2>1 DEF Flush, PeerWaits, ClosedDelivered, FramesBeforeError
<1>11. CASE Finish
  <2>1. stream = "closed"
    BY <1>1, <1>2, <1>11 DEF Finish, PeerWaits, TypeOK
  <2>2. tx'[N] # "pending" /\ peer' # "waiting"
    BY <1>2, <1>3, <1>11 DEF Finish, TypeOK, Result
  <2>. QED
    BY <1>1, <1>11, <2>1, <2>2
       DEF Finish, PeerWaits, ClosedDelivered, FramesBeforeError
<1>12. CASE Disconnect
  <2>1. tx'[N] # "pending" /\ peer' = "gone"
    BY <1>2, <1>3, <1>12 DEF Disconnect, TypeOK
  <2>. QED
    BY <1>1, <1>12, <2>1
       DEF Disconnect, PeerWaits, ClosedDelivered, FramesBeforeError
<1>13. CASE CancelProducer
  <2>1. alive => peer # "waiting"
    BY <1>1, <1>13 DEF CancelProducer, PeerWaits
  <2>. QED
    BY <1>1, <1>13, <2>1
       DEF CancelProducer, PeerWaits, ClosedDelivered, FramesBeforeError
<1>14. CASE UNCHANGED vars
  BY <1>1, <1>14 DEF vars, PeerWaits, ClosedDelivered, FramesBeforeError
<1>. QED
  BY <1>4, <1>5, <1>6, <1>7, <1>8, <1>9, <1>10, <1>11, <1>12, <1>13, <1>14 DEF Next

\* A failure after an observable pause is seen after the frames written before
\* it, through any number of wrappers and for any number of frames.
THEOREM ErrorAfterFrames == Spec => []FramesBeforeError
<1>1. Init => OrderInv
  BY InitIndInv, NAssumption
     DEF Init, OrderInv, PeerWaits, ClosedDelivered, FramesBeforeError, Messages
<1>2. OrderInv => FramesBeforeError
  BY DEF OrderInv
<1>. QED
  BY <1>1, <1>2, NextOrderInv, PTL DEF Spec
-----------------------------------------------------------------------------
(* What EveryoneLearns rests on: nobody waits in a circle, and no step is    *)
(* wasted.                                                                   *)

\* The peer's end and the result of the outermost message are one event, and a
\* wrapper that failed has caused it.
EndKnown ==
    /\ peer = "waiting" <=> tx[built] = "pending"
    /\ ~alive => peer # "waiting"

StuckInv == IndInv /\ EndKnown

\* The peer has seen an end and the producer has learnt the result.
Learnt == peer # "waiting" /\ tx[0] # "pending"

\* The steps that FairSpec promises to take, by their guards: the next wrapper
\* (Wrap, EchoBody), a frame or the end of the stream (WriteFrame, CloseStream),
\* the producer's result (PublishResult, GiveUp), the host (Flush, Finish) and
\* a relay.  Neither a failing wrapper nor a peer that leaves is among them.
CanStep ==
    \/ alive /\ built < N
    \/ /\ alive /\ built = N /\ tx[N] = "pending"
       /\ stream = "open" /\ sent < script.frames
    \/ stream = "open" /\ sent = script.frames /\ (script.pause => delivered = sent)
    \/ stream # "open" /\ trailers = "pending"
    \/ peer = "waiting" /\ delivered < sent
    \/ /\ alive /\ built = N /\ tx[N] = "pending"
       /\ stream # "open" /\ trailers # "pending"
       /\ trailers = "ok" => delivered = sent
    \/ \E i \in 1..N : i <= built /\ tx[i] # "pending" /\ tx[i - 1] = "pending"

\* Every step keeps the two ends together.
LEMMA NextStuckInv == StuckInv /\ [Next]_vars => StuckInv'
<1>. SUFFICES ASSUME StuckInv, [Next]_vars PROVE EndKnown'
  BY NextIndInv DEF StuckInv
<1>. USE NAssumption DEF Messages
<1>1. TypeOK /\ BuildingPending /\ EndKnown
  BY DEF StuckInv, IndInv
<1>2. built \in 0..N /\ tx \in [0..N -> Result]
  BY <1>1 DEF TypeOK
<1>3. CASE Wrap \/ EchoBody
  <2>1. alive /\ built < N /\ built' = built + 1 /\ UNCHANGED <<alive, tx, peer>>
    BY <1>3 DEF Wrap, EchoBody
  <2>2. tx[built] = "pending" /\ tx[built + 1] = "pending"
    BY <1>1, <1>2, <2>1 DEF BuildingPending
  <2>. QED
    BY <1>1, <2>1, <2>2 DEF EndKnown
<1>4. CASE WrapFails \/ EchoFails
  <2>1. built' \in 0..N /\ tx' = [tx EXCEPT ![built'] = "error"] /\ peer' = "error"
    BY <1>2, <1>4 DEF WrapFails, EchoFails
  <2>. QED
    BY <1>2, <2>1 DEF EndKnown
<1>5. ASSUME NEW i \in 1..N, Relay(i) PROVE EndKnown'
  <2>1. i - 1 # built /\ tx' = [tx EXCEPT ![i - 1] = tx[i]]
        /\ UNCHANGED <<built, alive, peer>>
    BY <1>2, <1>5 DEF Relay
  <2>. QED
    BY <1>1, <1>2, <2>1 DEF EndKnown
<1>6. CASE Finish \/ Disconnect
  <2>1. /\ alive /\ built = N /\ UNCHANGED <<built, alive>>
        /\ \/ peer' = "gone" /\ tx' = [tx EXCEPT ![N] = "error"]
           \/ peer' = trailers /\ tx' = [tx EXCEPT ![N] = trailers] /\ trailers # "pending"
    BY <1>6 DEF Finish, Disconnect
  <2>. QED
    BY <1>1, <1>2, <2>1 DEF EndKnown, TypeOK, Result
<1>7. CASE WriteFrame \/ CloseStream \/ PublishResult \/ GiveUp \/ Flush
           \/ CancelProducer \/ UNCHANGED vars
  <2>1. UNCHANGED <<built, alive, tx, peer>>
    BY <1>7 DEF WriteFrame, CloseStream, PublishResult, GiveUp, Flush, CancelProducer, vars
  <2>. QED
    BY <1>1, <2>1 DEF EndKnown
<1>. QED
  BY <1>3, <1>4, <1>5, <1>6, <1>7 DEF Next

\* A result that is known for the outermost message and not for the first one
\* is held up at some relay, which can pass it on.
LEMMA SomeRelayMoves ==
  ASSUME TypeOK, tx[built] # "pending", tx[0] = "pending"
  PROVE  \E i \in 1..N : i <= built /\ tx[i] # "pending" /\ tx[i - 1] = "pending"
<1>. DEFINE Known == {i \in 0..built : tx[i] # "pending"}
            Less == {p \in Nat \X Nat : p[1] < p[2]}
<1>1. built \in 0..N /\ N \in Nat
  BY NAssumption DEF TypeOK
<1>2. Known \in SUBSET Nat /\ Known # {}
  BY <1>1
<1>3. IsWellFoundedOn(Less, Nat)
  BY NatLessThanWellFounded DEF OpToRel
<1>4. PICK i \in Known : \A k \in Known : ~(<<k, i>> \in Less)
  <2>. HIDE DEF Known, Less
  <2>. QED
    BY <1>2, <1>3, WFMin
<1>5. \A k \in Known : ~(k < i)
  BY <1>2, <1>4
<1>6. i \in 1..N /\ i <= built /\ i - 1 \in 0..built
  BY <1>1, <1>4
<1>. QED
  BY <1>4, <1>5, <1>6, <1>1

\* However many wrappers there are and whatever failed, one of the steps that
\* fairness promises can be taken until everyone has learnt the result: no
\* producer, wrapper, relay or host waits for one that waits for it.
THEOREM NeverStuck == Spec => [](Learnt \/ CanStep)
<1>1. Init => StuckInv
  BY InitIndInv, NAssumption DEF Init, StuckInv, EndKnown, Messages
<1>2. StuckInv => Learnt \/ CanStep
  <2>. SUFFICES ASSUME StuckInv, ~Learnt PROVE CanStep
    OBVIOUS
  <2>1. TypeOK /\ CleanTrailers /\ EndKnown
    BY DEF StuckInv, IndInv
  <2>2. /\ built \in 0..N /\ N \in Nat /\ script.frames \in Nat
        /\ sent \in 0..script.frames /\ delivered \in 0..sent
    BY <2>1, NAssumption, ScriptAssumption DEF TypeOK, Scripts
  <2>3. CASE peer # "waiting"
    BY <2>1, <2>3, SomeRelayMoves DEF EndKnown, Learnt, CanStep
  <2>4. CASE peer = "waiting"
    <3>1. alive /\ tx[built] = "pending"
      BY <2>1, <2>4 DEF EndKnown
    <3>2. CASE built < N \/ delivered < sent
      BY <3>1, <3>2, <2>4 DEF CanStep
    <3>3. CASE built = N /\ delivered = sent
      BY <3>1, <3>3, <2>1, <2>2 DEF CanStep, CleanTrailers, TypeOK
    <3>. QED
      BY <2>2, <3>2, <3>3
  <2>. QED
    BY <2>3, <2>4
<1>. QED
  BY <1>1, <1>2, NextStuckInv, PTL DEF Spec

Unresolved == {i \in Messages : tx[i] = "pending"}

\* What is left to be done: wrappers to build or to give up, frames to write and
\* to flush, ends to come and results to relay.
Work ==
    (N - built) + (IF alive THEN 1 ELSE 0)
      + (script.frames - sent) + (script.frames - delivered)
      + (IF stream = "open" THEN 1 ELSE 0) + (IF trailers = "pending" THEN 1 ELSE 0)
      + Cardinality(Unresolved)

\* The unresolved results can be counted.
LEMMA UnresolvedFinite == IsFiniteSet(Unresolved) /\ Cardinality(Unresolved) \in Nat
<1>1. IsFiniteSet(0..N)
  BY NAssumption, FS_Interval
<1>2. Unresolved \in SUBSET (0..N)
  BY DEF Unresolved, Messages
<1>3. IsFiniteSet(Unresolved)
  BY <1>1, <1>2, FS_Subset
<1>. QED
  BY <1>3, FS_CardinalityType

\* Resolving one more result leaves one less to resolve.
LEMMA OneResolved ==
  ASSUME TypeOK, NEW k \in Messages, tx[k] = "pending", NEW v \in {"ok", "error"},
         tx' = [tx EXCEPT ![k] = v]
  PROVE  Cardinality(Unresolved)' = Cardinality(Unresolved) - 1
<1>1. Unresolved' = Unresolved \ {k} /\ k \in Unresolved
  BY DEF Unresolved, TypeOK
<1>. QED
  BY <1>1, UnresolvedFinite, FS_RemoveElement

\* The work is a number.
LEMMA WorkIsCounted == TypeOK => Work \in Nat
<1>. SUFFICES ASSUME TypeOK PROVE Work \in Nat
  OBVIOUS
<1>1. script.frames \in Nat
  BY ScriptAssumption DEF TypeOK, Scripts
<1>2. /\ N - built \in Nat /\ script.frames - sent \in Nat
      /\ script.frames - delivered \in Nat
  BY <1>1, NAssumption DEF TypeOK
<1>. QED
  BY <1>2, UnresolvedFinite DEF Work

\* Nobody is busy for nothing: every step, a failure and a departure of the peer
\* included, leaves less work, so no execution has more steps than the work it
\* began with.
THEOREM StepsAreUseful == Spec => [](Work \in Nat) /\ [][Work' < Work]_vars
<1>1. IndInv => Work \in Nat
  BY WorkIsCounted DEF IndInv
<1>2. ASSUME IndInv, Next PROVE Work' < Work
  <2>1. TypeOK /\ BuildingPending
    BY <1>2 DEF IndInv
  <2>2. /\ N \in Nat /\ built \in Nat /\ sent \in Nat /\ delivered \in Nat
        /\ script.frames \in Nat /\ Cardinality(Unresolved) \in Nat
    BY <2>1, NAssumption, ScriptAssumption, UnresolvedFinite DEF TypeOK, Scripts
  <2>3. UNCHANGED tx => UNCHANGED Cardinality(Unresolved)
    BY DEF Unresolved
  <2>4. CASE Wrap \/ EchoBody
    BY <2>2, <2>3, <2>4 DEF Wrap, EchoBody, Work
  <2>5. CASE WrapFails \/ EchoFails
    <3>1. PICK b \in {built, built + 1} : built' = b /\ tx' = [tx EXCEPT ![b] = "error"]
      BY <2>5 DEF WrapFails, EchoFails
    <3>2. alive /\ built < N /\ ~alive' /\ UNCHANGED <<script, stream, trailers, sent, delivered>>
      BY <2>5 DEF WrapFails, EchoFails
    <3>3. b \in Messages /\ tx[b] = "pending"
      BY <2>1, <2>2, <3>2 DEF BuildingPending, Messages
    <3>4. Cardinality(Unresolved)' = Cardinality(Unresolved) - 1
      BY <2>1, <3>1, <3>3, OneResolved
    <3>. QED
      BY <2>2, <3>1, <3>2, <3>4 DEF Work
  <2>6. ASSUME NEW i \in 1..N, Relay(i) PROVE Work' < Work
    <3>1. i - 1 \in Messages /\ tx[i] \in {"ok", "error"} /\ tx[i - 1] = "pending"
      BY <2>1, <2>2, <2>6 DEF Relay, TypeOK, Messages, Result
    <3>2. Cardinality(Unresolved)' = Cardinality(Unresolved) - 1
      BY <2>1, <2>6, <3>1, OneResolved DEF Relay
    <3>. QED
      BY <2>2, <2>6, <3>2 DEF Relay, Work
  <2>7. CASE WriteFrame
    BY <2>2, <2>3, <2>7 DEF WriteFrame, Work
  <2>8. CASE CloseStream
    BY <2>2, <2>3, <2>8 DEF CloseStream, Work
  <2>9. CASE PublishResult \/ GiveUp
    BY <2>2, <2>3, <2>9 DEF PublishResult, GiveUp, Resolved, Work
  <2>10. CASE Flush
    BY <2>2, <2>3, <2>10 DEF Flush, Work
  <2>11. CASE Finish \/ Disconnect
    <3>1. PICK v \in {"ok", "error"} : tx' = [tx EXCEPT ![N] = v]
      BY <2>1, <2>11 DEF Finish, Disconnect, TypeOK, Result
    <3>2. N \in Messages /\ tx[N] = "pending"
      BY <2>2, <2>11 DEF Finish, Disconnect, Messages
    <3>3. Cardinality(Unresolved)' = Cardinality(Unresolved) - 1
      BY <2>1, <3>1, <3>2, OneResolved
    <3>. QED
      BY <2>2, <2>11, <3>3 DEF Finish, Disconnect, Work
  <2>12. CASE CancelProducer
    BY <2>2, <2>3, <2>12 DEF CancelProducer, Work
  <2>. QED
    BY <1>2, <2>4, <2>5, <2>6, <2>7, <2>8, <2>9, <2>10, <2>11, <2>12 DEF Next
<1>3. IndInv /\ [Next]_vars => [Work' < Work]_vars
  BY <1>2
<1>. QED
  BY <1>1, <1>3, Inductive, PTL DEF Spec
=============================================================================
