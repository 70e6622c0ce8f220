------------------------- MODULE InFlightGuardProofs -------------------------
(***************************************************************************)
(* InFlightGuard for every finite set of threads and every maximum.  The   *)
(* inductive invariant is TypeOK, SlotsConserved and CasHasRoom: without   *)
(* the last one a successful exchange could write a counter above maximum. *)
(***************************************************************************)
EXTENDS InFlightGuard, FiniteSetTheorems, TLAPS

IndInv == TypeOK /\ SlotsConserved /\ CasHasRoom

\* The holders are a finite set, so the counter compares with a number.
LEMMA HoldersFinite == IsFiniteSet(Holders) /\ Cardinality(Holders) \in Nat
<1>1. Holders \subseteq Thread
  BY DEF Holders
<1>2. IsFiniteSet(Holders)
  BY <1>1, ThreadAssumption, FS_Subset
<1>. QED
  BY <1>2, FS_CardinalityType

\* Init establishes the inductive invariant.
LEMMA InitIndInv == Init => IndInv
<1>. SUFFICES ASSUME Init PROVE IndInv
  OBVIOUS
<1>1. TypeOK
  BY DEF Init, TypeOK, PCs
<1>2. Holders = {}
  BY DEF Init, Holders
<1>3. SlotsConserved
  BY <1>2, FS_EmptySet, MaxAssumption DEF Init, SlotsConserved
<1>4. CasHasRoom
  BY DEF Init, CasHasRoom
<1>. QED
  BY <1>1, <1>3, <1>4 DEF IndInv

\* A thread that reads the counter (load, or a failed exchange) holds nothing
\* before and after, and goes on only if the value it read leaves room.
LEMMA LoopHeadIndInv ==
  ASSUME IndInv, NEW t \in Thread, pc[t] # "held", LoopHead(t)
  PROVE  IndInv'
<1>. USE DEF IndInv
<1>1. TypeOK'
  BY DEF TypeOK, LoopHead, PCs
<1>2. Holders' = Holders
  BY DEF LoopHead, Holders, TypeOK, PCs
<1>3. SlotsConserved'
  BY <1>2 DEF SlotsConserved, LoopHead
<1>4. CasHasRoom'
  BY MaxAssumption DEF CasHasRoom, LoopHead, TypeOK
<1>. QED
  BY <1>1, <1>3, <1>4

\* Every step preserves the inductive invariant.
LEMMA NextIndInv == IndInv /\ [Next]_vars => IndInv'
<1>. SUFFICES ASSUME IndInv, [Next]_vars PROVE IndInv'
  OBVIOUS
<1>. USE DEF IndInv
<1>1. ASSUME NEW t \in Thread, Load(t) PROVE IndInv'
  BY <1>1, LoopHeadIndInv DEF Load
<1>2. ASSUME NEW t \in Thread, CasFail(t) PROVE IndInv'
  BY <1>2, LoopHeadIndInv DEF CasFail
<1>3. ASSUME NEW t \in Thread, CasOk(t) PROVE IndInv'
  <2>1. TypeOK'
    BY <1>3 DEF TypeOK, CasOk, PCs
  <2>2. Holders' = Holders \cup {t} /\ t \notin Holders
    BY <1>3 DEF CasOk, Holders, TypeOK
  <2>3. Cardinality(Holders') = Cardinality(Holders) + 1
    BY <2>2, HoldersFinite, FS_AddElement
  <2>4. SlotsConserved'
    <3>1. IN_FLIGHT < Max
      BY <1>3 DEF CasOk, CasHasRoom
    <3>2. IN_FLIGHT' = IN_FLIGHT + 1
      BY <1>3 DEF CasOk
    <3>. QED
      BY <3>1, <3>2, <2>3, MaxAssumption DEF SlotsConserved, TypeOK
  <2>5. CasHasRoom'
    BY <1>3 DEF CasHasRoom, CasOk, TypeOK
  <2>. QED
    BY <2>1, <2>4, <2>5
<1>4. ASSUME NEW t \in Thread, Release(t) PROVE IndInv'
  <2>1. Holders' = Holders \ {t} /\ t \in Holders
    BY <1>4 DEF Release, Holders, TypeOK
  <2>2. Cardinality(Holders') = Cardinality(Holders) - 1
    BY <2>1, HoldersFinite, FS_RemoveElement
  <2>3. Cardinality(Holders') \in Nat
    BY <2>1, HoldersFinite, FS_RemoveElement, FS_CardinalityType
  <2>4. TypeOK'
    BY <1>4, <2>2, <2>3 DEF TypeOK, Release, PCs, SlotsConserved
  <2>5. SlotsConserved'
    BY <1>4, <2>2, <2>3, MaxAssumption DEF SlotsConserved, Release, TypeOK
  <2>6. CasHasRoom'
    BY <1>4 DEF CasHasRoom, Release, TypeOK
  <2>. QED
    BY <2>4, <2>5, <2>6
<1>5. ASSUME NEW t \in Thread, ReturnNone(t) PROVE IndInv'
  <2>1. Holders' = Holders
    BY <1>5 DEF ReturnNone, Holders, TypeOK
  <2>. QED
    BY <1>5, <2>1 DEF TypeOK, PCs, ReturnNone, SlotsConserved, CasHasRoom
<1>6. CASE UNCHANGED vars
  <2>1. Holders' = Holders
    BY <1>6 DEF vars, Holders
  <2>. QED
    BY <1>6, <2>1 DEF vars, TypeOK, SlotsConserved, CasHasRoom
<1>. QED
  BY <1>1, <1>2, <1>3, <1>4, <1>5, <1>6 DEF Next, AcquireStep

\* IndInv is an invariant of the compare-exchange loop.
THEOREM Inductive == Spec => []IndInv
  BY InitIndInv, NextIndInv, PTL DEF Spec

\* Type correctness: fetch_sub never wraps the counter below zero.
THEOREM TypeCorrect == Spec => []TypeOK
<1>1. IndInv => TypeOK
  BY DEF IndInv
<1>. QED
  BY <1>1, Inductive, PTL

\* The counter is the number of live guards and respects max_in_flight.
THEOREM CounterCorrect == Spec => []SlotsConserved
<1>1. IndInv => SlotsConserved
  BY DEF IndInv
<1>. QED
  BY <1>1, Inductive, PTL
-----------------------------------------------------------------------------
\* The instance counts a set as this module does.
LEMMA SameCardinality == \A S : A!Cardinality(S) = Cardinality(S)
  BY DEF A!Cardinality, Cardinality, A!IsFiniteSet, IsFiniteSet

\* The abstract holders are the threads that own a guard.
LEMMA AbstractHolders == A!HoldingClients = Holders
  BY DEF A!HoldingClients, Holders, AbstractPhase

\* Every initial state maps to an initial state of Admission.
LEMMA InitRefines == Init => A!AdmissionInit
  BY DEF Init, A!AdmissionInit, AbstractPhase

\* Reading the counter maps to a refusal when it is full, to a stutter else.
LEMMA LoopHeadRefines ==
  ASSUME IndInv, NEW t \in Thread, pc[t] \in {"idle", "cas"}, LoopHead(t)
  PROVE  [A!AdmissionNext]_AbstractPhase
<1>. USE DEF IndInv
<1>1. CASE IN_FLIGHT >= Max
  <2>1. AbstractPhase' = [AbstractPhase EXCEPT ![t] = "refused"]
    BY <1>1 DEF LoopHead, AbstractPhase, TypeOK
  <2>2. AbstractPhase[t] = "idle"
    BY DEF AbstractPhase
  <2>3. A!Cardinality(A!HoldingClients) >= Max
    BY <1>1, AbstractHolders, SameCardinality DEF SlotsConserved
  <2>. QED
    BY <2>1, <2>2, <2>3 DEF A!AdmissionNext, A!Refuse
<1>2. CASE ~(IN_FLIGHT >= Max)
  BY <1>2 DEF LoopHead, AbstractPhase, TypeOK
<1>. QED
  BY <1>1, <1>2

\* Every step of the loop maps to a step of Admission or to a stutter.
LEMMA NextRefines ==
  ASSUME IndInv, [Next]_vars
  PROVE  [A!AdmissionNext]_AbstractPhase
<1>. USE DEF IndInv
<1>1. ASSUME NEW t \in Thread, Load(t) PROVE [A!AdmissionNext]_AbstractPhase
  BY <1>1, LoopHeadRefines DEF Load
<1>2. ASSUME NEW t \in Thread, CasFail(t) PROVE [A!AdmissionNext]_AbstractPhase
  BY <1>2, LoopHeadRefines DEF CasFail
<1>3. ASSUME NEW t \in Thread, CasOk(t) PROVE [A!AdmissionNext]_AbstractPhase
  <2>1. AbstractPhase' = [AbstractPhase EXCEPT ![t] = "holding"]
    BY <1>3 DEF CasOk, AbstractPhase, TypeOK
  <2>2. AbstractPhase[t] = "idle"
    BY <1>3 DEF CasOk, AbstractPhase
  <2>3. A!Cardinality(A!HoldingClients) < Max
    BY <1>3, AbstractHolders, SameCardinality, MaxAssumption
       DEF CasOk, SlotsConserved, CasHasRoom, TypeOK
  <2>. QED
    BY <2>1, <2>2, <2>3 DEF A!AdmissionNext, A!Admit
<1>4. ASSUME NEW t \in Thread, Release(t) PROVE [A!AdmissionNext]_AbstractPhase
  <2>1. AbstractPhase' = [AbstractPhase EXCEPT ![t] = "idle"]
    BY <1>4 DEF Release, AbstractPhase, TypeOK
  <2>2. AbstractPhase[t] = "holding"
    BY <1>4 DEF Release, AbstractPhase
  <2>. QED
    BY <2>1, <2>2 DEF A!AdmissionNext, A!Finish
<1>5. ASSUME NEW t \in Thread, ReturnNone(t) PROVE [A!AdmissionNext]_AbstractPhase
  <2>1. AbstractPhase' = [AbstractPhase EXCEPT ![t] = "idle"]
    BY <1>5 DEF ReturnNone, AbstractPhase, TypeOK
  <2>2. AbstractPhase[t] = "refused"
    BY <1>5 DEF ReturnNone, AbstractPhase
  <2>. QED
    BY <2>1, <2>2 DEF A!AdmissionNext, A!Finish
<1>6. CASE UNCHANGED vars
  BY <1>6 DEF vars, AbstractPhase
<1>. QED
  BY <1>1, <1>2, <1>3, <1>4, <1>5, <1>6 DEF Next, AcquireStep

\* The compare-exchange loop implements Admission, for every set of threads
\* and every maximum.
THEOREM Refinement == Spec => ImplementsAdmission
<1>1. IndInv /\ [Next]_vars => [A!AdmissionNext]_AbstractPhase
  BY NextRefines
<1>. QED
  BY <1>1, InitRefines, Inductive, PTL
     DEF Spec, ImplementsAdmission, A!AdmissionSpec
-----------------------------------------------------------------------------
(* What LockFree rests on: a failed exchange is somebody else's success. *)

\* The threads whose exchange is going to fail.
Outdated == {t \in Thread : pc[t] = "cas" /\ current[t] # IN_FLIGHT}

Retries(t) == pc[t] = "cas" /\ pc'[t] = "cas" /\ current'[t] # current[t]

\* The counter changes because a thread leaves the loop with a slot, or because
\* one that did drops its guard.
Succeeds(t) == (pc[t] = "cas" /\ pc'[t] = "held") \/ (pc[t] = "held" /\ pc'[t] = "idle")

\* No thread spins in acquire on its own account.  As long as the counter stays,
\* no exchange becomes due to fail and each retry leaves one less that will, so
\* every thread retries at most once for each change of the counter; and each
\* change is a slot taken or given back.
THEOREM RetriesArePaidFor ==
    Spec => [][/\ IN_FLIGHT' = IN_FLIGHT =>
                    /\ Outdated' \subseteq Outdated
                    /\ \A t \in Thread : Retries(t) => t \in Outdated \ Outdated'
               /\ IN_FLIGHT' # IN_FLIGHT => \E t \in Thread : Succeeds(t)]_vars
<1>. DEFINE Paid == /\ IN_FLIGHT' = IN_FLIGHT =>
                         /\ Outdated' \subseteq Outdated
                         /\ \A t \in Thread : Retries(t) => t \in Outdated \ Outdated'
                    /\ IN_FLIGHT' # IN_FLIGHT => \E t \in Thread : Succeeds(t)
<1>1. ASSUME IndInv, Next PROVE Paid
  <2>1. TypeOK
    BY <1>1 DEF IndInv
  <2>2. ASSUME NEW t \in Thread, LoopHead(t), pc[t] = "idle" \/ IN_FLIGHT # current[t]
        PROVE  Paid
    BY <2>1, <2>2 DEF LoopHead, TypeOK, Outdated, Retries
  <2>3. ASSUME NEW t \in Thread, CasOk(t) \/ Release(t) PROVE Paid
    <3>1. IN_FLIGHT' # IN_FLIGHT /\ Succeeds(t)
      BY <2>1, <2>3 DEF CasOk, Release, TypeOK, Succeeds
    <3>. QED
      BY <3>1
  <2>4. ASSUME NEW t \in Thread, ReturnNone(t) PROVE Paid
    BY <2>1, <2>4 DEF ReturnNone, TypeOK, Outdated, Retries
  <2>. QED
    BY <1>1, <2>2, <2>3, <2>4 DEF Next, AcquireStep, Load, CasFail
<1>2. IndInv /\ [Next]_vars => [Paid]_vars
  BY <1>1
<1>. QED
  BY <1>2, Inductive, PTL DEF Spec
=============================================================================
