---------------------------- MODULE InFlightGuard ----------------------------
(***************************************************************************)
(* The admission counter of crates/authn-runtime: a process-wide           *)
(* AtomicUsize, taken by a load / compare_exchange_weak loop and given     *)
(* back by the Drop of an RAII guard.                                      *)
(*                                                                         *)
(* Every access of the atomic is one step; a test of a local variable that *)
(* follows an access belongs to the step of that access.  A spurious       *)
(* failure of compare_exchange_weak observes the value it expected, so it  *)
(* changes nothing: it is a stuttering step, and the weak fairness of      *)
(* AcquireStep says that it does not happen for ever.                      *)
(***************************************************************************)
EXTENDS Integers, FiniteSets

CONSTANTS
    Thread,     \* the concurrent callers of InFlightGuard::acquire
    Max         \* config.max_in_flight, validated to 1..1024

ASSUME ThreadAssumption == IsFiniteSet(Thread)
ASSUME MaxAssumption == Max \in Nat \ {0}

VARIABLES
    IN_FLIGHT,  \* the shared counter
    pc,         \* where each thread is
    current     \* the local variable of acquire

vars == <<IN_FLIGHT, pc, current>>

\* "cas": inside the loop, with current < maximum already tested.
PCs == {"idle", "cas", "held", "refused"}

Holders == {t \in Thread : pc[t] = "held"}

Init ==
    /\ IN_FLIGHT = 0
    /\ pc = [t \in Thread |-> "idle"]
    /\ current = [t \in Thread |-> 0]
-----------------------------------------------------------------------------
(* acquire *)

\* current takes a value of the counter and the loop head tests it.
LoopHeadOffByOne(t) ==
    /\ current' = [current EXCEPT ![t] = IN_FLIGHT]
    /\ pc' = [pc EXCEPT ![t] = IF IN_FLIGHT > Max THEN "refused" ELSE "cas"]
    /\ UNCHANGED IN_FLIGHT

LoopHead(t) ==
    /\ current' = [current EXCEPT ![t] = IN_FLIGHT]
    /\ pc' = [pc EXCEPT ![t] = IF IN_FLIGHT >= Max THEN "refused" ELSE "cas"]
    /\ UNCHANGED IN_FLIGHT

Load(t) == pc[t] = "idle" /\ LoopHead(t)

CasOkBlindStore(t) ==
    /\ pc[t] = "cas"
    /\ IN_FLIGHT' = current[t] + 1
    /\ pc' = [pc EXCEPT ![t] = "held"]
    /\ UNCHANGED current

CasOk(t) ==
    /\ pc[t] = "cas"
    /\ IN_FLIGHT = current[t]
    /\ IN_FLIGHT' = current[t] + 1
    /\ pc' = [pc EXCEPT ![t] = "held"]
    /\ UNCHANGED current

CasFailKeepsCurrent(t) ==
    /\ pc[t] = "cas"
    /\ IN_FLIGHT # current[t]
    /\ UNCHANGED vars

CasFail(t) ==
    /\ pc[t] = "cas"
    /\ IN_FLIGHT # current[t]
    /\ LoopHead(t)

AcquireStep(t) == CasOk(t) \/ CasFail(t)
-----------------------------------------------------------------------------
(* Drop, and the return of None to the caller. *)

Release(t) ==
    /\ pc[t] = "held"
    /\ IN_FLIGHT' = IN_FLIGHT - 1
    /\ pc' = [pc EXCEPT ![t] = "idle"]
    /\ UNCHANGED current

ReturnNone(t) ==
    /\ pc[t] = "refused"
    /\ pc' = [pc EXCEPT ![t] = "idle"]
    /\ UNCHANGED <<IN_FLIGHT, current>>

Next == \E t \in Thread :
    Load(t) \/ AcquireStep(t) \/ Release(t) \/ ReturnNone(t)

Spec == Init /\ [][Next]_vars

\* A thread inside the loop keeps running it; nobody is obliged to call
\* acquire or to drop its guard.
FairSpec == Spec /\ \A t \in Thread : WF_vars(AcquireStep(t))
-----------------------------------------------------------------------------
(* Properties *)

\* Variables stay in their ranges: in particular the counter never goes below
\* zero (fetch_sub on 0 would wrap to usize::MAX and refuse everybody).
TypeOK ==
    /\ IN_FLIGHT \in Nat
    /\ pc \in [Thread -> PCs]
    /\ current \in [Thread -> Nat]

\* The counter equals the number of live guards and never exceeds maximum,
\* whatever the interleaving of acquire loops and drops.
SlotsConserved ==
    /\ IN_FLIGHT = Cardinality(Holders)
    /\ IN_FLIGHT <= Max

\* A thread that will attempt the exchange attempts it with room left: what
\* makes SlotsConserved inductive.
CasHasRoom == \A t \in Thread : pc[t] = "cas" => current[t] < Max

\* A thread inside the loop holds nothing yet.
AbstractPhase ==
    [t \in Thread |-> CASE pc[t] = "held"    -> "holding"
                        [] pc[t] = "refused" -> "refused"
                        [] OTHER             -> "idle"]

A == INSTANCE Admission WITH Client <- Thread, Max <- Max, phase <- AbstractPhase

\* The compare-exchange loop is linearizable: each acquire takes effect at one
\* access of the counter, at which there was room (Some) or there was none (None).
ImplementsAdmission == A!AdmissionSpec

Leaves(t) == pc[t] = "cas" /\ pc'[t] # "cas"

\* Lock-freedom of acquire: if somebody is in the loop for ever, then threads
\* keep leaving the loop, with a slot or refused.
LockFree ==
    \/ []<>(\A t \in Thread : pc[t] # "cas")
    \/ []<><<\E t \in Thread : Leaves(t)>>_vars
=============================================================================
