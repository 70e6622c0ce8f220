------------------------------ MODULE Admission ------------------------------
(***************************************************************************)
(* What the admission control of the authentication runtime promises: at   *)
(* most Max clients hold a broker slot at any time, and a client is refused *)
(* only at an instant at which every slot is taken.  InFlightGuard (the    *)
(* compare-exchange loop of the code) and AuthnRuntime (the life of a      *)
(* request around it) are both shown to implement this specification.      *)
(***************************************************************************)
EXTENDS Naturals, FiniteSets

CONSTANTS
    Client,     \* those who compete for a slot
    Max         \* MW_AUTH_MAX_IN_FLIGHT

VARIABLE
    phase       \* [Client -> Phases]

Phases == {"idle", "holding", "refused"}

HoldingClients == {c \in Client : phase[c] = "holding"}

AdmissionInit == phase = [c \in Client |-> "idle"]

Admit(c) ==
    /\ phase[c] = "idle"
    /\ Cardinality(HoldingClients) < Max
    /\ phase' = [phase EXCEPT ![c] = "holding"]

Refuse(c) ==
    /\ phase[c] = "idle"
    /\ Cardinality(HoldingClients) >= Max
    /\ phase' = [phase EXCEPT ![c] = "refused"]

\* A holder gives its slot back, or a refused client becomes a fresh one.
Finish(c) ==
    /\ phase[c] \in {"holding", "refused"}
    /\ phase' = [phase EXCEPT ![c] = "idle"]

AdmissionNext == \E c \in Client : Admit(c) \/ Refuse(c) \/ Finish(c)

AdmissionSpec == AdmissionInit /\ [][AdmissionNext]_phase
=============================================================================
