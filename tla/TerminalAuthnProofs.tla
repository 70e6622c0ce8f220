-------------------------- MODULE TerminalAuthnProofs --------------------------
(***************************************************************************)
(* TerminalAuthn for every configuration, every context on the wire, any   *)
(* number of calls and any passage of time.                                *)
(***************************************************************************)
EXTENDS TerminalAuthn, TLAPS

\* What arrives is what Init allows until the first call, and nothing after it.
Arrived ==
    contexts \in {<<>>} \cup {<<c>> : c \in Ingress} \cup {<<c, c>> : c \in Ingress}

IndInv ==
    /\ calls \in Nat /\ asked \in Nat
    /\ Arrived
    /\ Stripped
    /\ AskedOnce
    /\ calls = 0 => asked = 0 /\ pc = "idle"
    /\ InstalledBound

\* The only context of a single value is one the ingress may send.
LEMMA SingleContext ==
  ASSUME Arrived, Len(contexts) = 1
  PROVE  contexts[1] \in Ingress
  BY DEF Arrived

\* Init establishes the inductive invariant.
LEMMA InitIndInv == Init => IndInv
  BY DEF Init, IndInv, Arrived, Stripped, AskedOnce, InstalledBound

\* Every step preserves the inductive invariant.
LEMMA NextIndInv == IndInv /\ [Next]_vars => IndInv'
<1>. SUFFICES ASSUME IndInv, [Next]_vars PROVE IndInv'
  OBVIOUS
<1>. USE DEF IndInv, Arrived, Stripped, AskedOnce, InstalledBound
<1>1. CASE Begin
  <2>1. calls' = calls + 1 /\ authorization' = "absent" /\ contexts' = <<>>
    BY <1>1 DEF Begin, Call, Sanitize
  <2>2. asked' = asked \/ (authorization = "text" /\ asked' = asked + 1)
    BY <1>1 DEF Begin
  <2>3. extension' = extension \/ extension' = Configured("anonymous", 0)
    BY <1>1 DEF Begin, Reject, install_verified
  <2>. QED
    BY <2>1, <2>2, <2>3, AudienceAssumption DEF Configured
<1>2. CASE BrokerRefuses
  BY <1>2 DEF BrokerRefuses, Resume, Reject
<1>3. CASE BrokerAllows
  <2>1. \/ extension' = extension
        \/ \E e \in Expiry : extension' = Configured("authenticated", e)
    BY <1>3 DEF BrokerAllows, Reject, install_verified
  <2>. QED
    BY <1>3, <2>1, AudienceAssumption DEF BrokerAllows, Resume, Configured
<1>4. CASE DropFuture
  BY <1>4 DEF DropFuture, Resume
<1>5. CASE AcceptTrustedIngress
  <2>1. /\ calls' = calls + 1 /\ authorization' = "absent" /\ contexts' = <<>>
        /\ asked' = asked
    BY <1>5 DEF AcceptTrustedIngress, Call, Sanitize
  <2>2. \/ extension' = extension
        \/ Acceptable(contexts) /\ extension' = contexts[1]
    BY <1>5 DEF AcceptTrustedIngress, Reject, install_verified
  <2>. QED
    BY <2>1, <2>2, SingleContext, IngressAssumption DEF Acceptable, Parsed
<1>6. CASE Tick
  BY <1>6 DEF Tick
<1>7. CASE UNCHANGED vars
  BY <1>7 DEF vars
<1>. QED
  BY <1>1, <1>2, <1>3, <1>4, <1>5, <1>6, <1>7 DEF Next

\* IndInv is an invariant of terminal authentication.
THEOREM Inductive == Spec => []IndInv
  BY InitIndInv, NextIndInv, PTL DEF Spec

\* A request is stripped from the first call on.
THEOREM StripsAlways == Spec => []Stripped
<1>1. IndInv => Stripped
  BY DEF IndInv
<1>. QED
  BY <1>1, Inductive, PTL

\* No sequence of calls sends a credential twice.
THEOREM SendsOnce == Spec => []AskedOnce
<1>1. IndInv => AskedOnce
  BY DEF IndInv
<1>. QED
  BY <1>1, Inductive, PTL

\* Whatever is installed is bound to this service and one of its audiences.
THEOREM BindsIdentity == Spec => []InstalledBound
<1>1. IndInv => InstalledBound
  BY DEF IndInv
<1>. QED
  BY <1>1, Inductive, PTL

\* Nothing is installed after its expiry.
THEOREM InstallsLive == Spec => InstalledLive
<1>1. [Next]_vars => [extension' # extension => Live(extension', now)]_vars
  <2>. SUFFICES ASSUME Next, extension' # extension PROVE Live(extension', now)
    BY DEF vars
  <2>1. CASE Begin
    BY <2>1 DEF Begin, Reject, install_verified, Configured, Live
  <2>2. CASE BrokerAllows
    BY <2>2 DEF BrokerAllows, Reject, install_verified
  <2>3. CASE AcceptTrustedIngress
    BY <2>3 DEF AcceptTrustedIngress, Reject, install_verified, Acceptable, Parsed
  <2>4. CASE BrokerRefuses \/ DropFuture \/ Tick
    BY <2>4 DEF BrokerRefuses, DropFuture, Tick, Reject
  <2>. QED
    BY <2>1, <2>2, <2>3, <2>4 DEF Next
<1>. QED
  BY <1>1, PTL DEF Spec, InstalledLive
================================================================================
