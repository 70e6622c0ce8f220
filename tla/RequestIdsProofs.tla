--------------------------- MODULE RequestIdsProofs ---------------------------
(***************************************************************************)
(* Uniqueness of generated identifiers, for any number of callers, any     *)
(* width of the sequence and any number of wraps.                          *)
(***************************************************************************)
EXTENDS RequestIds, TLAPS

Types ==
    /\ REQUEST_ID_PREFIX \in Prefix \cup {Unset}
    /\ REQUEST_ID_SEQUENCE \in Numbers
    /\ pc \in [Thread -> {"idle", "drawn", "numbering"}]
    /\ prefix \in [Thread -> Prefix \cup {Unset}]
    /\ issued \in [Prefix \X Numbers -> Nat]
    /\ wraps \in Nat

\* At most one thread is in the initialiser, and only before the cell is set.
OneInitialiser ==
    /\ \A t \in Thread : pc[t] = "drawn" => prefix[t] \in Prefix /\ REQUEST_ID_PREFIX = Unset
    /\ \A t, u \in Thread : pc[t] = "drawn" /\ pc[u] = "drawn" => t = u

\* A thread about to number an identifier has borrowed the cell's value.
Borrowed == \A t \in Thread :
    pc[t] = "numbering" => REQUEST_ID_PREFIX \in Prefix /\ prefix[t] = REQUEST_ID_PREFIX

\* Identifiers carry the prefix in the cell.
IssuedPrefix == \A id \in Prefix \X Numbers : issued[id] > 0 => id[1] = REQUEST_ID_PREFIX

IndInv == Types /\ OneInitialiser /\ Borrowed /\ IssuedPrefix /\ UniqueUntilWrap

\* The invariant holds before the first identifier.
LEMMA InitHolds == Init => IndInv
  BY ModulusAssumption
  DEF Init, IndInv, Types, OneInitialiser, Borrowed, IssuedPrefix, UniqueUntilWrap, Numbers

\* The initial value, the borrow, the draw and the store do not touch the history.
LEMMA PrefixSteps ==
  ASSUME IndInv, NEW t \in Thread, Borrow(t) \/ Draw(t) \/ Store(t)
  PROVE  IndInv'
<1>. USE UnsetAssumption DEF IndInv
<1>1. Types'
  BY DEF Types, Borrow, Draw, Store, OneInitialiser
<1>2. OneInitialiser'
  BY DEF Types, Borrow, Draw, Store, OneInitialiser
<1>3. Borrowed'
  BY DEF Types, Borrow, Draw, Store, OneInitialiser, Borrowed
<1>4. IssuedPrefix'
  <2>1. CASE Borrow(t) \/ Draw(t)
    BY <2>1 DEF IssuedPrefix, Borrow, Draw
  <2>2. CASE Store(t)
    <3>1. REQUEST_ID_PREFIX = Unset
      BY <2>2 DEF Store, OneInitialiser
    <3>2. ASSUME NEW id \in Prefix \X Numbers PROVE ~(issued[id] > 0)
      BY <3>1 DEF IssuedPrefix
    <3>. QED
      BY <2>2, <3>2 DEF Store, IssuedPrefix
  <2>. QED
    BY <2>1, <2>2
<1>5. UniqueUntilWrap'
  BY DEF UniqueUntilWrap, Borrow, Draw, Store
<1>. QED
  BY <1>1, <1>2, <1>3, <1>4, <1>5

\* An identifier is issued with the number that the sequence leaves behind.
LEMMA NumberStep ==
  ASSUME IndInv, NEW t \in Thread, Number(t)
  PROVE  IndInv'
<1>. USE DEF IndInv
<1>. DEFINE this == <<prefix[t], REQUEST_ID_SEQUENCE>>
<1>1. this \in Prefix \X Numbers /\ prefix[t] = REQUEST_ID_PREFIX
  BY DEF Number, Types, Borrowed
<1>2. Types'
  BY <1>1, ModulusAssumption DEF Number, Types, Numbers
<1>3. OneInitialiser' /\ Borrowed'
  BY DEF Number, Types, OneInitialiser, Borrowed
<1>4. IssuedPrefix'
  <2>1. SUFFICES ASSUME NEW id \in Prefix \X Numbers, issued'[id] > 0
                 PROVE  id[1] = REQUEST_ID_PREFIX
    BY DEF Number, IssuedPrefix
  <2>2. CASE id = this
    BY <1>1, <2>2
  <2>3. CASE id # this
    BY <2>1, <2>3 DEF Number, Types, IssuedPrefix
  <2>. QED
    BY <2>2, <2>3
<1>5. UniqueUntilWrap'
  <2>1. SUFFICES ASSUME NEW id \in Prefix \X Numbers
                 PROVE  issued'[id] <= wraps' + (IF id[2] < REQUEST_ID_SEQUENCE' THEN 1 ELSE 0)
    BY DEF UniqueUntilWrap
  <2>2. /\ id[2] \in 0..(Modulus - 1) /\ REQUEST_ID_SEQUENCE \in 0..(Modulus - 1)
        /\ wraps \in Nat /\ issued[id] \in Nat /\ Modulus \in Nat
    BY ModulusAssumption DEF Types, Numbers
  <2>3. issued[id] <= wraps + (IF id[2] < REQUEST_ID_SEQUENCE THEN 1 ELSE 0)
    BY DEF UniqueUntilWrap
  <2>4. CASE id = this
    <3>1. id[2] = REQUEST_ID_SEQUENCE /\ issued'[id] = issued[id] + 1
      BY <1>1, <2>4 DEF Number, Types
    <3>. QED
      BY <2>2, <2>3, <3>1 DEF Number
  <2>5. CASE id # this /\ id[1] = REQUEST_ID_PREFIX
    <3>1. id[2] # REQUEST_ID_SEQUENCE /\ issued'[id] = issued[id]
      BY <1>1, <2>5 DEF Number, Types
    <3>. QED
      BY <2>2, <2>3, <3>1 DEF Number
  <2>6. CASE id # this /\ id[1] # REQUEST_ID_PREFIX
    <3>1. issued'[id] = issued[id] /\ issued[id] = 0
      BY <2>2, <2>6 DEF Number, Types, IssuedPrefix
    <3>. QED
      BY <2>2, <3>1 DEF Number
  <2>. QED
    BY <2>4, <2>5, <2>6
<1>. QED
  BY <1>2, <1>3, <1>4, <1>5

\* The strengthened invariant is inductive.
THEOREM Inductive == Spec => []IndInv
<1>1. IndInv /\ [Next]_vars => IndInv'
  <2>1. CASE UNCHANGED vars
    BY <2>1 DEF vars, IndInv, Types, OneInitialiser, Borrowed, IssuedPrefix, UniqueUntilWrap
  <2>2. ASSUME IndInv, Next PROVE IndInv'
    BY <2>2, PrefixSteps, NumberStep DEF Next
  <2>. QED
    BY <2>1, <2>2
<1>. QED
  BY InitHolds, <1>1, PTL DEF Spec

\* Until the sequence wraps, generated_request_id never repeats an identifier;
\* afterwards it repeats one at most once per wrap.
THEOREM NoEarlyRepeat == Spec => []UniqueUntilWrap
<1>1. IndInv => UniqueUntilWrap
  BY DEF IndInv
<1>. QED
  BY <1>1, Inductive, PTL

\* All identifiers of one instance carry the same prefix.
THEOREM SamePrefix == Spec => []OnePrefix
<1>1. IndInv => OnePrefix
  BY DEF IndInv, IssuedPrefix, OnePrefix
<1>. QED
  BY <1>1, Inductive, PTL
===============================================================================
