------------------------------ MODULE RequestIds ------------------------------
(***************************************************************************)
(* generated_request_id of crates/component-support: a random prefix,      *)
(* drawn once per instance in a OnceLock, and a sequence number taken by   *)
(* fetch_add, which wraps around.  Every access of shared state is one     *)
(* step.  While one thread runs the initialiser of the OnceLock, the       *)
(* others wait in get_or_init.                                             *)
(***************************************************************************)
EXTENDS Integers

CONSTANTS
    Thread,         \* concurrent callers
    Prefix,         \* the values random_request_id_prefix may draw
    Modulus,        \* 2^64, the number of sequence values
    MaxWraps        \* bound: how often the sequence may wrap

ASSUME PrefixAssumption == Prefix # {}
ASSUME ModulusAssumption == Modulus \in Nat \ {0}
ASSUME MaxWrapsAssumption == MaxWraps \in Nat

Unset == "unset"
ASSUME UnsetAssumption == Unset \notin Prefix

VARIABLES
    REQUEST_ID_PREFIX,      \* the OnceLock
    REQUEST_ID_SEQUENCE,    \* the AtomicU64
    pc,                     \* idle, drawn (in the initialiser), numbering
    prefix,                 \* the local variable: drawn, then borrowed
    issued,                 \* history: how often each identifier was issued
    wraps                   \* history: how often the sequence has wrapped

vars == <<REQUEST_ID_PREFIX, REQUEST_ID_SEQUENCE, pc, prefix, issued, wraps>>

Numbers == 0..(Modulus - 1)

Init ==
    /\ REQUEST_ID_PREFIX = Unset
    /\ REQUEST_ID_SEQUENCE = 0
    /\ pc = [t \in Thread |-> "idle"]
    /\ prefix = [t \in Thread |-> Unset]
    /\ issued = [id \in Prefix \X Numbers |-> 0]
    /\ wraps = 0
-------------------------------------------------------------------------------
(* get_or_init *)

\* The prefix is there: it is borrowed.
Borrow(t) ==
    /\ pc[t] = "idle" /\ REQUEST_ID_PREFIX # Unset
    /\ prefix' = [prefix EXCEPT ![t] = REQUEST_ID_PREFIX]
    /\ pc' = [pc EXCEPT ![t] = "numbering"]
    /\ UNCHANGED <<REQUEST_ID_PREFIX, REQUEST_ID_SEQUENCE, issued, wraps>>

\* It is not, and nobody is initialising it: draw one.
DrawUnlocked(t) ==
    /\ pc[t] = "idle" /\ REQUEST_ID_PREFIX = Unset
    /\ \E p \in Prefix : prefix' = [prefix EXCEPT ![t] = p]
    /\ pc' = [pc EXCEPT ![t] = "drawn"]
    /\ UNCHANGED <<REQUEST_ID_PREFIX, REQUEST_ID_SEQUENCE, issued, wraps>>

Draw(t) ==
    /\ pc[t] = "idle" /\ REQUEST_ID_PREFIX = Unset
    /\ \A u \in Thread : pc[u] # "drawn"
    /\ \E p \in Prefix : prefix' = [prefix EXCEPT ![t] = p]
    /\ pc' = [pc EXCEPT ![t] = "drawn"]
    /\ UNCHANGED <<REQUEST_ID_PREFIX, REQUEST_ID_SEQUENCE, issued, wraps>>

\* The initialiser returns and its value is stored.
Store(t) ==
    /\ pc[t] = "drawn"
    /\ REQUEST_ID_PREFIX' = prefix[t]
    /\ pc' = [pc EXCEPT ![t] = "numbering"]
    /\ UNCHANGED <<REQUEST_ID_SEQUENCE, prefix, issued, wraps>>

\* fetch_add returns the old value; the identifier is complete.
NumberHalfWidth(t) ==
    /\ pc[t] = "numbering"
    /\ wraps < MaxWraps \/ REQUEST_ID_SEQUENCE < Modulus - 1
    /\ issued' = [issued EXCEPT ![<<prefix[t], REQUEST_ID_SEQUENCE>>] = @ + 1]
    /\ REQUEST_ID_SEQUENCE' = (REQUEST_ID_SEQUENCE + 1) % (Modulus \div 2)
    /\ pc' = [pc EXCEPT ![t] = "idle"]
    /\ UNCHANGED <<REQUEST_ID_PREFIX, prefix, wraps>>

Number(t) ==
    /\ pc[t] = "numbering"
    /\ wraps < MaxWraps \/ REQUEST_ID_SEQUENCE < Modulus - 1
    /\ issued' = [issued EXCEPT ![<<prefix[t], REQUEST_ID_SEQUENCE>>] = @ + 1]
    /\ REQUEST_ID_SEQUENCE' = IF REQUEST_ID_SEQUENCE = Modulus - 1
                                THEN 0 ELSE REQUEST_ID_SEQUENCE + 1
    /\ wraps' = IF REQUEST_ID_SEQUENCE = Modulus - 1 THEN wraps + 1 ELSE wraps
    /\ pc' = [pc EXCEPT ![t] = "idle"]
    /\ UNCHANGED <<REQUEST_ID_PREFIX, prefix>>

Next == \E t \in Thread : Borrow(t) \/ Draw(t) \/ Store(t) \/ Number(t)

Spec == Init /\ [][Next]_vars
-------------------------------------------------------------------------------
(* Properties *)

\* docs/CONFIGURATION.md, "unique within that instance until the sequence
\* wraps": until the first wrap no identifier is issued twice; after it, an
\* identifier comes back once per wrap and no sooner.
UniqueUntilWrap == \A id \in Prefix \X Numbers :
    issued[id] <= wraps + (IF id[2] < REQUEST_ID_SEQUENCE THEN 1 ELSE 0)

\* One instance uses one prefix, whoever wins the race to draw it: all its
\* identifiers can be correlated.
OnePrefix == \A id1, id2 \in Prefix \X Numbers :
    issued[id1] > 0 /\ issued[id2] > 0 => id1[1] = id2[1]
===============================================================================
