--------------------------- MODULE PolicyPathProofs ---------------------------
(***************************************************************************)
(* The properties of PolicyPath for every byte string and every limit.     *)
(***************************************************************************)
EXTENDS PathReference, FiniteSetTheorems, TLAPS

\* The variables keep their types.
TypeOK ==
    /\ given \in Seq(Byte) /\ input \in Seq(Byte)
    /\ pc \in {"split", "decode", "ok", "invalid"}
    /\ index \in Nat \ {0}
    /\ decoded \in Seq(Byte) /\ from \in Seq(Nat)
    /\ pass \in {1, 2}

Special(b) == b \in {PERCENT, QUESTION, BACKSLASH, HASH} \/ IsControl(b)

\* What a normalised path is: everything the second call tests.
Normal(s) ==
    /\ s # <<>> /\ s[1] = SLASH
    /\ \A i \in 1..Len(s) : ~Special(s[i])
    /\ Utf8(s) /\ Len(s) <= MAX_POLICY_PATH_LEN
    /\ ~EmptySegment(s) /\ ~DotSegment(s)

SplitInv ==
    pc = "split" =>
        /\ index <= Len(given) + 1 /\ decoded = <<>> /\ from = <<>> /\ input = <<>>
        /\ \A i \in 1..(index - 1) : given[i] # QUESTION

DecodeInv ==
    pc = "decode" =>
        /\ input # <<>> /\ input[1] = SLASH
        /\ \A i \in 1..Len(input) : input[i] # QUESTION
        /\ index <= Len(input) + 1
        /\ \A i \in 1..Len(decoded) : ~Special(decoded[i])
        /\ index = 1 <=> decoded = <<>>
        /\ decoded # <<>> => decoded[1] = SLASH

\* Where each decoded byte came from.
FromInv ==
    pc \in {"decode", "ok"} /\ input # <<>> =>
        /\ Len(from) = Len(decoded)
        /\ \A i \in 1..Len(from) :
             /\ from[i] \in 1..Len(input) /\ from[i] < index
             /\ decoded[i] = SLASH <=> input[from[i]] = SLASH
        /\ \A i, j \in 1..Len(from) : i < j => from[i] < from[j]
        /\ \A k \in 1..Len(input) :
             k < index /\ input[k] = SLASH => \E i \in 1..Len(from) : from[i] = k

OkInv == pc = "ok" => Normal(decoded)

\* The second call reads a normalised path and copies it.
SecondInv ==
    pass = 2 =>
        /\ Normal(given)
        /\ pc # "invalid"
        /\ pc \in {"decode", "ok"} => input = given
        /\ pc = "decode" =>
             Len(decoded) = index - 1 /\ \A i \in 1..Len(decoded) : decoded[i] = given[i]
        /\ pc = "ok" => decoded = given

Inv == TypeOK /\ SplitInv /\ DecodeInv /\ FromInv /\ OkInv /\ SecondInv
-------------------------------------------------------------------------------
\* The path of an empty request target is in normal form.
LEMMA SlashNormal == Normal(<<SLASH>>)
BY LimitAssumption
DEF Normal, Special, IsControl, Utf8, EmptySegment, DotSegment,
    SLASH, PERCENT, QUESTION, BACKSLASH, HASH, DOT

\* A digit is a value below 16 or absent.
LEMMA DigitRange ==
    ASSUME TypeOK, NEW i \in Nat \ {0}
    PROVE  Digit(i) \in -1..15
<1>1. CASE i <= Len(input)
  <2>1. input[i] \in Byte  BY <1>1 DEF TypeOK
  <2>2. hex_value(input[i]) \in -1..15  BY <2>1 DEF hex_value, Byte
  <2>. QED  BY <1>1, <2>2 DEF Digit
<1>2. CASE ~(i <= Len(input))  BY <1>2 DEF Digit
<1>. QED  BY <1>1, <1>2

\* Two hexadecimal digits make a byte.
LEMMA DecodedByteType ==
    ASSUME TypeOK, ~(Digit(index + 1) < 0), ~(Digit(index + 2) < 0)
    PROVE  DecodedByte \in Byte
<1>1. Digit(index + 1) \in -1..15 /\ Digit(index + 2) \in -1..15
  BY DigitRange DEF TypeOK
<1>. QED  BY <1>1 DEF DecodedByte, Byte
-------------------------------------------------------------------------------
\* The invariant holds before the first byte is read.
LEMMA InitInv == Init => Inv
BY PathAssumption
DEF Init, Start, Inv, TypeOK, SplitInv, DecodeInv, FromInv, OkInv, SecondInv

\* Looking for the query keeps the invariant.
LEMMA ScanStep == ASSUME Inv, Scan PROVE Inv'
BY DEF Inv, Scan, TypeOK, SplitInv, DecodeInv, FromInv, OkInv, SecondInv

\* Cutting the path at the query keeps the invariant.
LEMMA SplitStep == ASSUME Inv, Split PROVE Inv'
<1>. DEFINE raw_path == SubSeq(given, 1, index - 1)
<1>1. /\ raw_path \in Seq(Byte) /\ Len(raw_path) = index - 1
      /\ \A i \in 1..Len(raw_path) : raw_path[i] = given[i] /\ raw_path[i] # QUESTION
  BY DEF Inv, TypeOK, SplitInv, Split
<1>2. pass = 2 => raw_path = given /\ raw_path # <<>> /\ raw_path[1] = SLASH
                  /\ Len(raw_path) <= MAX_POLICY_PATH_LEN
  <2>. SUFFICES ASSUME pass = 2 PROVE raw_path = given
    BY DEF Inv, SecondInv, Normal
  <2>1. \A i \in 1..Len(given) : given[i] # QUESTION
    BY DEF Inv, SecondInv, Normal, Special
  <2>2. index = Len(given) + 1
    BY <2>1 DEF Inv, TypeOK, SplitInv, Split
  <2>. QED  BY <2>2, <1>1 DEF Inv, TypeOK
<1>. HIDE DEF raw_path
<1>3. CASE raw_path = <<>>
  <2>1. pass = 1 /\ input' = <<>> /\ pc' = "ok" /\ decoded' = <<SLASH>> /\ index' = 1
        /\ UNCHANGED <<given, from, pass>>
    BY <1>2, <1>3 DEF Split, raw_path, Inv, TypeOK
  <2>2. TypeOK'  BY <2>1 DEF Inv, TypeOK, SLASH, Byte
  <2>3. OkInv'  BY <2>1, SlashNormal DEF OkInv
  <2>4. SplitInv' /\ DecodeInv' /\ FromInv' /\ SecondInv'
    BY <2>1 DEF SplitInv, DecodeInv, FromInv, SecondInv
  <2>. QED  BY <2>2, <2>3, <2>4 DEF Inv
<1>4. CASE raw_path # <<>>
  <2>1. /\ input' = raw_path /\ index' = 1 /\ UNCHANGED <<given, from, pass, decoded>>
        /\ pc' = IF raw_path[1] # SLASH \/ Len(raw_path) > MAX_POLICY_PATH_LEN
                   THEN "invalid" ELSE "decode"
        /\ decoded = <<>> /\ from = <<>>
    BY <1>4 DEF Split, raw_path, Inv, SplitInv
  <2>2. TypeOK'  BY <2>1, <1>1 DEF Inv, TypeOK
  <2>3. SplitInv' /\ OkInv'  BY <2>1 DEF SplitInv, OkInv
  <2>4. DecodeInv'  BY <2>1, <1>1, <1>4 DEF DecodeInv
  <2>5. FromInv'  BY <2>1, <1>1 DEF FromInv
  <2>6. SecondInv'
    <3>. SUFFICES ASSUME pass = 2 PROVE SecondInv'  BY <2>1 DEF SecondInv
    <3>1. pc' = "decode" /\ input' = given' /\ given' = given
      BY <2>1, <1>2, LimitAssumption, <1>1 DEF Inv, TypeOK
    <3>. QED  BY <2>1, <3>1 DEF SecondInv, Inv
  <2>. QED  BY <2>2, <2>3, <2>4, <2>5, <2>6 DEF Inv
<1>. QED  BY <1>3, <1>4

\* Refusing a path keeps the invariant.
LEMMA InvalidStep ==
    ASSUME Inv, pc = "decode", pass = 1, InvalidPath
    PROVE  Inv'
BY DEF Inv, InvalidPath, TypeOK, SplitInv, DecodeInv, FromInv, OkInv, SecondInv

\* Pushing a byte that may stand in a path, for a byte of the path that is a
\* slash exactly when the pushed one is.
LEMMA PushStep ==
    ASSUME Inv, pc = "decode", NEW byte \in Byte, NEW width \in {1, 3},
           Push(byte, width), index + width <= Len(input) + 1,
           ~Special(byte), byte = SLASH <=> input[index] = SLASH,
           index = 1 => byte = SLASH,
           pass = 2 => width = 1 /\ byte = input[index],
           \A k \in 1..(width - 1) : input[index + k] # SLASH
    PROVE  Inv'
<1>. USE DEF Inv, Push
<1>1. TypeOK'  BY DEF TypeOK
<1>2. SplitInv' /\ OkInv'  BY DEF SplitInv, OkInv
<1>3. /\ Len(decoded') = Len(decoded) + 1 /\ decoded'[Len(decoded) + 1] = byte
      /\ \A i \in 1..Len(decoded) : decoded'[i] = decoded[i]
  BY DEF TypeOK
<1>4. /\ Len(from') = Len(from) + 1 /\ from'[Len(from) + 1] = index
      /\ \A i \in 1..Len(from) : from'[i] = from[i]
  BY DEF TypeOK
<1>5. DecodeInv'
  <2>1. \A i \in 1..Len(decoded') : ~Special(decoded'[i])
    BY <1>3 DEF TypeOK, DecodeInv
  <2>2. decoded' # <<>> /\ index' # 1
    <3>1. Len(decoded') # 0 /\ Len(<<>>) = 0  BY <1>3 DEF TypeOK
    <3>2. index' # 1  BY DEF TypeOK
    <3>. QED  BY <3>1, <3>2
  <2>3. decoded'[1] = SLASH
    BY <1>3 DEF TypeOK, DecodeInv
  <2>. QED  BY <2>1, <2>2, <2>3 DEF DecodeInv, TypeOK
<1>6. FromInv'
  <2>0. /\ input # <<>> /\ input' = input /\ Len(from) = Len(decoded)
        /\ index' = index + width /\ index \in Nat \ {0} /\ Len(from) \in Nat
        /\ Len(input) \in Nat /\ index \in 1..Len(input)
    BY DEF TypeOK, DecodeInv, FromInv
  <2>1. \A i \in 1..Len(from') :
             /\ from'[i] \in 1..Len(input') /\ from'[i] < index'
             /\ decoded'[i] = SLASH <=> input'[from'[i]] = SLASH
    BY <2>0, <1>3, <1>4 DEF FromInv
  <2>2. ASSUME NEW i \in 1..Len(from'), NEW j \in 1..Len(from'), i < j
        PROVE  from'[i] < from'[j]
    <3>1. i \in 1..Len(from) /\ from'[i] = from[i]  BY <2>0, <2>2, <1>4
    <3>2. CASE j \in 1..Len(from)  BY <2>0, <2>2, <3>1, <3>2, <1>4 DEF FromInv
    <3>3. CASE j = Len(from) + 1  BY <2>0, <3>1, <3>3, <1>4 DEF FromInv
    <3>. QED  BY <2>0, <3>2, <3>3, <1>4
  <2>3. ASSUME NEW k \in 1..Len(input'), k < index', input'[k] = SLASH
        PROVE  \E i \in 1..Len(from') : from'[i] = k
    <3>1. CASE k < index
      <4>1. PICK i \in 1..Len(from) : from[i] = k
        BY <3>1, <2>3, <2>0 DEF FromInv
      <4>. QED  BY <4>1, <1>4, <2>0
    <3>2. CASE k = index  BY <3>2, <1>4, <2>0
    <3>3. CASE k > index
      <4>1. k - index \in 1..(width - 1) /\ index + (k - index) = k
        BY <3>3, <2>3, <2>0
      <4>. QED  BY <4>1, <2>3, <2>0
    <3>. QED  BY <3>1, <3>2, <3>3, <2>0
  <2>. QED  BY <2>0, <2>1, <2>2, <2>3, <1>3, <1>4 DEF FromInv
<1>7. SecondInv'
  <2>. SUFFICES ASSUME pass = 2 PROVE SecondInv'  BY DEF SecondInv
  <2>1. input = given /\ Len(decoded) = index - 1 /\ index' = index + 1
        /\ \A i \in 1..Len(decoded) : decoded[i] = given[i]
    BY DEF SecondInv
  <2>2. \A i \in 1..Len(decoded') : decoded'[i] = given[i]
    BY <2>1, <1>3 DEF TypeOK
  <2>. QED  BY <2>1, <2>2, <1>3 DEF SecondInv, TypeOK
<1>. QED  BY <1>1, <1>2, <1>5, <1>6, <1>7

\* Decoding an escape keeps the invariant.
LEMMA EscapeStep == ASSUME Inv, Escape PROVE Inv'
<1>1. pc = "decode" /\ index \in 1..Len(input) /\ input[index] = PERCENT
  BY DEF Inv, TypeOK, Escape
<1>2. pass = 1
  BY <1>1 DEF Inv, TypeOK, SecondInv, Normal, Special
<1>3. CASE Digit(index + 1) < 0 \/ Digit(index + 2) < 0 \/ Refused(DecodedByte)
  BY <1>1, <1>2, <1>3, InvalidStep DEF Escape
<1>4. CASE ~(Digit(index + 1) < 0 \/ Digit(index + 2) < 0 \/ Refused(DecodedByte))
  <2>1. DecodedByte \in Byte  BY <1>4, DecodedByteType DEF Inv
  <2>2. Push(DecodedByte, 3)  BY <1>4 DEF Escape
  <2>3. ~Special(DecodedByte) /\ DecodedByte # SLASH
    BY <1>4 DEF Refused, Special
  <2>4. index + 2 <= Len(input) /\ Digit(index + 1) = hex_value(input[index + 1])
        /\ Digit(index + 2) = hex_value(input[index + 2])
    BY <1>4, <1>1 DEF Digit, Inv, TypeOK
  <2>5. hex_value(SLASH) < 0  BY DEF hex_value, SLASH
  <2>6. \A k \in 1..2 : input[index + k] # SLASH
    BY <2>4, <2>5, <1>4
  <2>7. index # 1 /\ input[index] # SLASH
    BY <1>1 DEF Inv, DecodeInv, PERCENT, SLASH
  <2>8. index + 3 <= Len(input) + 1  BY <2>4, <1>1
  <2>. QED  BY <1>1, <1>2, <2>1, <2>2, <2>3, <2>6, <2>7, <2>8, PushStep
<1>. QED  BY <1>3, <1>4

\* Copying a literal byte keeps the invariant.
LEMMA LiteralStep == ASSUME Inv, Literal PROVE Inv'
<1>1. pc = "decode" /\ index \in 1..Len(input) /\ input[index] # PERCENT
      /\ input[index] \in Byte /\ input[index] # QUESTION
  BY DEF Inv, TypeOK, Literal, DecodeInv
<1>2. CASE input[index] \in {BACKSLASH, HASH} \/ IsControl(input[index])
  <2>1. pass = 1
    BY <1>1, <1>2 DEF Inv, TypeOK, SecondInv, Normal, Special
  <2>. QED  BY <1>1, <1>2, <2>1, InvalidStep DEF Literal
<1>3. CASE ~(input[index] \in {BACKSLASH, HASH} \/ IsControl(input[index]))
  <2>1. Push(input[index], 1) /\ ~Special(input[index])
    BY <1>1, <1>3 DEF Literal, Special
  <2>2. index = 1 => input[index] = SLASH
    BY <1>1 DEF Inv, DecodeInv
  <2>3. index + 1 <= Len(input) + 1 /\ \A k \in 1..(1 - 1) : input[index + k] # SLASH
    BY <1>1
  <2>. QED  BY <1>1, <2>1, <2>2, <2>3, PushStep
<1>. QED  BY <1>2, <1>3

\* The tests after the loop keep the invariant, and establish the normal form.
LEMMA FinishStep == ASSUME Inv, Finish PROVE Inv'
<1>1. /\ pc = "decode" /\ UNCHANGED <<given, input, index, decoded, from, pass>>
      /\ pc' = IF \/ ~Utf8(decoded)
                  \/ Len(decoded) > MAX_POLICY_PATH_LEN
                  \/ EmptySegment(decoded) \/ DotSegment(decoded)
                 THEN "invalid" ELSE "ok"
      /\ index = Len(input) + 1
  BY DEF Inv, TypeOK, DecodeInv, Finish
<1>2. TypeOK' /\ SplitInv' /\ DecodeInv'
  BY <1>1 DEF Inv, TypeOK, SplitInv, DecodeInv
<1>3. FromInv'  BY <1>1 DEF Inv, FromInv
<1>4. OkInv'
  <2>. SUFFICES ASSUME pc' = "ok" PROVE Normal(decoded)  BY <1>1 DEF OkInv
  <2>1. decoded # <<>> /\ decoded[1] = SLASH /\ \A i \in 1..Len(decoded) : ~Special(decoded[i])
    BY <1>1 DEF Inv, TypeOK, DecodeInv
  <2>2. Len(decoded) <= MAX_POLICY_PATH_LEN  BY <1>1, LimitAssumption DEF Inv, TypeOK
  <2>. QED  BY <1>1, <2>1, <2>2 DEF Normal
<1>5. SecondInv'
  <2>. SUFFICES ASSUME pass = 2 PROVE SecondInv'  BY <1>1 DEF SecondInv
  <2>1. Normal(given) /\ input = given /\ Len(decoded) = index - 1
        /\ \A i \in 1..Len(decoded) : decoded[i] = given[i]
    BY <1>1 DEF Inv, SecondInv
  <2>2. decoded = given  BY <1>1, <2>1 DEF Inv, TypeOK
  <2>3. pc' = "ok"  BY <1>1, <2>1, <2>2, LimitAssumption DEF Normal, Inv, TypeOK
  <2>. QED  BY <1>1, <2>1, <2>2, <2>3 DEF SecondInv
<1>. QED  BY <1>2, <1>3, <1>4, <1>5 DEF Inv

\* The second pass starts within the invariant.
LEMMA AgainStep == ASSUME Inv, Again PROVE Inv'
BY DEF Inv, Again, TypeOK, SplitInv, DecodeInv, FromInv, OkInv, SecondInv

\* A stuttering step keeps the invariant.
LEMMA StutterStep == ASSUME Inv, UNCHANGED vars PROVE Inv'
BY DEF Inv, vars, TypeOK, SplitInv, DecodeInv, FromInv, OkInv, SecondInv

\* The conjunction Inv is inductive.
THEOREM Invariant == Spec => []Inv
<1>1. ASSUME Inv, [Next]_vars PROVE Inv'
  BY <1>1, ScanStep, SplitStep, EscapeStep, LiteralStep, FinishStep, AgainStep, StutterStep
  DEF Next
<1>. QED  BY InitInv, <1>1, PTL DEF Spec

\* Every accepted path is in normal form, whatever was escaped in it and however
\* long it is: no byte or segment that a later reader of the path would decode
\* or resolve again.
THEOREM PathNormal == Spec => []NormalForm
<1>1. Inv => NormalForm
  BY DEF Inv, OkInv, Normal, Special, NormalForm
<1>. QED  BY Invariant, <1>1, PTL

\* Decoding keeps the segment boundaries of every path.
THEOREM PathSegments == Spec => []SegmentsKept
<1>1. Inv => SegmentsKept
  BY DEF Inv, FromInv, SegmentsKept
<1>. QED  BY Invariant, <1>1, PTL

\* Normalising twice is normalising once, for every path.
THEOREM PathIdempotent == Spec => []Idempotent
<1>1. Inv => Idempotent
  BY DEF Inv, SecondInv, Idempotent
<1>. QED  BY Invariant, <1>1, PTL
-------------------------------------------------------------------------------
(* The loop against the reference of PathReference *)

\* What the loop has read so far, in the words of the reference: what lies behind
\* index is well formed, no escape reaches over it, and the bytes pushed are what
\* the kept places stand for.
ReadSoFar ==
    pc = "decode" =>
        /\ Len(input) <= MAX_POLICY_PATH_LEN
        /\ \A i \in 1..(index - 1) : WellFormedAt(input, i)
        /\ \A k \in 1..2 : index > k => ~StartsEscape(input, index - k)
        /\ \A i \in 1..(index - 1) :
             i \in Kept(input) <=> \E n \in 1..Len(from) : from[n] = i
        /\ \A n \in 1..Len(from) : decoded[n] = Meaning(input, from[n])

RefInv == ReadSoFar /\ MatchesReference

\* The places of an increasing sequence have their position as their rank.
LEMMA RankOfPlace ==
    ASSUME NEW K, NEW f \in Seq(Nat),
           \A i, j \in 1..Len(f) : i < j => f[i] < f[j],
           \A i \in K : \E m \in 1..Len(f) : f[m] = i,
           \A m \in 1..Len(f) : f[m] \in K,
           NEW n \in 1..Len(f)
    PROVE  Cardinality({j \in K : j <= f[n]}) = n
<1>. DEFINE T == {j \in K : j <= f[n]}
            g == [m \in 1..n |-> f[m]]
<1>0. n \in Nat /\ Len(f) \in Nat /\ \A m \in 1..Len(f) : f[m] \in Nat  OBVIOUS
<1>1. \A m \in 1..n : m \in 1..Len(f) /\ f[m] <= f[n]
  BY <1>0
<1>2. g \in [1..n -> T]  BY <1>1
<1>3. IsInjective(g)
  <2>. SUFFICES ASSUME NEW a \in 1..n, NEW b \in 1..n, f[a] = f[b] PROVE a = b
    BY DEF IsInjective
  <2>1. a \in 1..Len(f) /\ b \in 1..Len(f)  BY <1>1
  <2>2. ~(a < b) /\ ~(b < a)  BY <2>1, <1>0
  <2>. QED  BY <2>2, <1>0
<1>4. \A t \in T : \E m \in 1..n : g[m] = t
  <2>. SUFFICES ASSUME NEW t \in K, t <= f[n] PROVE \E m \in 1..n : f[m] = t
    OBVIOUS
  <2>1. PICK m \in 1..Len(f) : f[m] = t  OBVIOUS
  <2>2. ~(n < m)  BY <2>1, <1>0
  <2>3. m \in 1..n  BY <2>1, <2>2, <1>0
  <2>. QED  BY <2>1, <2>3
<1>5. g \in Bijection(1..n, T)
  BY <1>2, <1>3, <1>4 DEF Bijection, Injection, Surjection
<1>6. ExistsBijection(1..n, T)  BY <1>5 DEF ExistsBijection
<1>. QED  BY <1>0, <1>6, FS_CountingElements

\* A set is as large as the increasing sequence of its elements is long.
LEMMA SizeOfPlaces ==
    ASSUME NEW K, NEW f \in Seq(Nat),
           \A i, j \in 1..Len(f) : i < j => f[i] < f[j],
           \A i \in K : \E m \in 1..Len(f) : f[m] = i,
           \A m \in 1..Len(f) : f[m] \in K
    PROVE  Cardinality(K) = Len(f)
<1>. DEFINE n == Len(f)
            g == [m \in 1..n |-> f[m]]
<1>0. n \in Nat /\ \A m \in 1..n : f[m] \in Nat  OBVIOUS
<1>1. g \in [1..n -> K]  OBVIOUS
<1>2. IsInjective(g)
  <2>. SUFFICES ASSUME NEW a \in 1..n, NEW b \in 1..n, f[a] = f[b] PROVE a = b
    BY DEF IsInjective
  <2>1. ~(a < b) /\ ~(b < a)  BY <1>0
  <2>. QED  BY <2>1, <1>0
<1>3. \A t \in K : \E m \in 1..n : g[m] = t  OBVIOUS
<1>4. g \in Bijection(1..n, K)
  BY <1>1, <1>2, <1>3 DEF Bijection, Injection, Surjection
<1>5. ExistsBijection(1..n, K)  BY <1>4 DEF ExistsBijection
<1>. QED  BY <1>0, <1>5, FS_CountingElements

\* At the end of the loop the bytes pushed are the reference's decoding.
LEMMA DecodingDone ==
    ASSUME Inv, ReadSoFar, pc = "decode", index > Len(input)
    PROVE  decoded = Decoding(input) /\ Len(decoded) <= Len(input)
<1>. DEFINE kept == Kept(input)
            RankOf(i) == Cardinality({j \in kept : j <= i})
<1>0. /\ input # <<>> /\ Len(input) \in Nat /\ index = Len(input) + 1
      /\ from \in Seq(Nat) /\ Len(from) \in Nat /\ Len(from) = Len(decoded)
      /\ decoded \in Seq(Byte)
  BY DEF Inv, TypeOK, DecodeInv, FromInv
<1>1. /\ \A i, j \in 1..Len(from) : i < j => from[i] < from[j]
      /\ \A m \in 1..Len(from) : from[m] \in 1..Len(input)
  BY <1>0 DEF Inv, FromInv
<1>2. \A i \in 1..Len(input) : i \in kept <=> \E n \in 1..Len(from) : from[n] = i
  BY <1>0 DEF ReadSoFar
<1>3. kept \subseteq 1..Len(input)  BY DEF Kept
<1>. HIDE DEF kept
<1>4. /\ \A i \in kept : \E m \in 1..Len(from) : from[m] = i
      /\ \A m \in 1..Len(from) : from[m] \in kept
  BY <1>1, <1>2, <1>3
<1>5. \A n \in 1..Len(from) : RankOf(from[n]) = n
  BY <1>0, <1>1, <1>4, RankOfPlace
<1>6. Cardinality(kept) = Len(from)
  BY <1>0, <1>1, <1>4, SizeOfPlaces
<1>. HIDE DEF RankOf
<1>7. \A n \in 1..Len(from) : (CHOOSE i \in kept : RankOf(i) = n) = from[n]
  <2>. TAKE n \in 1..Len(from)
  <2>1. \E i \in kept : RankOf(i) = n  BY <1>4, <1>5
  <2>2. \A i \in kept : RankOf(i) = n => i = from[n]  BY <1>4, <1>5
  <2>. QED  BY <2>1, <2>2
<1>8. Decoding(input)
        = [n \in 1..Cardinality(kept) |-> Meaning(input, CHOOSE i \in kept : RankOf(i) = n)]
  BY DEF Decoding, kept, RankOf
<1>9. \A n \in 1..Len(from) : decoded[n] = Meaning(input, from[n])
  BY DEF ReadSoFar
<1>10. decoded = [n \in 1..Len(decoded) |-> decoded[n]]  BY <1>0
<1>11. Decoding(input) = [n \in 1..Len(decoded) |-> decoded[n]]
  BY <1>0, <1>6, <1>7, <1>8, <1>9
<1>12. Len(decoded) <= Len(input)
  <2>. DEFINE n == Len(input)
  <2>1. n \in Int /\ 1 \in Int /\ ~(1 > n + 1) /\ n - 1 + 1 = n  BY <1>0
  <2>2. 1 > n => n = 0  BY <1>0
  <2>. HIDE DEF n
  <2>3. IsFiniteSet(1..n) /\ Cardinality(1..n) = IF 1 > n THEN 0 ELSE n - 1 + 1
    BY <2>1, FS_Interval
  <2>4. Cardinality(1..n) = n  BY <2>1, <2>2, <2>3
  <2>5. Cardinality(kept) <= Cardinality(1..n)
    BY <2>3, <1>3, FS_Subset DEF n
  <2>. QED  BY <2>4, <2>5, <1>0, <1>6 DEF n
<1>. QED  BY <1>10, <1>11, <1>12

\* The two tests of the segments refuse what the reference refuses.
LEMMA SegmentsAgree ==
    ASSUME NEW s \in Seq(Byte)
    PROVE  GoodSegments(s) <=> ~EmptySegment(s) /\ ~DotSegment(s)
<1>0. Len(s) \in Nat  OBVIOUS
<1>1. ASSUME GoodSegments(s) PROVE ~EmptySegment(s)
  <2>. SUFFICES ASSUME NEW i \in 1..(Len(s) - 1), s[i] = SLASH, s[i + 1] = SLASH
                PROVE  FALSE
    BY DEF EmptySegment
  <2>1. i \in 1..Len(s) /\ i + 1 \in 1..(Len(s) + 1) /\ i + 1 # Len(s) + 1  BY <1>0
  <2>2. IsSegment(s, i, i + 1)  BY <1>0 DEF IsSegment
  <2>3. SubSeq(s, i + 1, (i + 1) - 1) = <<>>  BY <1>0
  <2>. QED  BY <1>1, <2>1, <2>2, <2>3 DEF GoodSegments
<1>2. ASSUME GoodSegments(s) PROVE ~DotSegment(s)
  <2>. SUFFICES ASSUME NEW i \in 1..(Len(s) - 1), NEW n \in 1..2,
                       s[i] = SLASH, i + n <= Len(s), \A k \in 1..n : s[i + k] = DOT,
                       i + n = Len(s) \/ s[i + n + 1] = SLASH
                PROVE  FALSE
    BY DEF DotSegment
  <2>. DEFINE end == i + n + 1
              between == SubSeq(s, i + 1, end - 1)
  <2>1. i \in 1..Len(s) /\ end \in 1..(Len(s) + 1) /\ i < end  BY <1>0
  <2>2. \A j \in (i + 1)..(end - 1) : s[j] # SLASH
    <3>. TAKE j \in (i + 1)..(end - 1)
    <3>1. j - i \in 1..n /\ i + (j - i) = j  OBVIOUS
    <3>. QED  BY <3>1 DEF DOT, SLASH
  <2>3. IsSegment(s, i, end)  BY <2>1, <2>2 DEF IsSegment
  <2>4. between \in Seq(Byte) /\ Len(between) = n /\ \A k \in 1..n : between[k] = DOT
    BY <1>0, <2>1
  <2>. HIDE DEF between
  <2>5. between \in {<<DOT>>, <<DOT, DOT>>}
    <3>1. CASE n = 1
      <4>1. between[1] = DOT /\ Len(between) = 1  BY <2>4, <3>1
      <4>. QED  BY <4>1, <2>4
    <3>2. CASE n = 2
      <4>1. between[1] = DOT /\ between[2] = DOT /\ Len(between) = 2  BY <2>4, <3>2
      <4>. QED  BY <4>1, <2>4
    <3>. QED  BY <3>1, <3>2
  <2>6. between \notin {<<DOT>>, <<DOT, DOT>>}
    BY <1>2, <2>1, <2>3 DEF GoodSegments, between
  <2>. QED  BY <2>5, <2>6
<1>3. ASSUME ~EmptySegment(s), ~DotSegment(s) PROVE GoodSegments(s)
  <2>. SUFFICES ASSUME NEW slash \in 1..Len(s), NEW end \in 1..(Len(s) + 1),
                       IsSegment(s, slash, end)
                PROVE  /\ SubSeq(s, slash + 1, end - 1) \notin {<<DOT>>, <<DOT, DOT>>}
                       /\ SubSeq(s, slash + 1, end - 1) = <<>> => end = Len(s) + 1
    BY DEF GoodSegments
  <2>. DEFINE between == SubSeq(s, slash + 1, end - 1)
  <2>1. slash < end /\ s[slash] = SLASH /\ (end = Len(s) + 1 \/ s[end] = SLASH)
    BY DEF IsSegment
  <2>2. /\ between \in Seq(Byte) /\ Len(between) = end - 1 - slash
        /\ \A k \in 1..Len(between) : between[k] = s[slash + k]
    BY <1>0, <2>1
  <2>. HIDE DEF between
  <2>3. ASSUME NEW n \in 1..2, Len(between) = n, \A k \in 1..n : between[k] = DOT
        PROVE  FALSE
    <3>1. end = slash + n + 1 /\ slash + n <= Len(s) /\ slash \in 1..(Len(s) - 1)
      BY <1>0, <2>1, <2>2, <2>3
    <3>2. \A k \in 1..n : s[slash + k] = DOT  BY <2>2, <2>3
    <3>3. slash + n = Len(s) \/ s[slash + n + 1] = SLASH  BY <1>0, <2>1, <3>1
    <3>. QED  BY <1>3, <2>1, <3>1, <3>2, <3>3 DEF DotSegment
  <2>4. between # <<DOT>>
    <3>. SUFFICES ASSUME between = <<DOT>> PROVE FALSE  OBVIOUS
    <3>. QED  BY <2>3, Len(<<DOT>>) = 1
  <2>5. between # <<DOT, DOT>>
    <3>. SUFFICES ASSUME between = <<DOT, DOT>> PROVE FALSE  OBVIOUS
    <3>. QED  BY <2>3, Len(<<DOT, DOT>>) = 2
  <2>6. between = <<>> => end = Len(s) + 1
    <3>. SUFFICES ASSUME between = <<>>, end # Len(s) + 1 PROVE FALSE  OBVIOUS
    <3>1. end = slash + 1  BY <1>0, <2>1, <2>2
    <3>2. slash \in 1..(Len(s) - 1) /\ s[slash + 1] = SLASH  BY <1>0, <2>1, <3>1
    <3>. QED  BY <1>3, <2>1, <3>2 DEF EmptySegment
  <2>. QED  BY <2>4, <2>5, <2>6 DEF between
<1>. QED  BY <1>1, <1>2, <1>3

\* hex_value knows the hexadecimal digits and their values.
LEMMA HexAgrees ==
    ASSUME NEW b \in Byte
    PROVE  /\ ~(hex_value(b) < 0) <=> IsHex(b)
           /\ IsHex(b) => hex_value(b) = Nibble(b) /\ b # PERCENT
                          /\ b \notin {35, 92, 127} \cup (0..31)
BY DEF hex_value, IsHex, Nibble, Byte, PERCENT

\* The bytes that may not be escaped are the ones the reference lists.
LEMMA RefusedAgrees ==
    ASSUME NEW b \in Byte
    PROVE  Refused(b) <=> b \in {35, 37, 47, 63, 92, 127} \cup (0..31)
BY DEF Refused, IsControl, Byte, PERCENT, SLASH, BACKSLASH, QUESTION, HASH

\* An escape is decoded exactly when the reference calls it well formed, to the
\* byte the reference gives it.
LEMMA EscapeAgrees ==
    ASSUME Inv, pc = "decode", index \in 1..Len(input), input[index] = PERCENT
    PROVE  /\ Digit(index + 1) < 0 \/ Digit(index + 2) < 0 \/ Refused(DecodedByte)
                <=> ~WellFormedAt(input, index)
           /\ WellFormedAt(input, index) => DecodedByte = Meaning(input, index)
<1>0. input \in Seq(Byte) /\ Len(input) \in Nat /\ index \in Nat  BY DEF Inv, TypeOK
<1>1. CASE index + 2 <= Len(input)
  <2>1. input[index + 1] \in Byte /\ input[index + 2] \in Byte  BY <1>0, <1>1
  <2>2. /\ Digit(index + 1) = hex_value(input[index + 1])
        /\ Digit(index + 2) = hex_value(input[index + 2])
    BY <1>0, <1>1 DEF Digit
  <2>3. /\ ~(Digit(index + 1) < 0) <=> IsHex(input[index + 1])
        /\ ~(Digit(index + 2) < 0) <=> IsHex(input[index + 2])
    BY <2>1, <2>2, HexAgrees
  <2>4. ASSUME IsHex(input[index + 1]), IsHex(input[index + 2])
        PROVE  /\ DecodedByte = Meaning(input, index)
               /\ Refused(DecodedByte)
                    <=> DecodedByte \in {35, 37, 47, 63, 92, 127} \cup (0..31)
    <3>1. /\ Digit(index + 1) = Nibble(input[index + 1])
          /\ Digit(index + 2) = Nibble(input[index + 2])
      BY <2>1, <2>2, <2>4, HexAgrees
    <3>2. Digit(index + 1) \in -1..15 /\ Digit(index + 2) \in -1..15
      BY <1>0, DigitRange DEF Inv
    <3>3. DecodedByte = Meaning(input, index)
      BY <3>1, <3>2 DEF DecodedByte, Meaning, StartsEscape
    <3>4. DecodedByte \in Byte  BY <2>3, <2>4, DecodedByteType DEF Inv
    <3>. QED  BY <3>3, <3>4, RefusedAgrees
  <2>. QED  BY <1>1, <2>3, <2>4 DEF WellFormedAt, StartsEscape
<1>2. CASE ~(index + 2 <= Len(input))
  <2>1. Digit(index + 2) < 0  BY <1>0, <1>2 DEF Digit
  <2>. QED  BY <1>2, <2>1 DEF WellFormedAt, StartsEscape
<1>. QED  BY <1>1, <1>2

\* A literal byte is copied exactly when the reference calls it well formed.
LEMMA LiteralAgrees ==
    ASSUME Inv, pc = "decode", index \in 1..Len(input), input[index] # PERCENT
    PROVE  /\ input[index] \in {BACKSLASH, HASH} \/ IsControl(input[index])
                <=> ~WellFormedAt(input, index)
           /\ Meaning(input, index) = input[index]
<1>1. input[index] \in Byte  BY DEF Inv, TypeOK
<1>2. /\ WellFormedAt(input, index) <=> input[index] \notin {35, 92, 127} \cup (0..31)
      /\ Meaning(input, index) = input[index]
  BY DEF WellFormedAt, Meaning, StartsEscape
<1>3. \A b \in Byte : b \in {BACKSLASH, HASH} \/ IsControl(b)
                       <=> b \in {35, 92, 127} \cup (0..31)
  BY DEF IsControl, Byte, BACKSLASH, HASH
<1>. QED  BY <1>1, <1>2, <1>3

\* Pushing what the place at index stands for, and passing over the digits of an
\* escape, reads on as the reference does.
LEMMA PushReads ==
    ASSUME Inv, ReadSoFar, pc = "decode", NEW width \in {1, 3},
           index \in 1..Len(input), index + width <= Len(input) + 1,
           Push(Meaning(input, index), width),
           width = 3 <=> StartsEscape(input, index),
           WellFormedAt(input, index),
           \A k \in 1..(width - 1) : IsHex(input[index + k])
    PROVE  ReadSoFar'
<1>0. /\ input # <<>> /\ input' = input /\ pc' = "decode" /\ index' = index + width
      /\ index \in Nat \ {0} /\ Len(input) \in Nat /\ input \in Seq(Byte)
      /\ Len(from) \in Nat /\ Len(from) = Len(decoded)
      /\ decoded' = Append(decoded, Meaning(input, index)) /\ from' = Append(from, index)
      /\ decoded \in Seq(Byte) /\ from \in Seq(Nat)
  BY DEF Inv, TypeOK, DecodeInv, FromInv, Push
<1>1. /\ Len(from') = Len(from) + 1 /\ from'[Len(from) + 1] = index
      /\ \A n \in 1..Len(from) : from'[n] = from[n]
  BY <1>0
<1>2. /\ decoded'[Len(from) + 1] = Meaning(input, index)
      /\ \A n \in 1..Len(from) : decoded'[n] = decoded[n]
  BY <1>0
<1>3. ASSUME NEW k \in 1..(width - 1)
      PROVE  /\ index + k \in 1..Len(input) /\ ~StartsEscape(input, index + k)
             /\ WellFormedAt(input, index + k)
  <2>1. index + k \in 1..Len(input)  BY <1>0, <1>3
  <2>2. IsHex(input[index + k])  BY <1>3
  <2>3. input[index + k] \in Byte  BY <1>0, <2>1
  <2>. QED  BY <2>1, <2>2, <2>3, HexAgrees DEF WellFormedAt, StartsEscape
<1>4. \A i \in 1..(index' - 1) : WellFormedAt(input, i)
  <2>. TAKE i \in 1..(index' - 1)
  <2>1. CASE i < index  BY <2>1, <1>0 DEF ReadSoFar
  <2>2. CASE i = index  BY <2>2
  <2>3. CASE i > index
    <3>1. i - index \in 1..(width - 1) /\ index + (i - index) = i  BY <2>3, <1>0
    <3>2. WellFormedAt(input, index + (i - index))  BY <3>1, <1>3
    <3>. QED  BY <3>1, <3>2
  <2>. QED  BY <2>1, <2>2, <2>3, <1>0
<1>5. \A k \in 1..2 : index' > k => ~StartsEscape(input, index' - k)
  <2>1. CASE width = 1
    <3>1. ~StartsEscape(input, index)  BY <2>1
    <3>2. index > 1 => ~StartsEscape(input, index - 1)  BY <1>0 DEF ReadSoFar
    <3>3. index' - 1 = index /\ index' - 2 = index - 1  BY <1>0, <2>1
    <3>4. ~StartsEscape(input, index' - 1)  BY <3>1, <3>3
    <3>5. index' > 2 => ~StartsEscape(input, index' - 2)  BY <3>2, <3>3, <1>0, <2>1
    <3>. QED  BY <3>4, <3>5
  <2>2. CASE width = 3
    <3>1. index' - 1 = index + 2 /\ index' - 2 = index + 1  BY <1>0, <2>2
    <3>2. ~StartsEscape(input, index + 1) /\ ~StartsEscape(input, index + 2)
      BY <1>3, <2>2
    <3>3. ~StartsEscape(input, index' - 1) /\ ~StartsEscape(input, index' - 2)
      BY <3>1, <3>2
    <3>. QED  BY <3>3
  <2>. QED  BY <2>1, <2>2
<1>6. index \in Kept(input)
  <2>1. ~\E k \in 1..2 : index > k /\ StartsEscape(input, index - k)
    BY DEF ReadSoFar
  <2>. QED  BY <2>1 DEF Kept
<1>7. ASSUME NEW k \in 1..(width - 1)
      PROVE  index + k \notin Kept(input)
  <2>1. k \in 1..2 /\ StartsEscape(input, index)  BY <1>7
  <2>2. index + k > k /\ (index + k) - k = index  BY <1>0, <2>1
  <2>3. \E j \in 1..2 : index + k > j /\ StartsEscape(input, (index + k) - j)
    BY <2>1, <2>2
  <2>. QED  BY <2>3 DEF Kept
<1>8. ASSUME NEW i \in 1..(index' - 1)
      PROVE  i \in Kept(input) <=> \E n \in 1..Len(from') : from'[n] = i
  <2>0. (\E n \in 1..Len(from') : from'[n] = i)
          <=> (\E n \in 1..Len(from) : from[n] = i) \/ i = index
    BY <1>0, <1>1
  <2>1. CASE i < index
    <3>1. i \in 1..(index - 1)  BY <2>1, <1>0
    <3>2. i \in Kept(input) <=> \E n \in 1..Len(from) : from[n] = i
      BY <3>1 DEF ReadSoFar
    <3>3. i # index  BY <2>1, <1>0
    <3>. QED  BY <2>0, <3>2, <3>3
  <2>2. CASE i = index  BY <2>0, <2>2, <1>6
  <2>3. CASE i > index
    <3>1. i - index \in 1..(width - 1) /\ index + (i - index) = i  BY <2>3, <1>0
    <3>2. i \notin Kept(input)
      <4>1. index + (i - index) \notin Kept(input)  BY <3>1, <1>7
      <4>. QED  BY <4>1, <3>1
    <3>3. \A n \in 1..Len(from) : from[n] < index  BY <1>0 DEF Inv, FromInv
    <3>4. (~\E n \in 1..Len(from) : from[n] = i) /\ i # index
      BY <3>3, <2>3, <1>0
    <3>. QED  BY <2>0, <3>2, <3>4
  <2>. QED  BY <2>1, <2>2, <2>3, <1>0
<1>9. \A n \in 1..Len(from') : decoded'[n] = Meaning(input, from'[n])
  <2>. TAKE n \in 1..Len(from')
  <2>1. CASE n \in 1..Len(from)  BY <2>1, <1>1, <1>2 DEF ReadSoFar
  <2>2. CASE n = Len(from) + 1  BY <2>2, <1>1, <1>2
  <2>. QED  BY <2>1, <2>2, <1>0, <1>1
<1>10. Len(input') <= MAX_POLICY_PATH_LEN  BY <1>0 DEF ReadSoFar
<1>. QED  BY <1>0, <1>4, <1>5, <1>8, <1>9, <1>10 DEF ReadSoFar

\* Cutting the path at the query begins the reading, or refuses what the
\* reference refuses.
LEMMA SplitMatches == ASSUME Inv, Split PROVE RefInv'
<1>. DEFINE raw_path == SubSeq(given, 1, index - 1)
<1>1. raw_path \in Seq(Byte) /\ Len(raw_path) \in Nat /\ input' = raw_path /\ index' = 1
      /\ from' = <<>>
  BY DEF Inv, TypeOK, SplitInv, Split
<1>. HIDE DEF raw_path
<1>2. CASE raw_path = <<>>
  <2>1. pc' = "ok" /\ input' = <<>>  BY <1>2, <1>1 DEF Split, raw_path
  <2>. QED  BY <2>1 DEF RefInv, ReadSoFar, MatchesReference
<1>3. CASE raw_path # <<>>
  <2>1. pc' = IF raw_path[1] # SLASH \/ Len(raw_path) > MAX_POLICY_PATH_LEN
                THEN "invalid" ELSE "decode"
    BY <1>3 DEF Split, raw_path
  <2>2. MatchesReference'
    BY <2>1, <1>1, LimitAssumption DEF MatchesReference, Acceptable
  <2>3. ReadSoFar'
    BY <2>1, <1>1, LimitAssumption DEF ReadSoFar
  <2>. QED  BY <2>2, <2>3 DEF RefInv
<1>. QED  BY <1>2, <1>3

\* The loop refuses only what is not well formed.
LEMMA InvalidMatches ==
    ASSUME Inv, pc = "decode", index \in 1..Len(input), InvalidPath,
           ~WellFormedAt(input, index)
    PROVE  RefInv'
<1>1. ~Acceptable(input)  BY DEF Acceptable
<1>. QED  BY <1>1 DEF InvalidPath, RefInv, ReadSoFar, MatchesReference

\* An iteration over an escape agrees with the reference.
LEMMA EscapeMatches == ASSUME Inv, RefInv, Escape PROVE RefInv'
<1>1. pc = "decode" /\ index \in 1..Len(input) /\ input[index] = PERCENT
  BY DEF Inv, TypeOK, Escape
<1>2. CASE ~WellFormedAt(input, index)
  BY <1>1, <1>2, EscapeAgrees, InvalidMatches DEF Escape
<1>3. CASE WellFormedAt(input, index)
  <2>1. Push(Meaning(input, index), 3)  BY <1>1, <1>3, EscapeAgrees DEF Escape
  <2>2. StartsEscape(input, index)  BY <1>1 DEF StartsEscape
  <2>3. index + 2 <= Len(input) /\ IsHex(input[index + 1]) /\ IsHex(input[index + 2])
    BY <1>3, <2>2 DEF WellFormedAt
  <2>4. index + 3 <= Len(input) + 1  BY <2>3, <1>1
  <2>5. \A k \in 1..(3 - 1) : IsHex(input[index + k])  BY <2>3
  <2>6. ReadSoFar'
    BY <1>1, <1>3, <2>1, <2>2, <2>4, <2>5, PushReads DEF RefInv
  <2>. QED  BY <2>1, <2>6, <1>1 DEF Push, RefInv, MatchesReference
<1>. QED  BY <1>2, <1>3

\* An iteration over a literal byte agrees with the reference.
LEMMA LiteralMatches == ASSUME Inv, RefInv, Literal PROVE RefInv'
<1>1. pc = "decode" /\ index \in 1..Len(input) /\ input[index] # PERCENT
  BY DEF Inv, TypeOK, Literal
<1>2. CASE ~WellFormedAt(input, index)
  BY <1>1, <1>2, LiteralAgrees, InvalidMatches DEF Literal
<1>3. CASE WellFormedAt(input, index)
  <2>1. Push(Meaning(input, index), 1)  BY <1>1, <1>3, LiteralAgrees DEF Literal
  <2>2. ~StartsEscape(input, index)  BY <1>1 DEF StartsEscape
  <2>3. index + 1 <= Len(input) + 1 /\ \A k \in 1..(1 - 1) : IsHex(input[index + k])
    BY <1>1
  <2>4. ReadSoFar'
    BY <1>1, <1>3, <2>1, <2>2, <2>3, PushReads DEF RefInv
  <2>. QED  BY <2>1, <2>4, <1>1 DEF Push, RefInv, MatchesReference
<1>. QED  BY <1>2, <1>3

\* The tests after the loop are the rest of the reference's.
LEMMA FinishMatches == ASSUME Inv, RefInv, Finish PROVE RefInv'
<1>1. /\ pc = "decode" /\ index = Len(input) + 1 /\ Len(input) \in Nat
      /\ UNCHANGED <<input, decoded>> /\ pc' \in {"ok", "invalid"}
      /\ decoded \in Seq(Byte) /\ Len(decoded) \in Nat
      /\ input[1] = SLASH
  BY DEF Inv, TypeOK, DecodeInv, Finish
<1>2. decoded = Decoding(input) /\ Len(decoded) <= Len(input)
  BY <1>1, DecodingDone DEF RefInv
<1>3. /\ Len(input) <= MAX_POLICY_PATH_LEN
      /\ \A i \in 1..Len(input) : WellFormedAt(input, i)
  BY <1>1 DEF RefInv, ReadSoFar
<1>4. ~(Len(decoded) > MAX_POLICY_PATH_LEN)  BY <1>1, <1>2, <1>3, LimitAssumption
<1>5. pc' = "ok" <=> Utf8(decoded) /\ GoodSegments(decoded)
  BY <1>1, <1>4, SegmentsAgree DEF Finish
<1>6. pc' = "ok" <=> Acceptable(input)
  BY <1>1, <1>2, <1>3, <1>5 DEF Acceptable
<1>. QED  BY <1>1, <1>2, <1>6 DEF RefInv, ReadSoFar, MatchesReference

\* normalize_policy_path accepts exactly the paths the reference accepts, of any
\* bytes and any length, and returns what the reference gives: the loop neither
\* skips a byte, nor decodes one twice, nor refuses a path that is unambiguous.
THEOREM PathMatches == Spec => []MatchesReference
<1>1. Init => RefInv
  BY DEF Init, Start, RefInv, ReadSoFar, MatchesReference
<1>2. ASSUME Inv, RefInv, [Next]_vars PROVE RefInv'
  <2>1. CASE Scan
    BY <2>1 DEF Scan, RefInv, ReadSoFar, MatchesReference
  <2>2. CASE Again
    BY <2>2 DEF Again, RefInv, ReadSoFar, MatchesReference
  <2>3. CASE UNCHANGED vars
    BY <2>3, <1>2 DEF vars, RefInv, ReadSoFar, MatchesReference
  <2>. QED
    BY <1>2, <2>1, <2>2, <2>3, SplitMatches, EscapeMatches, LiteralMatches, FinishMatches
    DEF Next
<1>. QED  BY Invariant, <1>1, <1>2, PTL DEF Spec, RefInv
===============================================================================
