------------------------------ MODULE PolicyPath ------------------------------
(***************************************************************************)
(* normalize_policy_path of crates/policy-core, one step per byte of the   *)
(* split at the query and one per iteration of the decoding loop.  A path  *)
(* is the sequence of its bytes.  As the fuzz target does, an accepted     *)
(* path is normalised a second time.                                       *)
(***************************************************************************)
EXTENDS Integers, Sequences

CONSTANTS
    Path,                   \* the values of path_with_query
    MAX_POLICY_PATH_LEN

Byte == 0..255

ASSUME PathAssumption == Path \subseteq Seq(Byte)
ASSUME LimitAssumption == MAX_POLICY_PATH_LEN \in Nat \ {0}

HASH == 35
PERCENT == 37
DOT == 46
SLASH == 47
QUESTION == 63
BACKSLASH == 92

IsControl(b) == b < 32 \/ b = 127

VARIABLES
    given,      \* path_with_query
    input,      \* raw_path
    pc,         \* split, decode, ok, invalid
    index,
    decoded,
    from,       \* history: the index each byte of decoded came from
    pass        \* which of the two calls this is

vars == <<given, input, pc, index, decoded, from, pass>>

Start(path) ==
    /\ given = path /\ input = <<>>
    /\ pc = "split"
    /\ index = 1
    /\ decoded = <<>> /\ from = <<>>

Init == pass = 1 /\ \E path \in Path : Start(path)
-------------------------------------------------------------------------------
InvalidPath ==
    /\ pc' = "invalid"
    /\ UNCHANGED <<given, input, index, decoded, from, pass>>

\* split_once('?') looks for the first question mark.
Scan ==
    /\ pc = "split"
    /\ index <= Len(given) /\ given[index] # QUESTION
    /\ index' = index + 1
    /\ UNCHANGED <<given, input, pc, decoded, from, pass>>

\* The raw path, and the tests before the loop.
Split ==
    /\ pc = "split"
    /\ index <= Len(given) => given[index] = QUESTION
    /\ LET raw_path == SubSeq(given, 1, index - 1)
       IN  /\ input' = raw_path
           /\ IF raw_path = <<>>
                THEN pc' = "ok" /\ decoded' = <<SLASH>>
                ELSE /\ pc' = IF raw_path[1] # SLASH \/ Len(raw_path) > MAX_POLICY_PATH_LEN
                                THEN "invalid" ELSE "decode"
                     /\ UNCHANGED decoded
    /\ index' = 1
    /\ UNCHANGED <<given, from, pass>>

\* The value of a hexadecimal digit, or -1.
hex_value_decimal_only(b) == IF b \in 48..57 THEN b - 48 ELSE -1

hex_value(b) ==
    CASE b \in 48..57 -> b - 48
      [] b \in 97..102 -> b - 97 + 10
      [] b \in 65..70 -> b - 65 + 10
      [] OTHER -> -1

Digit(i) == IF i <= Len(input) THEN hex_value(input[i]) ELSE -1

DecodedByte == Digit(index + 1) * 16 + Digit(index + 2)

Push(byte, width) ==
    /\ decoded' = Append(decoded, byte)
    /\ from' = Append(from, index)
    /\ index' = index + width
    /\ UNCHANGED <<given, input, pc, pass>>

RefusedAllowsSlash(b) ==
    b \in {PERCENT, BACKSLASH, QUESTION, HASH} \/ IsControl(b)

RefusedAllowsPercent(b) ==
    b \in {SLASH, BACKSLASH, QUESTION, HASH} \/ IsControl(b)

\* What a percent escape may not stand for.
Refused(b) == b \in {PERCENT, SLASH, BACKSLASH, QUESTION, HASH} \/ IsControl(b)

Escape ==
    /\ pc = "decode" /\ index <= Len(input) /\ input[index] = PERCENT
    /\ IF Digit(index + 1) < 0 \/ Digit(index + 2) < 0 \/ Refused(DecodedByte)
         THEN InvalidPath
         ELSE Push(DecodedByte, 3)

Literal ==
    /\ pc = "decode" /\ index <= Len(input) /\ input[index] # PERCENT
    /\ IF input[index] \in {BACKSLASH, HASH} \/ IsControl(input[index])
         THEN InvalidPath
         ELSE Push(input[index], 1)

\* String::from_utf8: every byte is ASCII, leads a sequence of continuation
\* bytes (the second one in the range its lead allows), or continues one.
Width(b) == CASE b < 128 -> 1
              [] b \in 194..223 -> 2
              [] b \in 224..239 -> 3
              [] b \in 240..244 -> 4
              [] OTHER -> 0

Second(b) == CASE b = 224 -> 160..191
               [] b = 237 -> 128..159
               [] b = 240 -> 144..191
               [] b = 244 -> 128..143
               [] OTHER -> 128..191

Utf8(s) == \A i \in 1..Len(s) :
    \/ s[i] < 128
    \/ /\ Width(s[i]) > 1 /\ i + Width(s[i]) - 1 <= Len(s)
       /\ s[i + 1] \in Second(s[i])
       /\ \A k \in 2..(Width(s[i]) - 1) : s[i + k] \in 128..191
    \/ s[i] \in 128..191 /\ \E k \in 1..3 : k < i /\ Width(s[i - k]) > k

EmptySegment(s) == \E i \in 1..(Len(s) - 1) : s[i] = SLASH /\ s[i + 1] = SLASH

\* A segment that is "." or "..".
DotSegment(s) == \E i \in 1..(Len(s) - 1), n \in 1..2 :
    /\ s[i] = SLASH
    /\ i + n <= Len(s) /\ \A k \in 1..n : s[i + k] = DOT
    /\ i + n = Len(s) \/ s[i + n + 1] = SLASH

FinishBeforeDecoding ==
    /\ pc = "decode" /\ index > Len(input)
    /\ pc' = IF ~Utf8(decoded) \/ EmptySegment(input) \/ DotSegment(input)
               THEN "invalid" ELSE "ok"
    /\ UNCHANGED <<given, input, index, decoded, from, pass>>

Finish ==
    /\ pc = "decode" /\ index > Len(input)
    /\ pc' = IF \/ ~Utf8(decoded)
                \/ Len(decoded) > MAX_POLICY_PATH_LEN
                \/ EmptySegment(decoded) \/ DotSegment(decoded)
               THEN "invalid" ELSE "ok"
    /\ UNCHANGED <<given, input, index, decoded, from, pass>>

\* fuzz_targets/path.rs normalises the result again.
Again ==
    /\ pc = "ok" /\ pass = 1
    /\ pass' = 2
    /\ given' = decoded /\ input' = <<>>
    /\ pc' = "split"
    /\ index' = 1
    /\ decoded' = <<>> /\ from' = <<>>

Next == Scan \/ Split \/ Escape \/ Literal \/ Finish \/ Again

Spec == Init /\ [][Next]_vars
-------------------------------------------------------------------------------
(* Properties *)

\* An accepted path is unambiguous, whatever was escaped in it: it begins with a
\* slash, has no empty and no dot segment, and holds no byte that a later decoder
\* or splitter would treat specially.
NormalForm ==
    pc = "ok" =>
        /\ decoded[1] = SLASH
        /\ \A i \in 1..Len(decoded) :
             decoded[i] \notin {PERCENT, QUESTION, BACKSLASH, HASH} /\ ~IsControl(decoded[i])
        /\ ~EmptySegment(decoded) /\ ~DotSegment(decoded)

\* Decoding neither makes nor hides a segment boundary: the slashes of the
\* result are the slashes of the raw path, in their order.
SegmentsKept ==
    pc \in {"decode", "ok"} /\ input # <<>> =>
        /\ \A i \in 1..Len(from) : decoded[i] = SLASH <=> input[from[i]] = SLASH
        /\ \A i, j \in 1..Len(from) : i < j => from[i] < from[j]
        /\ \A k \in 1..Len(input) :
             k < index /\ input[k] = SLASH => \E i \in 1..Len(from) : from[i] = k

\* fuzz_targets/path.rs: a normalised path is accepted and normalises to itself,
\* so it does not matter how often the path is normalised on its way.
Idempotent == pass = 2 => pc # "invalid" /\ (pc = "ok" => decoded = given)
===============================================================================
