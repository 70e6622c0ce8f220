----------------------------- MODULE PathReference -----------------------------
(***************************************************************************)
(* What normalize_policy_path accepts and returns, said without a loop, to *)
(* compare PolicyPath with.                                                *)
(***************************************************************************)
EXTENDS PolicyPath, FiniteSets

StartsEscape(s, i) == s[i] = PERCENT

IsHex(b) == b \in 48..57 \cup 65..70 \cup 97..102

Nibble(b) == IF b <= 57 THEN b - 48 ELSE (b - 55) % 32

\* What the byte at i of s, or the escape that starts there, stands for.
Meaning(s, i) ==
    IF StartsEscape(s, i) THEN 16 * Nibble(s[i + 1]) + Nibble(s[i + 2]) ELSE s[i]

\* A percent sign starts an escape of a byte that may be escaped, and every other
\* byte may stand literally.
WellFormedAt(s, i) ==
    IF StartsEscape(s, i)
      THEN /\ i + 2 <= Len(s) /\ IsHex(s[i + 1]) /\ IsHex(s[i + 2])
           /\ Meaning(s, i) \notin {35, 37, 47, 63, 92, 127} \cup (0..31)
      ELSE s[i] \notin {35, 92, 127} \cup (0..31)

\* The places that are not digits of an escape.
Kept(s) == {i \in 1..Len(s) : ~\E k \in 1..2 : i > k /\ StartsEscape(s, i - k)}

\* What the kept places stand for, in their order.
Decoding(s) ==
    LET kept == Kept(s)
        RankOf(i) == Cardinality({j \in kept : j <= i})
    IN  [n \in 1..Cardinality(kept) |-> Meaning(s, CHOOSE i \in kept : RankOf(i) = n)]

\* A segment is what lies between a slash and the next one, or the end.
IsSegment(s, slash, end) ==
    /\ slash < end
    /\ s[slash] = SLASH /\ (end = Len(s) + 1 \/ s[end] = SLASH)
    /\ \A i \in (slash + 1)..(end - 1) : s[i] # SLASH

GoodSegments(s) == \A slash \in 1..Len(s), end \in 1..(Len(s) + 1) :
    IsSegment(s, slash, end) =>
        /\ SubSeq(s, slash + 1, end - 1) \notin {<<DOT>>, <<DOT, DOT>>}
        /\ SubSeq(s, slash + 1, end - 1) = <<>> => end = Len(s) + 1

Acceptable(s) ==
    /\ s[1] = SLASH /\ Len(s) <= MAX_POLICY_PATH_LEN
    /\ \A i \in 1..Len(s) : WellFormedAt(s, i)
    /\ Utf8(Decoding(s)) /\ GoodSegments(Decoding(s))

\* The loop accepts exactly the unambiguous paths, segment by segment, and
\* decodes every escape of them once.
MatchesReference ==
    /\ pc = "ok" /\ input # <<>> => Acceptable(input) /\ decoded = Decoding(input)
    /\ pc = "invalid" => ~Acceptable(input)
================================================================================
