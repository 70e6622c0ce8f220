----------------------------- MODULE MCPolicyPath -----------------------------
(***************************************************************************)
(* Paths put together from literal bytes, escapes and broken escapes.      *)
(***************************************************************************)
EXTENDS PathReference, SequencesExt

Escaped(high, low) == <<PERCENT, high, low>>

Common == { <<SLASH>>, <<DOT>>, <<97>>, Escaped(50, 101) }          \* / . a %2e

Items == Common \cup
    { <<BACKSLASH>>, <<HASH>>, <<QUESTION>>, <<7>>, <<195, 169>>,   \* \ # ? BEL e-acute
      Escaped(50, 69), Escaped(50, 102), Escaped(50, 53),           \* %2E %2f %25
      Escaped(53, 99), Escaped(54, 49), Escaped(51, 70),            \* %5c %61 %3F
      Escaped(48, 48), Escaped(99, 51), Escaped(97, 57),            \* %00 %c3 %a9
      Escaped(50, 103), <<PERCENT>>, <<PERCENT, 50>> }              \* %2g % %2

Concatenated(items, n) == {FlattenSeq(s) : s \in UNION {[1..m -> items] : m \in 0..n}}

Paths == {<<SLASH>> \o p : p \in Concatenated(Items, 3) \cup Concatenated(Common, 5)}
         \cup Concatenated(Items, 2)
===============================================================================
