---------------------------- MODULE MCAuthnRuntime ----------------------------
(***************************************************************************)
(* Two requests compete for one slot, so that it must be given back to     *)
(* be used again; a body limit of two units with answers below, at and     *)
(* above it, some of them padded with blanks or followed by garbage;       *)
(* requests start at two different ticks of the clock.                     *)
(***************************************************************************)
EXTENDS AuthnRuntime

MCReply ==
    {[status |-> "200", size |-> p[3], object |-> p[1], blanks |-> p[2], body |-> "claims"] :
        p \in {<<1, 1, 1>>, <<2, 2, 2>>, <<1, 2, 2>>, <<1, 1, 2>>, <<1, 3, 3>>}}
    \cup {[status |-> "200", size |-> 1, object |-> 1, blanks |-> 1, body |-> b] :
        b \in {"unencodable", "junk"}}
    \cup {[status |-> s, size |-> 0, object |-> 0, blanks |-> 0, body |-> "junk"] :
        s \in {"401", "other", "bad"}}
=============================================================================
