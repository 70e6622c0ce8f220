----------------------------- MODULE MCIdentityPath -----------------------------
(* Identities with one field at or beyond its bound, identities whose encoded  *)
(* size is around the limit, and deployments that agree, overlap or differ;    *)
(* and documents of another ingress in both forms that serde_json reads, with  *)
(* every combination of present and absent parts, lists out of order and       *)
(* repeated, and sizes around the limit.                                       *)
EXTENDS IdentityPath

TextOf(kind, len, id) == [kind |-> kind, len |-> len, json |-> len + 2, id |-> id]

\* Every character needs an escape in JSON.
Quoted(kind, len, id) == [kind |-> kind, len |-> len, json |-> 2 * len + 2, id |-> id]

Short == TextOf("token", 6, 1)
Url == TextOf("ascii", 22, 2)
Phrase == TextOf("text", 9, 3)
Empty == TextOf("text", 0, 4)
Control == TextOf("bad", 5, 5)

Tokens(n, len) == [i \in 1..n |-> TextOf("token", len, 100 + i)]

Texts(maximum) == {Empty, Control, Phrase, TextOf("text", maximum, 6),
                   TextOf("text", maximum + 1, 7), Quoted("text", maximum, 8)}

TokenLists == { <<>>, Tokens(2, 4), <<Short, Short>>, <<TextOf("token", 9, 9), Short, Short>>,
                Tokens(64, 4), Tokens(65, 4), [i \in 1..65 |-> Short], <<Short, Phrase>>,
                Tokens(1, 128), Tokens(1, 129), Tokens(16, 127), Tokens(16, 128) }

Plain == [version |-> 1, issuer |-> Url, subject |-> Short, tenant_id |-> None,
          roles |-> <<>>, scopes |-> <<>>, acr |-> None, amr |-> <<>>, actor |-> None,
          auth_time |-> None, expires_at |-> None, session_id |-> None,
          decision_id |-> Phrase, policy_revision |-> Short]

Complete == [Plain EXCEPT !.tenant_id = <<Short>>, !.roles = <<Short, Short>>,
                          !.scopes = <<TextOf("token", 5, 11), TextOf("token", 4, 10)>>,
                          !.acr = <<Url>>, !.amr = <<Short>>,
                          !.actor = <<[issuer |-> Url, subject |-> Phrase]>>,
                          !.auth_time = <<0>>, !.expires_at = <<2>>, !.session_id = <<Phrase>>]

Options(values) == {<<v>> : v \in values}

Varied(base) ==
    {[base EXCEPT !.version = 2]}
    \cup {[base EXCEPT !.issuer = t] : t \in Texts(MAX_IDENTITY_VALUE_LEN)}
    \cup {[base EXCEPT !.subject = t] : t \in Texts(MAX_IDENTITY_VALUE_LEN)}
    \cup {[base EXCEPT !.tenant_id = o] : o \in Options(Texts(MAX_IDENTITY_VALUE_LEN))}
    \cup {[base EXCEPT !.roles = l] : l \in TokenLists}
    \cup {[base EXCEPT !.scopes = l] : l \in TokenLists}
    \cup {[base EXCEPT !.amr = l] : l \in TokenLists}
    \cup {[base EXCEPT !.acr = o] : o \in Options(Texts(MAX_CONTEXT_VALUE_LEN))}
    \cup {[base EXCEPT !.session_id = o] : o \in Options(Texts(MAX_SESSION_VALUE_LEN))}
    \cup {[base EXCEPT !.decision_id = t] : t \in Texts(MAX_CONTEXT_VALUE_LEN)}
    \cup {[base EXCEPT !.policy_revision = t] : t \in Texts(MAX_CONTEXT_VALUE_LEN)}
    \cup {[base EXCEPT !.actor = <<[issuer |-> i, subject |-> s]>>] :
            i \in {Url, Control}, s \in {Short, Empty}}
    \cup {[base EXCEPT !.auth_time = a, !.expires_at = e] :
            a \in {None, <<0>>, <<1>>}, e \in {None, <<0>>, <<1>>, <<2>>}}

\* Sessions of every length in between put the JSON document on both sides of
\* its limit of 6144 bytes.
Large == {[Complete EXCEPT !.roles = Tokens(41, 127), !.session_id = <<TextOf("text", n, 12)>>] :
            n \in {1, 512} \cup 350..385}

Successes == Varied(Plain) \cup Varied(Complete) \cup Large

Orders == [service_id |-> Short, audiences |-> <<Url>>]

Deployments == { Orders,
    [service_id |-> Short, audiences |-> <<TextOf("ascii", 20, 13), Url, Url>>],
    [service_id |-> Short, audiences |-> <<TextOf("ascii", 20, 13)>>],
    [service_id |-> TextOf("token", 6, 14), audiences |-> <<Url>>],
    [service_id |-> Phrase, audiences |-> <<Url>>],
    [service_id |-> Short, audiences |-> <<>>],
    [service_id |-> Short, audiences |-> <<Phrase>>],
    [service_id |-> Short, audiences |-> [i \in 1..17 |-> Url]],
    [service_id |-> Short, audiences |-> [i \in 1..16 |-> Quoted("ascii", 256, 20 + i)]] }
--------------------------------------------------------------------------------
Other == TextOf("token", 9, 9)
Long == TextOf("ascii", 257, 15)

Lists == {<<>>, <<Short>>, <<Other, Short>>, <<Other, Short, Other>>, <<Short, Phrase>>}

Bare == [field \in PrincipalFields |-> Plain[field]]

Principals ==
    {[Bare EXCEPT !.roles = r, !.scopes = s, !.auth_time = a, !.expires_at = e] :
        r \in Lists, s \in {<<>>, <<Other, Short, Short>>},
        a \in {None, <<7>>}, e \in {None, <<1>>, <<7>>, <<10>>}}
    \cup {[Bare EXCEPT !.tenant_id = <<Short>>, !.acr = <<Phrase>>, !.amr = <<Other, Short>>,
                       !.actor = <<[issuer |-> Short, subject |-> s]>>, !.session_id = <<Other>>] :
             s \in {Short, Empty}}

WireDoc(state, principal, decision_id, policy_revision, audiences) ==
    [version |-> 1, state |-> state, service_id |-> Short, audiences |-> audiences,
     principal |-> principal, decision_id |-> decision_id, policy_revision |-> policy_revision]

Wires ==
    {WireDoc("authenticated", <<p>>, <<Short>>, <<Other>>, <<Url, Short, Url>>) : p \in Principals}
    \cup {WireDoc(s, p, d, r, l) : s \in {"anonymous", "authenticated"}, p \in {None, <<Bare>>},
            d \in {None, <<Short>>, <<Long>>}, r \in {None, <<Other>>},
            l \in {<<>>, <<Url>>, <<Url, Short>>, <<Phrase>>, <<Long>>}}
    \cup {[WireDoc("anonymous", None, None, None, <<Url>>) EXCEPT !.version = 2]}

\* Around the limit of 6144 bytes of JSON in either form.
LargeWires ==
    {WireDoc("authenticated",
           <<[Bare EXCEPT !.roles = Tokens(44, 127), !.session_id = <<TextOf("text", n, 12)>>]>>,
           <<Short>>, <<Other>>, <<Url>>) : n \in {1, 512} \cup 130..350}

ForeignValues ==
    {Header("object", b, w) : b \in {"canonical", "other"}, w \in Wires}
    \cup {Header("object", "canonical", w) : w \in LargeWires}
    \cup {Header("array", "canonical", w) : w \in Wires \cup LargeWires}
================================================================================
