------------------------------ MODULE MCBoundary ------------------------------
(***************************************************************************)
(* Three families of cases: every CORS request against every policy; every *)
(* credential, identifier and spoofed header against both modes and every  *)
(* broker answer; every terminal answer.                                   *)
(***************************************************************************)
EXTENDS Boundary, TLC

OneOrigin == [valid |-> TRUE, origins |-> {"site"}, methods |-> {"GET"},
              headers |-> {"content-type", "authorization"}, credentials |-> TRUE]

Policies ==
    { OneOrigin,
      [OneOrigin EXCEPT !.headers = {}],
      [OneOrigin EXCEPT !.origins = {"*"}, !.credentials = FALSE],
      [OneOrigin EXCEPT !.valid = FALSE] }

Fields(origin, method, headers, auth, rid, other) ==
    Only(RequestNames,
         "origin" :> origin @@ "access-control-request-method" :> method
         @@ "access-control-request-headers" :> headers @@ "authorization" :> auth
         @@ "x-request-id" :> rid @@ "x-wasi-auth-context" :> other
         @@ "x-wasi-auth-other" :> other)

Reply(f) == [status |-> 200, fields |-> Only(ResponseNames, f)]

Plain == Reply(<<>>)
Token == <<<<"secret">>>>

CorsCases ==
    [fields : {Fields(o, m, h, a, <<>>, <<>>) :
                 o \in {<<>>, <<<<"site">>>>, <<<<"evil">>>>, <<<<"site">>, <<"site">>>>, <<NotText>>},
                 m \in {<<>>, <<<<"GET">>>>, <<<<"PUT">>>>, <<<<BadToken>>>>, <<<<"GET">>, <<"GET">>>>},
                 h \in {<<>>, <<<<"content-type">>>>, <<<<"content-type", "x-evil">>>>, <<<<BadToken>>>>},
                 a \in {<<>>, Token}},
     method : {"GET", "OPTIONS", BadToken},
     cors : Policies, authn : {"Required", "unset"},
     broker : {"PassAuthenticated"}, terminal : {Plain}]

AuthnCases ==
    [fields : {Fields(o, <<>>, <<>>, a, i, x) :
                 o \in {<<>>, <<<<"site">>>>},
                 a \in {<<>>, Token, <<<<"a">>, <<"b">>>>, <<NotText>>},
                 i \in {<<>>, <<<<"mine">>>>, <<InvalidId>>, <<<<"mine">>, <<"mine">>>>, <<NotText>>},
                 x \in {<<>>, <<<<"spoofed">>>>}},
     method : {"GET"}, cors : {OneOrigin}, authn : {"Required", "Optional", "unset"},
     broker : {"PassAuthenticated", "InvalidCredentials", "Unavailable"},
     terminal : {Plain}]

TerminalCases ==
    [fields : {Fields(o, <<>>, <<>>, Token, <<<<"mine">>>>, <<>>) :
                 o \in {<<>>, <<<<"site">>>>}},
     method : {"GET", "OPTIONS"}, cors : Policies, authn : {"Optional"},
     broker : {"PassAuthenticated"},
     terminal : {HostError} \cup
        {Reply("vary" :> v @@ "x-request-id" :> s @@ "x-wasi-auth-other" :> s
               @@ "access-control-allow-origin" :> s @@ "referrer-policy" :> s) :
            v \in {<<>>, <<<<"accept">>>>, <<<<"accept", "origin">>, <<"accept">>>>,
                   <<<<"accept">>, <<"*">>>>, <<<<"accept">>, NotText>>,
                   <<<<"*">>, NotText>>, <<NotText, <<"*">>>>},
            s \in {<<>>, <<<<"terminal">>, <<"terminal">>>>}}]

Cases == CorsCases \cup AuthnCases \cup TerminalCases
===============================================================================
