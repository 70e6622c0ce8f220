---------------------------- MODULE MCConfiguration ----------------------------
(* Every transport with every flag, every pair of limits with every mode,    *)
(* every deployment identity, and every CORS policy, in an environment that  *)
(* is otherwise valid.                                                       *)
EXTENDS Configuration

Name(labels) == [labels |-> labels, lower |-> labels, address |-> None]

IPv4(labels, address) == [labels |-> labels, lower |-> labels, address |-> Some(address)]

\* An address of 16 bytes that are zero but for the last ones.
IPv6(written, last) ==
    [labels |-> <<written>>, lower |-> <<written>>,
     address |-> Some([i \in 1..(16 - Len(last)) |-> 0] \o last)]

Https == [parses |-> TRUE, userinfo |-> FALSE, scheme |-> "https",
          host |-> Name(<<"broker", "example">>)]

Hosts ==
    { Name(<<"broker", "spin", "internal">>), Name(<<"", "spin", "internal">>),
      Name(<<"spin", "internal">>), Name(<<"a", "broker", "spin", "internal">>),
      Name(<<"broker", "spin", "internal", "example">>), Name(<<"broker", "example">>),
      [Name(<<"broker", "spin", "internal">>) EXCEPT !.labels = <<"broker", "Spin", "Internal">>],
      Name(<<"localhost">>), Name(<<"localhost", "example">>), Name(<<"localhost", "">>),
      [Name(<<"localhost">>) EXCEPT !.labels = <<"LocalHost">>],
      IPv4(<<"127", "0", "0", "1">>, <<127, 0, 0, 1>>),
      IPv4(<<"127", "0", "0", "2">>, <<127, 0, 0, 2>>),
      IPv4(<<"127", "255", "255", "255">>, <<127, 255, 255, 255>>),
      IPv4(<<"128", "0", "0", "1">>, <<128, 0, 0, 1>>),
      IPv4(<<"10", "0", "0", "1">>, <<10, 0, 0, 1>>),
      Name(<<"127", "1">>), Name(<<"127", "0", "0", "01">>), Name(<<"127", "example">>),
      IPv6("[::1]", <<1>>), IPv6("[::]", <<0>>), IPv6("[::2]", <<2>>),
      IPv6("[::ffff:127.0.0.1]", <<255, 255, 127, 0, 0, 1>>) }

Urls == [parses : BOOLEAN, userinfo : BOOLEAN, scheme : {"http", "https", "other"}, host : Hosts]

TextOf(kind, len, json, id) == [kind |-> kind, len |-> len, json |-> json, id |-> id]

Service == TextOf("token", 6, 8, 1)

Audiences(n, len) == [i \in 1..n |-> TextOf("ascii", len, len + 2, 10 + i)]

\* Audiences of quotation marks, which JSON escapes.
Escaped(n, len) == [i \in 1..n |-> TextOf("ascii", len, 2 * len + 2, 10 + i)]

GoodAuthn == [allow_insecure_loopback |-> <<>>, broker_url |-> <<Https>>, timeout_ms |-> <<>>,
              mode |-> <<>>, max_in_flight |-> <<>>, service_id |-> <<Service>>,
              audiences |-> <<Audiences(1, 3)>>]

GoodCors == [origins |-> <<<<"site">>>>, methods |-> <<>>, headers |-> <<>>,
             allow_credentials |-> <<>>]

OnceOrTwice(values) == {<<>>} \cup {<<v>> : v \in values} \cup {<<v, v>> : v \in values}

AuthnEnvs ==
    {[GoodAuthn EXCEPT !.allow_insecure_loopback = f, !.broker_url = u] :
        f \in OnceOrTwice({"true", "false", "yes"}),
        u \in {<<>>, <<Https, Https>>} \cup {<<v>> : v \in Urls}}
    \cup {[GoodAuthn EXCEPT !.timeout_ms = t, !.mode = m, !.max_in_flight = n] :
        t \in OnceOrTwice({Junk, 0, 1, MAX_TIMEOUT_MS, MAX_TIMEOUT_MS + 1}),
        m \in OnceOrTwice({"required", "optional", "off"}),
        n \in OnceOrTwice({Junk, 0, 1, MAX_MAX_IN_FLIGHT, MAX_MAX_IN_FLIGHT + 1})}
    \cup {[GoodAuthn EXCEPT !.service_id = s, !.audiences = a] :
        s \in OnceOrTwice({Service, TextOf("text", 11, 13, 2), TextOf("token", 129, 131, 3)}),
        a \in OnceOrTwice({ Audiences(1, 0), Audiences(1, 3), Audiences(16, 256), Audiences(1, 257),
                            Audiences(17, 3), Escaped(11, 256), Escaped(12, 256), Escaped(16, 256),
                            [i \in 1..16 |-> Escaped(1, 256)[1]],
                            [i \in 1..17 |-> Audiences(1, 3)[1]], <<TextOf("text", 3, 5, 4)>> })}

CorsEnvs ==
    [origins : OnceOrTwice({<<"">>, <<"site">>, <<"site", "">>, <<"*">>,
                            <<"*", "site">>, <<"null">>, <<"site", BadOrigin>>}),
     methods : OnceOrTwice({<<"">>, <<"GET">>, <<"GET", BadToken>>}),
     headers : OnceOrTwice({<<"">>, <<"accept">>, <<BadToken>>}),
     allow_credentials : OnceOrTwice({"true", "false", "1"})]

Envs == [authn : AuthnEnvs, cors : {GoodCors}] \cup [authn : {GoodAuthn}, cors : CorsEnvs]
================================================================================
