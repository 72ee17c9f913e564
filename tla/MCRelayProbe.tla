---------------------------- MODULE MCRelayProbe ----------------------------
(* Instances of RelayProbe for TLC. *)
EXTENDS RelayProbe

CONSTANTS p1, p2

Name(labels) == [labels |-> labels, ip |-> "none"]
Ip(range) == [labels |-> <<>>, ip |-> range]

Dns == Name(<<"x", "com">>)
Onion == Name(<<"hash56", "onion">>)

\* Names and addresses at the edges of the rules, accepted and not.
Hosts ==
    {Ip("public"), Ip("reserved"), Name(<<"localhost">>), Name(<<"localhost", "localdomain">>),
     Name(<<"onion">>), Name(<<"x", "digits">>), Name(<<"bad", "com">>),
     Name(<<"hash16", "onion">>), Name(<<"hash52", "onion">>),
     Name(<<"x", "hash56", "onion">>), Name(<<"bad", "hash56", "onion">>),
     Name(<<"hash52", "loki">>), Name(<<"x", "hash52", "loki">>), Name(<<"x", "i2p">>),
     Name(<<"b32", "i2p">>), Name(<<"hash52", "b32", "i2p">>), Name(<<"x", "b32", "i2p">>)}

MCPathSegments == {"a", Words}
\* An encoded letter, slash, and dot, and a slash between letters.
MCDecoded ==
    "%61" :> <<"a">> @@ "%2F" :> <<"", "">> @@ "%2E" :> <<".">> @@ "a%2Fa" :> <<"a", "a">>

MCProxied == {"tor", "i2p"}

Url(scheme, host, form, port, path, tail) ==
    [scheme |-> scheme, host |-> host, form |-> form, port |-> port, path |-> path,
     tail |-> tail]

\* The forms of a host, default, explicit and invalid ports under both
\* schemes, and the paths that normalization has to handle.
MCRawUrls ==
    {Url("wss", Dns, f, NoPort, <<>>, FALSE) : f \in {"upper", "escaped", "idn", "dotted"}}
    \cup {Url("wss", Ip("public"), f, NoPort, <<>>, FALSE) : f \in {"upper", "long"}}
    \cup {Url(s, h, "plain", t, <<>>, FALSE) : s \in {"ws", "wss"}, h \in {Dns, Onion},
                                               t \in {NoPort, 0, 80, 443, 65535, 65536}}
    \cup {Url("wss", Dns, "plain", NoPort, path, tail) :
             path \in {<<"a">>, <<"a", "">>, <<"", "a">>, <<"a", "", "..">>, <<"a", ".">>,
                       <<"..", "a">>, <<"a", "..">>, <<"a", "-">>, <<"a", "a">>,
                       <<"a", "a", "a">>, <<Words>>, <<"%61">>, <<"%61", "">>, <<"%61", "..", "a">>,
                       <<"%2F">>, <<"%2E", "a">>, <<"a%2Fa">>},
             tail \in BOOLEAN}
    \cup {Url("wss", h, "plain", NoPort, <<>>, FALSE) : h \in Hosts}
    \cup {Url("http", Dns, "plain", NoPort, <<>>, FALSE)}

MCDocuments ==
    {[status |-> 200, json |-> TRUE, chunks |-> c, max_size |-> 2, dict |-> TRUE] :
        c \in {<<1, 1>>, <<2, 1>>}}

Symmetric == Permutations(Probe)
=============================================================================
