------------------------------ MODULE MCAccess ------------------------------
(***************************************************************************)
(* Access on scenarios that each vary one thing: tokens and secrets, the   *)
(* settings and certificates of TLS, paths, or the headers of proxies.     *)
(***************************************************************************)
EXTENDS Access

MCStrings == STRING
MCVars == ("${SET}" :> "SET") @@ ("${UNSET}" :> "UNSET")
MCEscapes == ("%2e" :> ".") @@ ("%2f" :> "/") @@ ("%25" :> "%") @@ ("%00" :> "NUL")
MCUnprintable == {"NUL"}
MCAddresses == {"p1", "p2", "c1", "c2"}
MCNets == "p/24" :> {"p1", "p2"}
MCPorts == <<"9">> :> 9
MCExisting == {<<"k">>, <<"d">>}
MCSockets == <<<<"m">>, <<"d">>>>

Unset == "SET" :> <<"t">>
Secretive == Unset @@ ("DOCKER_PROXY_SECRET" :> <<"s">>)
Empty ==
    Unset @@ ("DOCKER_PROXY_SECRET" :> <<>>) @@ ("DOCKER_PROXY_PORT" :> <<"9">>)
          @@ ("DOCKER_SOCKET" :> <<"k">>) @@ ("DOCKER_PROXY_CONFIG" :> <<"c">>)

----------------------------------------------------------------------------
(* Files.                                                                   *)
Auth(type, secret, tokens) ==
    [Defaults EXCEPT !.auth = [type |-> type, secret |-> secret, tokens |-> tokens, mtls |-> None]]

Token(token, role) == [token |-> token, role |-> role]

Metrics(path) == [enabled |-> TRUE, path |-> path]

BearerFiles ==
    {Defaults,
     Auth("bearer", <<"f">>, 
          <<Token(<<"t">>, "ops"), Token(<<"${SET}">>, "dev"), Token(<<"u">>, None)>>),
     Auth(None, <<"${SET}">>, <<>>),
     Auth("none", None, <<>>),
     Auth("bearer", <<>>, <<Token(<<>>, "ops")>>),
     Auth(None, None, <<Token(<<"s">>, "ops")>>),
     [Defaults EXCEPT !.metrics = Metrics(None), !.socket = <<"x">>]}

BrokenFiles ==
    {Auth("bearer", <<"f">>, <<Token(<<"u", "${UNSET}">>, "ops")>>),
     Auth("basic", <<"f">>, <<>>),
     [Defaults EXCEPT !.metrics = Metrics(<<"/", "v", "1">>)],
     [Defaults EXCEPT !.rules = FALSE],
     [Defaults EXCEPT !.parses = FALSE, !.rules = FALSE],
     Absent}

NextFiles ==
    {Defaults, Auth(None, <<"${SET}">>, <<>>), Auth("basic", <<"f">>, <<>>),
     Auth("none", None, <<>>), Auth(None, None, <<Token(<<"s">>, "ops")>>)}

Tls(ca, require, readable) ==
    [client_ca |-> ca, require_client_cert |-> require, readable |-> readable]

Entry(cn, role) == [cn |-> cn, role |-> role]

Mtls(tls_, mtls) ==
    [Defaults EXCEPT !.tls = tls_,
                     !.auth = [type |-> "mtls", secret |-> None, tokens |-> <<>>, mtls |-> mtls]]

Map == <<Entry(<<"*", "b">>, "dev"), Entry(<<"a">>, "ops"), Entry(<<"c", "b">>, "late")>>

TlsFiles ==
    {Mtls(Tls("A", TRUE, TRUE), [cert_role_map |-> Map, default_role |-> None]),
     Mtls(Tls("B", FALSE, TRUE), [cert_role_map |-> Map, default_role |-> "guest"]),
     Mtls(Tls("A", FALSE, TRUE), None),
     Mtls(Tls(None, TRUE, TRUE), [cert_role_map |-> <<>>, default_role |-> "guest"]),
     Mtls(Tls("B", TRUE, FALSE), [cert_role_map |-> Map, default_role |-> "guest"]),
     [Auth("bearer", <<"f">>, <<>>) EXCEPT !.tls = Tls("A", FALSE, TRUE)]}

Cert(issuer, cn, sans) == [issuer |-> issuer, cn |-> cn, sans |-> sans]
San(kind, name) == [kind |-> kind, name |-> name]

Certs ==
    {None, Cert("A", <<"a">>, <<San("dns", <<"c", "b">>)>>),
     Cert("A", None, <<San("ip", <<"a">>), San("uri", <<"c", "b">>)>>),
     Cert("B", <<"a">>, <<>>), Cert("B", <<"c", "d", "b">>, <<>>)}

----------------------------------------------------------------------------
(* Requests.                                                                *)
Plain ==
    [path |-> <<"/", "a">>, method |-> "GET", peer |-> "c1", authorization |-> <<>>,
     real_ip |-> <<>>, forwarded_for |-> <<>>, forwarded |-> <<>>, connection |-> <<>>,
     upgrade |-> <<>>, query |-> TRUE]

Bearer(token) == [Plain EXCEPT !.authorization = <<<<"Bearer", token>>>>]

CredHeads ==
    {Plain, [Plain EXCEPT !.authorization = <<<<"Basic", <<"t">>>>>>],
     [Plain EXCEPT !.authorization = <<<<"Bearer", <<"t">>>>, <<"Bearer", <<"t">>>>>>]}
        \cup {Bearer(token) :
                token \in {<<"f">>, <<"s">>, <<"t">>, <<"u">>, <<>>, <<"t", "t", "t">>}}

Pieces ==
    {<<>>, <<".">>, <<"a">>, <<".", ".">>, <<"%2e", ".">>, <<"v", "1">>, <<"v", ".">>,
     <<"a", "%2f">>, <<"%25">>, <<"m">>}

SlashedPaths ==
    {Joined(<<a, b, c>>, FALSE) : a, b, c \in Pieces}
        \cup {<<>>, <<"a">>, <<"/", "%">>, <<"/", "%00">>,
              <<"/", "a", "a", "a", "a", "a", "a", "a", "a", "a">>}

PathHeads ==
    {[Plain EXCEPT !.path = path] : path \in SlashedPaths} \cup {[Plain EXCEPT !.query = FALSE]}

Hops == {<<>>} \cup {<<line>> : line \in UNION {[1..n -> {"p1", "c1", "c2", "bad"}] : n \in 1..3}}

HopHeads ==
    {[Plain EXCEPT !.peer = peer, !.forwarded_for = hops] : peer \in {"p1", "c1"}, hops \in Hops}
        \cup {[Plain EXCEPT !.peer = "p1", !.real_ip = real, !.forwarded = forwarded,
                            !.connection = <<<<"close", "Upgrade">>>>, !.upgrade = <<"tcp">>] :
                real \in {<<>>, <<<<"c2">>>>, <<<<"bad">>>>},
                forwarded \in {<<>>, <<<<<<"c2">>, <<"bad", "c1">>, <<"bad">>>>>>}}

Open == Auth("none", None, <<>>)

Scenario(env, file_, edits, certs, heads) ==
    [env |-> env, file |-> file_, edits |-> edits, certs |-> certs, heads |-> heads]

MCScenarios ==
    [k \in {"tokens"} \X {Unset, Secretive, Empty} \X (BearerFiles \cup BrokenFiles) |->
        Scenario(k[2], k[3], NextFiles, {None}, CredHeads)]
    @@ [k \in {"certificates"} \X {Unset, Secretive} \X TlsFiles |->
        Scenario(k[2], k[3], TlsFiles, Certs, {Plain, Bearer(<<"s">>)})]
    @@ <<"paths", Unset, Open>> :>
        Scenario(Unset, [Open EXCEPT !.metrics = Metrics(None)], {Defaults}, {None}, PathHeads)
    @@ <<"hops", Unset, Open>> :>
        Scenario(Unset, [Open EXCEPT !.trusted = <<"p/24", "c2">>],
                 {[Open EXCEPT !.trusted = <<>>]}, {None}, HopHeads)

=============================================================================
