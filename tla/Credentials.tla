---------------------------- MODULE Credentials ----------------------------
(***************************************************************************)
(* What credentials are worth: how src/config.rs turns a file and the      *)
(* environment into a configuration, and how src/tls.rs and authenticate() *)
(* in src/main.rs find the role of a token or of a client certificate.     *)
(*                                                                         *)
(* Of the rules, a file only tells whether they load: module RuleEngine    *)
(* models them.  A name in a certificate is the sequence of its labels.    *)
(***************************************************************************)
EXTENDS Environment, RequestHead

CONSTANTS
    None,
    Strings,    \* the type STRING
    Ports,      \* the texts that parse as a port: a function to the number
    Existing    \* the sockets that exist

Option(S) == S \cup {None}
Text == Seq(Strings)

MtlsConfig ==
    [cert_role_map : Seq([cn : Text, role : Strings]), default_role : Option(Strings)]

AuthConfig ==
    [type : Option(Strings), secret : Option(Text),
     tokens : Seq([token : Text, role : Option(Strings)]), mtls : Option(MtlsConfig)]

TlsConfig == [client_ca : Option(Strings), require_client_cert : BOOLEAN, readable : BOOLEAN]

\* A file, and what is made of it.  A list that is left out is empty.  For the rules:
\* whether they compile and are valid.
ProxyConfig ==
    [parses : BOOLEAN, rules : BOOLEAN, auth : Option(AuthConfig), tls : Option(TlsConfig),
     metrics : Option([enabled : BOOLEAN, path : Option(Text)]),
     trusted : Seq(Strings), port : Option(Nat), socket : Option(Text)]

Certificate ==
    [issuer : Strings, cn : Option(Text), sans : Seq([kind : Strings, name : Text])]

CertIdentity == [cn : Option(Text), sans : Seq([kind : Strings, name : Text])]

ASSUME StringsAssumption == {"none", "bearer", "mtls"} \subseteq Strings

ASSUME NoneAssumption == None \notin Strings \cup Text \cup AuthConfig \cup CertIdentity

\* ProxyConfig::default()
Defaults ==
    [parses |-> TRUE, rules |-> TRUE, auth |-> None, tls |-> None, metrics |-> None,
     trusted |-> <<>>, port |-> None, socket |-> None]

\* No file.
Absent == [Defaults EXCEPT !.parses = FALSE]

Value(env, name) == IF name \in DOMAIN env THEN env[name] ELSE <<>>

----------------------------------------------------------------------------
(* Loading a file.                                                          *)

\* The variables that a file's secret and tokens require and the environment lacks.
Unresolved(env, file) ==
    IF file.auth = None THEN {}
    ELSE (IF file.auth.secret = None THEN {} ELSE Missing(env, file.auth.secret))
            \cup UNION {Missing(env, file.auth.tokens[i].token) : i \in DOMAIN file.auth.tokens}

resolve_env_vars(env, file) ==
    IF file.auth = None THEN file
    ELSE [file EXCEPT
            !.auth.secret = IF @ = None THEN None ELSE expand_env(env, @),
            !.auth.tokens = [i \in DOMAIN @ |->
                [token |-> expand_env(env, @[i].token), role |-> @[i].role]]]

NoAuth == [type |-> "bearer", secret |-> None, tokens |-> <<>>, mtls |-> None]

\* Mutant: the secret of the environment is used only if the file has none.
overridden_unless_set(env, auth) ==
    LET secret == Value(env, "DOCKER_PROXY_SECRET")
        base   == IF auth = None THEN NoAuth ELSE auth
    IN IF secret = <<>> THEN auth
       ELSE [base EXCEPT !.secret = IF @ = None THEN secret ELSE @,
                         !.type = IF @ = None THEN "bearer" ELSE @]

\* apply_env_overrides for the auth section.
overridden(env, auth) ==
    LET secret == Value(env, "DOCKER_PROXY_SECRET")
        base   == IF auth = None THEN NoAuth ELSE auth
    IN IF secret = <<>> THEN auth
       ELSE [base EXCEPT !.secret = secret, !.type = IF @ = None THEN "bearer" ELSE @]

apply_env_overrides(env, file) ==
    LET port   == Value(env, "DOCKER_PROXY_PORT")
        socket == Value(env, "DOCKER_SOCKET")
    IN [file EXCEPT
            !.port = IF port \in DOMAIN Ports THEN Ports[port] ELSE @,
            !.socket = IF socket \in Existing THEN socket ELSE @,
            !.auth = overridden(env, @)]

\* The path of the metrics endpoint, if it is enabled.
MetricsPath(file) ==
    IF file.metrics = None \/ ~file.metrics.enabled THEN {}
    ELSE {IF file.metrics.path = None THEN <<"/", "m">> ELSE file.metrics.path}

validate(file) ==
    /\ file.auth # None => file.auth.type \in {None, "none", "bearer", "mtls"}
    /\ \A path \in MetricsPath(file) : path \notin {<<>>, <<"/">>} /\ ~IsPrefix(<<"/", "v">>, path)

\* resolve_env_vars, apply_env_overrides, compile_regexes and validate, in both
\* load() and load_from_path(): the configuration, if there is no error.
Prepared(env, file) ==
    LET config == apply_env_overrides(env, resolve_env_vars(env, file))
    IN IF Unresolved(env, file) = {} /\ file.rules /\ validate(config) THEN {config} ELSE {}

\* Mutant: a file that is read by its path is not overridden by the environment.
load_from_path_as_is(env, file) ==
    LET config == resolve_env_vars(env, file)
    IN IF file.parses /\ Unresolved(env, file) = {} /\ file.rules /\ validate(config)
       THEN {config} ELSE {}

load_from_path(env, file) == IF file.parses THEN Prepared(env, file) ELSE {}

----------------------------------------------------------------------------
(* The roles of client certificates, in src/tls.rs.                         *)

\* extract_identity: the common name, and the alternative names of three kinds.
extract_identity(cert) ==
    [cn   |-> cert.cn,
     sans |-> SelectSeq(cert.sans, LAMBDA san : san.kind \in {"dns", "uri", "email"})]

\* The wildcard stands for exactly one label.
cn_match(pattern, name) ==
    \/ pattern = name
    \/ /\ Len(pattern) > 1 /\ pattern[1] = "*"
       /\ Len(name) > 1 /\ Tail(pattern) = Tail(name)

\* The names of a certificate in the order in which they are tried.
Candidates(identity) ==
    (IF identity.cn = None THEN <<>> ELSE <<identity.cn>>)
        \o [i \in DOMAIN identity.sans |-> identity.sans[i].name]

Mapping(mtls) == IF mtls = None THEN <<>> ELSE mtls.cert_role_map

Hits(identity, mtls) ==
    {hit \in (DOMAIN Candidates(identity)) \X (DOMAIN Mapping(mtls)) :
        cn_match(Mapping(mtls)[hit[2]].cn, Candidates(identity)[hit[1]])}

\* The first name that an entry of the map matches, and the first such entry.
resolve_mtls_role(identity, mtls) ==
    LET hits == Hits(identity, mtls)
        first == CHOOSE h \in hits : \A g \in hits : h[1] < g[1] \/ (h[1] = g[1] /\ h[2] <= g[2])
    IN IF hits # {} THEN {Mapping(mtls)[first[2]].role}
       ELSE IF mtls = None THEN {} ELSE {mtls.default_role} \ {None}

----------------------------------------------------------------------------
(* Authentication, in src/main.rs: the role of a request, if it is allowed. *)

\* constant_time_eq: same length, and the same byte at every place.
constant_time_eq(a, b) == Len(a) = Len(b) /\ \A i \in 1..Len(a) : a[i] = b[i]

Matching(auth, token) ==
    {i \in DOMAIN auth.tokens : constant_time_eq(auth.tokens[i].token, token)}

RoleOf(entry) == IF entry.role = None THEN "user" ELSE entry.role

resolve_token_role(config, env_secret, token) ==
    LET matching == Matching(config.auth, token)
        secret   == IF config.auth = None THEN env_secret ELSE config.auth.secret
    IN IF config.auth # None /\ matching # {} THEN {RoleOf(config.auth.tokens[Min(matching)])}
       ELSE IF secret \notin {None, <<>>} /\ constant_time_eq(secret, token) THEN {"admin"}
       ELSE {}

is_auth_strictly_configured(config, env_secret) ==
    IF config.auth = None THEN env_secret # <<>>
    ELSE \/ config.auth.type \in {"none", "mtls"}
         \/ \E i \in DOMAIN config.auth.tokens : config.auth.tokens[i].token # <<>>
         \/ config.auth.secret \notin {None, <<>>}

AuthType(config) == IF config.auth = None THEN None ELSE config.auth.type

\* authenticate(), for a peer that is not locked out.  Without a role: {None}.
authenticate(config, env_secret, h, identity) ==
    CASE AuthType(config) = "none" -> {None}
      [] AuthType(config) = "mtls" ->
             IF identity = None THEN {} ELSE resolve_mtls_role(identity, config.auth.mtls)
      [] OTHER ->
             IF ~is_auth_strictly_configured(config, env_secret) THEN {}
             ELSE UNION {resolve_token_role(config, env_secret, token) :
                            token \in extract_bearer_token(h)}

=============================================================================
