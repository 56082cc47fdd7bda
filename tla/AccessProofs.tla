---------------------------- MODULE AccessProofs ----------------------------
(***************************************************************************)
(* Proofs about Access: for any files, environments, certificates and      *)
(* requests, only declared credentials get in, and all of them do.         *)
(***************************************************************************)
EXTENDS Access, FiniteSums, TLAPS

\* Min yields an element of a set of numbers that is not empty.
LEMMA MinIn ==
  ASSUME NEW S \in SUBSET Nat, S # {}
  PROVE  Min(S) \in S
  BY LeastNumber DEF Min

\* Texts are compared byte by byte, and equal if all bytes are.
LEMMA ConstantTimeEq ==
  ASSUME NEW a \in Seq(Strings), NEW b \in Seq(Strings)
  PROVE  constant_time_eq(a, b) <=> a = b
  BY DEF constant_time_eq

----------------------------------------------------------------------------
(* What loading does to a file.                                             *)

\* The environment's secret.
Override(env) == Value(env, "DOCKER_PROXY_SECRET")

\* A section with another secret and other tokens.
LEMMA Replaced ==
  ASSUME NEW A, NEW B, NEW C, NEW D, NEW x \in [type : A, secret : B, tokens : C, mtls : D],
         NEW secret \in B, NEW tokens \in C
  PROVE  LET y == [x EXCEPT !.secret = secret, !.tokens = tokens] IN
         /\ y \in [type : A, secret : B, tokens : C, mtls : D]
         /\ y.type = x.type /\ y.secret = secret /\ y.tokens = tokens /\ y.mtls = x.mtls
  OBVIOUS

LEMMA TokensTyped ==
  ASSUME NEW f \in ProxyConfig, f.auth # None
  PROVE  /\ Len(f.auth.tokens) \in Nat /\ DOMAIN f.auth.tokens = 1..Len(f.auth.tokens)
         /\ \A i \in DOMAIN f.auth.tokens : f.auth.tokens[i] \in [token : Text, role : Option(Strings)]
<1> DEFINE T == [token : Text, role : Option(Strings)]
<1>1. f.auth.tokens \in Seq(T)
  BY DEF ProxyConfig, AuthConfig, Option
<1> HIDE DEF T
<1>2. /\ Len(f.auth.tokens) \in Nat /\ DOMAIN f.auth.tokens = 1..Len(f.auth.tokens)
      /\ \A i \in DOMAIN f.auth.tokens : f.auth.tokens[i] \in T
  BY <1>1
<1> QED BY <1>2 DEF T

LEMMA ResolvedAuth ==
  ASSUME NEW env, NEW f \in ProxyConfig, Expands(env, f), f.auth # None
  PROVE  /\ resolve_env_vars(env, f) \in ProxyConfig
         /\ resolve_env_vars(env, f).auth \in AuthConfig
         /\ resolve_env_vars(env, f).tls = f.tls
         /\ LET a == resolve_env_vars(env, f).auth IN
            /\ a.type = f.auth.type /\ a.mtls = f.auth.mtls
            /\ a.secret = IF f.auth.secret = None THEN None ELSE expand_env(env, f.auth.secret)
            /\ DOMAIN a.tokens = DOMAIN f.auth.tokens
            /\ \A i \in DOMAIN f.auth.tokens :
                  /\ a.tokens[i].token = expand_env(env, f.auth.tokens[i].token)
                  /\ a.tokens[i].role = f.auth.tokens[i].role
<1> DEFINE tokens == [i \in DOMAIN f.auth.tokens |->
              [token |-> expand_env(env, f.auth.tokens[i].token), role |-> f.auth.tokens[i].role]]
           secret == IF f.auth.secret = None THEN None ELSE expand_env(env, f.auth.secret)
           a == [f.auth EXCEPT !.secret = secret, !.tokens = tokens]
<1>1. f.auth \in AuthConfig
  BY DEF ProxyConfig, Option
<1>2. tokens \in Seq([token : Text, role : Option(Strings)])
  <2> DEFINE T == [token : Text, role : Option(Strings)]
  <2>2. /\ Len(f.auth.tokens) \in Nat /\ DOMAIN f.auth.tokens = 1..Len(f.auth.tokens)
        /\ \A i \in DOMAIN f.auth.tokens : f.auth.tokens[i].role \in Option(Strings)
    BY TokensTyped
  <2>3. \A i \in DOMAIN f.auth.tokens : expand_env(env, f.auth.tokens[i].token) \in Text
    BY DEF Expands
  <2>4. tokens \in [1..Len(f.auth.tokens) -> T]
    BY <2>2, <2>3
  <2> HIDE DEF tokens, T
  <2>5. tokens \in Seq(T)
    BY <2>2, <2>4
  <2> QED BY <2>5 DEF T
<1>3. secret \in Option(Text)
  BY DEF Expands, Option
<1>4. resolve_env_vars(env, f) = [f EXCEPT !.auth = a]
  BY DEF resolve_env_vars, ProxyConfig
<1> HIDE DEF tokens, secret
<1>5. /\ a \in AuthConfig
      /\ a.type = f.auth.type /\ a.secret = secret /\ a.tokens = tokens /\ a.mtls = f.auth.mtls
  BY <1>1, <1>2, <1>3, Replaced DEF AuthConfig
<1> HIDE DEF a
<1>6. resolve_env_vars(env, f) \in ProxyConfig /\ resolve_env_vars(env, f).auth = a
      /\ resolve_env_vars(env, f).tls = f.tls
  BY <1>4, <1>5 DEF ProxyConfig, Option
<1> QED BY <1>5, <1>6 DEF tokens, secret

\* A file without an auth section is resolved as it is.
LEMMA OverriddenAuth ==
  ASSUME NEW env, Override(env) \in Text, NEW auth \in Option(AuthConfig)
  PROVE  LET o == overridden(env, auth) IN
         /\ o \in Option(AuthConfig)
         /\ o = None <=> auth = None /\ Override(env) = <<>>
         /\ o # None =>
              /\ o.secret = IF Override(env) # <<>> THEN Override(env) ELSE auth.secret
              /\ auth # None => o.tokens = auth.tokens /\ o.mtls = auth.mtls
              /\ auth = None => o.tokens = <<>>
              /\ o.type = IF Override(env) = <<>> THEN auth.type
                          ELSE IF auth = None \/ auth.type = None THEN "bearer" ELSE auth.type
<1> DEFINE base == IF auth = None THEN NoAuth ELSE auth
           type == IF base.type = None THEN "bearer" ELSE base.type
<1>1. NoAuth \in AuthConfig
  <2> DEFINE T == [token : Text, role : Option(Strings)]
  <2> HIDE DEF T
  <2>1. <<>> \in Seq(T)
    OBVIOUS
  <2>2. <<>> \in Seq([token : Text, role : Option(Strings)])
    BY <2>1 DEF T
  <2>3. "bearer" \in Option(Strings) /\ None \in Option(Text) /\ None \in Option(MtlsConfig)
    BY StringsAssumption DEF Option
  <2> QED BY <2>2, <2>3 DEF NoAuth, AuthConfig
<1>2. base \in AuthConfig
  BY <1>1 DEF Option
<1>3. CASE Override(env) = <<>>
  <2>1. overridden(env, auth) = auth
    BY <1>3 DEF overridden, Override
  <2> QED BY <1>3, <2>1
<1>4. CASE Override(env) # <<>>
  <2> DEFINE o == [base EXCEPT !.secret = Override(env), !.type = type]
  <2>1. overridden(env, auth) = o
    BY <1>4 DEF overridden, Override
  <2> HIDE DEF base
  <2>2. type \in Option(Strings) /\ Override(env) \in Option(Text)
    <3>1. base.type \in Option(Strings)
      BY <1>2 DEF AuthConfig
    <3> QED BY <3>1, StringsAssumption DEF Option
  <2> HIDE DEF type
  <2>3. /\ o \in AuthConfig
        /\ o.secret = Override(env) /\ o.type = type /\ o.tokens = base.tokens /\ o.mtls = base.mtls
    BY <1>2, <2>2 DEF AuthConfig
  <2> HIDE DEF o
  <2>4. o # None
    BY <2>3, NoneAssumption
  <2>5. /\ auth # None => o.tokens = auth.tokens /\ o.mtls = auth.mtls
        /\ auth = None => o.tokens = <<>>
    BY <2>3 DEF base, NoAuth
  <2>6. o.type = IF auth = None \/ auth.type = None THEN "bearer" ELSE auth.type
    BY <2>3, NoneAssumption DEF type, base, NoAuth
  <2> QED BY <1>4, <2>1, <2>3, <2>4, <2>5, <2>6 DEF Option
<1> QED BY <1>3, <1>4

\* The part of a configuration that does not come from the auth section.
LEMMA PreparedShape ==
  ASSUME NEW env, Override(env) \in Text, NEW f \in ProxyConfig, Expands(env, f),
         NEW c \in Prepared(env, f)
  PROVE  /\ c \in ProxyConfig /\ c.tls = f.tls
         /\ c.auth = overridden(env, resolve_env_vars(env, f).auth)
         /\ resolve_env_vars(env, f).auth \in Option(AuthConfig)
<1> DEFINE r == resolve_env_vars(env, f)
<1>1. r \in ProxyConfig /\ r.tls = f.tls
  <2>1. CASE f.auth = None
    BY <2>1 DEF resolve_env_vars
  <2>2. CASE f.auth # None
    BY <2>2, ResolvedAuth
  <2> QED BY <2>1, <2>2
<1>2. r.auth \in Option(AuthConfig)
  BY <1>1 DEF ProxyConfig
<1>3. overridden(env, r.auth) \in Option(AuthConfig)
  BY <1>2, OverriddenAuth
<1> HIDE DEF r
<1> DEFINE port == IF Value(env, "DOCKER_PROXY_PORT") \in DOMAIN Ports
                   THEN Ports[Value(env, "DOCKER_PROXY_PORT")] ELSE r.port
           socket == IF Value(env, "DOCKER_SOCKET") \in Existing
                     THEN Value(env, "DOCKER_SOCKET") ELSE r.socket
<1>4. c = [r EXCEPT !.port = port, !.socket = socket, !.auth = overridden(env, r.auth)]
  BY DEF Prepared, apply_env_overrides, r
<1>5. port \in Option(Nat) /\ socket \in Option(Text)
  BY <1>1, BoundsAssumption DEF ProxyConfig, Option
<1> HIDE DEF port, socket
<1>6. c \in ProxyConfig /\ c.tls = r.tls /\ c.auth = overridden(env, r.auth)
  BY <1>1, <1>3, <1>4, <1>5 DEF ProxyConfig
<1> QED BY <1>1, <1>2, <1>6 DEF r

----------------------------------------------------------------------------
(* What a token and a certificate are worth.                                *)

\* A file of the scenario, and a configuration made of it.
Loaded(f, c) ==
    /\ scenario \in DOMAIN Scenarios
    /\ f \in ProxyConfig /\ Expands(world.env, f) /\ c \in Prepared(world.env, f)

Worth(f, token) ==
    IF token = Secret(f) /\ Listed(f, token) = {} THEN {"admin"} ELSE Listed(f, token)

LEMMA LoadedFacts ==
  ASSUME NEW f, NEW c, Loaded(f, c)
  PROVE  /\ Override(world.env) \in Text
         /\ c \in ProxyConfig /\ c.tls = f.tls
         /\ c.auth = None <=> f.auth = None /\ Override(world.env) = <<>>
         /\ AuthType(c) = "none" <=> AuthType(f) = "none"
         /\ AuthType(c) = "mtls" <=> AuthType(f) = "mtls"
         /\ AuthType(f) = "mtls" => c.auth.mtls = f.auth.mtls
         /\ c.auth # None =>
              /\ c.auth \in AuthConfig
              /\ c.auth.secret = IF Override(world.env) # <<>> THEN Override(world.env)
                                 ELSE IF f.auth.secret = None THEN None
                                 ELSE expand_env(world.env, f.auth.secret)
              /\ f.auth = None => c.auth.tokens = <<>>
              /\ f.auth # None =>
                    /\ DOMAIN c.auth.tokens = DOMAIN f.auth.tokens
                    /\ \A i \in DOMAIN f.auth.tokens :
                          /\ c.auth.tokens[i].token = expand_env(world.env, f.auth.tokens[i].token)
                          /\ c.auth.tokens[i].role = f.auth.tokens[i].role
<1> DEFINE env == world.env
           r == resolve_env_vars(env, f)
<1>1. Override(env) \in Text
  BY ScenariosAssumption DEF Loaded, Override, world
<1> HIDE DEF env
<1>2. /\ f \in ProxyConfig /\ Expands(env, f) /\ c \in Prepared(env, f)
  BY DEF Loaded, env
<1>3. /\ c \in ProxyConfig /\ c.tls = f.tls
      /\ c.auth = overridden(env, r.auth) /\ r.auth \in Option(AuthConfig)
  BY <1>1, <1>2, PreparedShape
<1>4. CASE f.auth = None
  <2>1. r.auth = None
    BY <1>4 DEF resolve_env_vars
  <2>2. /\ c.auth \in Option(AuthConfig)
        /\ c.auth = None <=> Override(env) = <<>>
        /\ c.auth # None => /\ c.auth.secret = Override(env) /\ c.auth.tokens = <<>>
                            /\ c.auth.type = "bearer"
    <3> HIDE DEF r
    <3> QED BY <1>1, <1>3, <2>1, OverriddenAuth
  <2>3. AuthType(f) = None /\ AuthType(c) \in {None, "bearer"}
    BY <1>4, <2>2 DEF AuthType
  <2>4. None # "none" /\ None # "mtls"
    BY NoneAssumption, StringsAssumption
  <2> QED BY <1>1, <1>3, <1>4, <2>2, <2>3, <2>4 DEF env, Option
<1>5. CASE f.auth # None
  <2>1. /\ r.auth \in AuthConfig /\ r.auth.type = f.auth.type /\ r.auth.mtls = f.auth.mtls
        /\ r.auth.secret = IF f.auth.secret = None THEN None ELSE expand_env(env, f.auth.secret)
        /\ DOMAIN r.auth.tokens = DOMAIN f.auth.tokens
        /\ \A i \in DOMAIN f.auth.tokens :
              /\ r.auth.tokens[i].token = expand_env(env, f.auth.tokens[i].token)
              /\ r.auth.tokens[i].role = f.auth.tokens[i].role
    BY <1>2, <1>5, ResolvedAuth
  <2> HIDE DEF r
  <2>2. r.auth # None
    BY <2>1, NoneAssumption
  <2>3. /\ c.auth \in AuthConfig /\ c.auth # None
        /\ c.auth.secret = IF Override(env) # <<>> THEN Override(env) ELSE r.auth.secret
        /\ c.auth.tokens = r.auth.tokens /\ c.auth.mtls = r.auth.mtls
        /\ c.auth.type = IF Override(env) = <<>> THEN r.auth.type
                         ELSE IF r.auth.type = None THEN "bearer" ELSE r.auth.type
    BY <1>1, <1>3, <2>2, OverriddenAuth DEF Option
  <2>4. /\ AuthType(c) = c.auth.type /\ AuthType(f) = f.auth.type
    BY <1>5, <2>3 DEF AuthType
  <2>5. /\ AuthType(c) = "none" <=> AuthType(f) = "none"
        /\ AuthType(c) = "mtls" <=> AuthType(f) = "mtls"
    BY <2>1, <2>3, <2>4, NoneAssumption, StringsAssumption
  <2> QED BY <1>1, <1>3, <1>5, <2>1, <2>3, <2>5 DEF env
<1> QED BY <1>4, <1>5

\* The code's search through the tokens finds a role exactly where one is declared.
LEMMA TokenWorth ==
  ASSUME NEW f, NEW c, Loaded(f, c), NEW token \in Text, token # <<>>
  PROVE  LET found == resolve_token_role(c, Override(world.env), token) IN
         /\ found \subseteq Worth(f, token)
         /\ found = {} => Worth(f, token) = {}
         /\ ~is_auth_strictly_configured(c, Override(world.env)) => Worth(f, token) = {}
<1> DEFINE env == world.env
           found == resolve_token_role(c, Override(env), token)
<1> HIDE DEF env
<1>1. CASE c.auth = None
  <2>1. f.auth = None /\ Override(env) = <<>>
    BY <1>1, LoadedFacts DEF env
  <2>2. found = {}
    BY <1>1, <2>1 DEF resolve_token_role
  <2>3. Secret(f) = <<>> /\ Listed(f, token) = {}
    BY <2>1 DEF Secret, Listed, Override, env
  <2> QED BY <2>2, <2>3 DEF Worth, env
<1>2. CASE c.auth # None
  <2> DEFINE matching == Matching(c.auth, token)
             secret == c.auth.secret
  <2>1. /\ Override(env) \in Text /\ c \in ProxyConfig /\ Expands(env, f) /\ f \in ProxyConfig
        /\ Len(c.auth.tokens) \in Nat /\ DOMAIN c.auth.tokens = 1..Len(c.auth.tokens)
    BY <1>2, LoadedFacts, TokensTyped DEF Loaded, env
  <2>2. /\ secret = IF Override(env) # <<>> THEN Override(env)
                    ELSE IF f.auth.secret = None THEN None ELSE expand_env(env, f.auth.secret)
        /\ f.auth = None => c.auth.tokens = <<>> /\ Override(env) # <<>>
        /\ f.auth # None =>
              /\ DOMAIN c.auth.tokens = DOMAIN f.auth.tokens
              /\ \A i \in DOMAIN f.auth.tokens :
                    /\ c.auth.tokens[i].token = expand_env(env, f.auth.tokens[i].token)
                    /\ c.auth.tokens[i].role = f.auth.tokens[i].role
    BY <1>2, LoadedFacts DEF env
  <2>3. f.auth = None => matching = {} /\ Listed(f, token) = {}
    BY <2>2 DEF Matching, Listed
  <2>4. ASSUME f.auth # None
        PROVE  \A i \in DOMAIN f.auth.tokens :
                  /\ i \in matching <=> expand_env(env, f.auth.tokens[i].token) = token
                  /\ RoleOf(c.auth.tokens[i]) = RoleOf(f.auth.tokens[i])
    <3>1. \A i \in DOMAIN f.auth.tokens : expand_env(env, f.auth.tokens[i].token) \in Text
      BY <2>1, <2>4 DEF Expands
    <3>2. \A i \in DOMAIN f.auth.tokens :
             i \in matching <=> constant_time_eq(expand_env(env, f.auth.tokens[i].token), token)
      BY <2>2, <2>4 DEF Matching
    <3>3. \A i \in DOMAIN f.auth.tokens : RoleOf(c.auth.tokens[i]) = RoleOf(f.auth.tokens[i])
      BY <2>2, <2>4 DEF RoleOf
    <3> QED BY <3>1, <3>2, <3>3, ConstantTimeEq DEF Text
  <2>5. f.auth # None => Listed(f, token) = {RoleOf(c.auth.tokens[i]) : i \in matching}
    BY <2>2, <2>4 DEF Listed, Matching, env
  <2>6. Listed(f, token) = {RoleOf(c.auth.tokens[i]) : i \in matching}
    BY <2>3, <2>5
  <2>7. /\ secret \in Option(Text)
        /\ secret \notin {None, <<>>} <=> Secret(f) # <<>>
        /\ secret \notin {None, <<>>} => secret = Secret(f)
    <3>1. CASE Override(env) # <<>>
      <4>1. secret = Override(env) /\ Secret(f) = Override(env)
        BY <2>2, <3>1 DEF Secret, Override, env
      <4> QED BY <2>1, <3>1, <4>1, NoneAssumption DEF Option
    <3>2. CASE Override(env) = <<>> /\ f.auth.secret = None
      <4>1. secret = None /\ Secret(f) = <<>>
        BY <2>2, <3>2 DEF Secret, Override, env
      <4> QED BY <4>1 DEF Option
    <3>3. CASE Override(env) = <<>> /\ f.auth.secret # None
      <4>1. /\ secret = expand_env(env, f.auth.secret) /\ Secret(f) = expand_env(env, f.auth.secret)
            /\ f.auth # None
        BY <2>2, <3>3 DEF Secret, Override, env
      <4>2. secret \in Text
        BY <2>1, <3>3, <4>1 DEF Expands
      <4> QED BY <4>1, <4>2, NoneAssumption DEF Option
    <3> QED BY <3>1, <3>2, <3>3
  <2>8. secret \notin {None, <<>>} => (constant_time_eq(secret, token) <=> token = Secret(f))
    BY <2>7, ConstantTimeEq DEF Option, Text
  <2>9. CASE matching # {}
    <3>1. Min(matching) \in matching
      <4>1. matching \in SUBSET Nat
        BY <2>1 DEF Matching
      <4> HIDE DEF matching
      <4> QED BY <2>9, <4>1, MinIn
    <3>2. found = {RoleOf(c.auth.tokens[Min(matching)])}
      BY <1>2, <2>9 DEF resolve_token_role
    <3>3. Listed(f, token) # {} /\ found \subseteq Listed(f, token)
      BY <2>6, <3>1, <3>2
    <3>4. is_auth_strictly_configured(c, Override(env))
      <4>1. PICK i \in matching : TRUE
        BY <2>9
      <4>2. f.auth # None
        BY <2>3, <2>9
      <4>3. i \in DOMAIN c.auth.tokens /\ c.auth.tokens[i].token = token
        BY <2>2, <2>4, <4>2 DEF Matching
      <4> QED BY <1>2, <4>3 DEF is_auth_strictly_configured
    <3> QED BY <3>2, <3>3, <3>4 DEF Worth, env
  <2>10. CASE matching = {}
    <3>1. Listed(f, token) = {}
      BY <2>6, <2>10
    <3>2. found = IF secret \notin {None, <<>>} /\ constant_time_eq(secret, token) THEN {"admin"} ELSE {}
      BY <1>2, <2>10 DEF resolve_token_role
    <3>3. Worth(f, token) = IF token = Secret(f) THEN {"admin"} ELSE {}
      BY <3>1 DEF Worth
    <3>4. found = Worth(f, token)
      BY <2>7, <2>8, <3>2, <3>3
    <3>5. ~is_auth_strictly_configured(c, Override(env)) => secret \in {None, <<>>}
      BY <1>2 DEF is_auth_strictly_configured
    <3> QED BY <2>7, <3>3, <3>4, <3>5 DEF env
  <2> QED BY <2>9, <2>10
<1> QED BY <1>1, <1>2

\* The code's search through names and entries finds the first entry that fits a name.
LEMMA FirstHit ==
  ASSUME NEW identity, NEW mtls, Hits(identity, mtls) # {},
         DOMAIN Candidates(identity) \subseteq Nat, DOMAIN Mapping(mtls) \subseteq Nat
  PROVE  \E h \in Hits(identity, mtls) :
            /\ resolve_mtls_role(identity, mtls) = {Mapping(mtls)[h[2]].role}
            /\ \A g \in Hits(identity, mtls) : h[1] = g[1] => h[2] <= g[2]
<1> DEFINE hits == Hits(identity, mtls)
           Least(h) == \A g \in hits : h[1] < g[1] \/ (h[1] = g[1] /\ h[2] <= g[2])
<1>1. \A h \in hits : h = <<h[1], h[2]>> /\ h[1] \in Nat /\ h[2] \in Nat
  BY DEF Hits
<1>2. resolve_mtls_role(identity, mtls) = {Mapping(mtls)[(CHOOSE h \in hits : Least(h))[2]].role}
  BY DEF resolve_mtls_role
<1> HIDE DEF hits
<1>3. hits # {}
  BY DEF hits
<1>4. PICK m \in {h[1] : h \in hits} : \A n \in {h[1] : h \in hits} : m <= n
  <2>1. {h[1] : h \in hits} \in SUBSET Nat /\ {h[1] : h \in hits} # {}
    BY <1>1, <1>3
  <2> QED BY <2>1, LeastNumber
<1>5. PICK k \in {h[2] : h \in {g \in hits : g[1] = m}} :
          \A n \in {h[2] : h \in {g \in hits : g[1] = m}} : k <= n
  <2>1. {h[2] : h \in {g \in hits : g[1] = m}} \in SUBSET Nat /\ {h[2] : h \in {g \in hits : g[1] = m}} # {}
    BY <1>1, <1>4
  <2> QED BY <2>1, LeastNumber
<1>6. PICK first \in hits : first[1] = m /\ first[2] = k
  BY <1>5
<1>7. Least(first)
  BY <1>1, <1>4, <1>5, <1>6
<1>8. (CHOOSE h \in hits : Least(h)) \in hits /\ Least(CHOOSE h \in hits : Least(h))
  BY <1>6, <1>7
<1>9. \A h \in hits : Least(h) => \A g \in hits : h[1] = g[1] => h[2] <= g[2]
  BY <1>1
<1> QED BY <1>2, <1>8, <1>9 DEF hits

\* The names of a certificate are numbered.
LEMMA CandidatesFacts ==
  ASSUME scenario \in DOMAIN Scenarios, cert \in world.certs \ {None}
  PROVE  /\ Identity = extract_identity(cert) /\ Identity # None
         /\ DOMAIN Candidates(Identity) \subseteq Nat
<1> DEFINE sans == extract_identity(cert).sans
           T == [kind : Strings, name : Text]
           first == IF cert.cn = None THEN <<>> ELSE <<cert.cn>>
           rest == [i \in DOMAIN sans |-> sans[i].name]
<1>1. /\ cert \in Certificate /\ sans \in Seq(T) /\ extract_identity(cert) \in CertIdentity
      /\ Identity = extract_identity(cert) /\ Identity.cn = cert.cn /\ Identity.sans = sans
  <2>1. cert \in Certificate /\ extract_identity(cert) \in CertIdentity
    BY ScenariosAssumption DEF world
  <2> QED BY <2>1 DEF Identity, extract_identity, CertIdentity
<1>2. cert.cn \in Option(Text)
  BY <1>1 DEF Certificate
<1>3. Candidates(Identity) = first \o rest
  BY <1>1 DEF Candidates
<1> HIDE DEF sans
<1>4. rest \in Seq(Text)
  <2>1. \A x \in T : x.name \in Text
    OBVIOUS
  <2> HIDE DEF T
  <2>2. Len(sans) \in Nat /\ DOMAIN sans = 1..Len(sans) /\ \A i \in DOMAIN sans : sans[i] \in T
    BY <1>1
  <2>3. rest \in [1..Len(sans) -> Text]
    BY <2>1, <2>2
  <2> HIDE DEF rest
  <2> QED BY <2>2, <2>3
<1> HIDE DEF rest
<1>5. first \in Seq(Text)
  BY <1>2 DEF Option
<1>6. DOMAIN Candidates(Identity) \subseteq Nat
  <2> HIDE DEF first
  <2> QED BY <1>3, <1>4, <1>5
<1>7. Identity # None
  BY <1>1, NoneAssumption
<1> QED BY <1>1, <1>6, <1>7

\* What DeclarationsHonoured asks of the roles found for a certificate of one name.
OneNamed(f, roles) ==
    LET names   == Range(Candidates(Identity))
        fitting == Fitting(f, names)
    IN (\A a, b \in names : a = b) /\ fitting # {} => roles \subseteq RolesOf(f, FirstOf(fitting))

LEMMA CertWorth ==
  ASSUME NEW f \in ProxyConfig, AuthType(f) = "mtls",
         scenario \in DOMAIN Scenarios, cert \in world.certs \ {None}
  PROVE  LET found == resolve_mtls_role(Identity, f.auth.mtls) IN
         /\ found \subseteq Declared(f)
         /\ found = {} => Declared(f) = {}
         /\ OneNamed(f, found)
<1> DEFINE mtls == f.auth.mtls
           found == resolve_mtls_role(Identity, mtls)
           hits == Hits(Identity, mtls)
           names == Candidates(Identity)
           fitting == Fitting(f, Range(names))
<1>1. f.auth # None /\ mtls \in Option(MtlsConfig)
  BY NoneAssumption, StringsAssumption DEF AuthType, ProxyConfig, AuthConfig, Option
<1>2. DOMAIN Mapping(mtls) \subseteq Nat
  <2> DEFINE T == [cn : Text, role : Strings]
  <2>1. mtls # None => mtls.cert_role_map \in Seq(T)
    BY <1>1 DEF MtlsConfig, Option
  <2> HIDE DEF T
  <2> QED BY <2>1 DEF Mapping
<1>3. DOMAIN names \subseteq Nat /\ cert # None
  BY CandidatesFacts
<1>4. Declared(f) = IF mtls = None THEN {}
                    ELSE IF fitting # {} THEN RolesOf(f, fitting) ELSE {mtls.default_role} \ {None}
  BY <1>3 DEF Declared
<1>5. Range(names) = {names[i] : i \in DOMAIN names}
  BY DEF Range
<1>6. \A h \in hits : /\ h = <<h[1], h[2]>> /\ h[1] \in DOMAIN names /\ h[2] \in DOMAIN Mapping(mtls)
                      /\ cn_match(Mapping(mtls)[h[2]].cn, names[h[1]])
  BY DEF Hits
<1>7. \A i \in DOMAIN names, j \in DOMAIN Mapping(mtls) :
         cn_match(Mapping(mtls)[j].cn, names[i]) => <<i, j>> \in hits
  BY DEF Hits
<1>8. fitting \subseteq DOMAIN Mapping(mtls)
      /\ \A j \in fitting : \E i \in DOMAIN names : cn_match(Mapping(mtls)[j].cn, names[i])
  BY <1>5 DEF Fitting
<1>9. CASE hits = {}
  <2>1. fitting = {}
    BY <1>7, <1>8, <1>9
  <2>2. found = IF mtls = None THEN {} ELSE {mtls.default_role} \ {None}
    BY <1>9 DEF resolve_mtls_role
  <2> QED BY <1>4, <2>1, <2>2 DEF OneNamed
<1>10. CASE hits # {}
  <2>1. PICK h \in hits : /\ found = {Mapping(mtls)[h[2]].role}
                          /\ \A g \in hits : h[1] = g[1] => h[2] <= g[2]
    BY <1>2, <1>3, <1>10, FirstHit
  <2>2. h[2] \in fitting
    BY <1>5, <1>6, <2>1 DEF Fitting
  <2>3. found \subseteq RolesOf(f, fitting) /\ found # {}
    BY <2>1, <2>2 DEF RolesOf
  <2>4. mtls # None
    BY <1>6, <2>1 DEF Mapping
  <2>5. OneNamed(f, found)
    <3> SUFFICES ASSUME \A a, b \in Range(names) : a = b
                 PROVE  found \subseteq RolesOf(f, FirstOf(fitting))
      BY DEF OneNamed
    <3>1. ASSUME NEW j \in fitting PROVE h[2] <= j
      <4>1. PICK i \in DOMAIN names : cn_match(Mapping(mtls)[j].cn, names[i])
        BY <1>8
      <4>2. names[i] = names[h[1]] /\ h[1] \in DOMAIN names
        BY <1>5, <1>6, <2>1
      <4>3. <<h[1], j>> \in hits
        BY <1>7, <1>8, <4>1, <4>2
      <4> QED BY <2>1, <4>3
    <3>2. h[2] \in FirstOf(fitting)
      BY <2>2, <3>1 DEF FirstOf
    <3> QED BY <2>1, <3>2 DEF RolesOf
  <2> QED BY <1>4, <2>2, <2>3, <2>4, <2>5
<1> QED BY <1>9, <1>10

\* authenticate() finds a role exactly where one is declared.
LEMMA Authentication ==
  ASSUME NEW f, NEW c, Loaded(f, c), head \in world.heads, cert \in world.certs \cup {None}
  PROVE  LET found == authenticate(c, Override(world.env), head, Identity) IN
         /\ found \subseteq Declared(f)
         /\ found = {} => Declared(f) = {}
         /\ AuthType(f) = "mtls" => OneNamed(f, found)
<1> DEFINE found == authenticate(c, Override(world.env), head, Identity)
<1>1. /\ AuthType(c) = "none" <=> AuthType(f) = "none"
      /\ AuthType(c) = "mtls" <=> AuthType(f) = "mtls"
      /\ AuthType(f) = "mtls" => c.auth.mtls = f.auth.mtls
      /\ f \in ProxyConfig /\ scenario \in DOMAIN Scenarios
  BY LoadedFacts DEF Loaded
<1>2. CASE AuthType(f) = "none"
  <2>1. found = {None}
    BY <1>1, <1>2 DEF authenticate
  <2>2. Declared(f) = {None}
    BY <1>2 DEF Declared
  <2> QED BY <1>2, <2>1, <2>2
<1>3. CASE AuthType(f) = "mtls"
  <2>1. CASE cert = None
    <3>1. found = {} /\ Declared(f) = {}
      BY <1>1, <1>3, <2>1 DEF authenticate, Declared, Identity
    <3> QED BY <3>1 DEF OneNamed
  <2>2. CASE cert # None
    <3>1. Identity # None
      BY <1>1, <2>2, CandidatesFacts
    <3>2. found = resolve_mtls_role(Identity, f.auth.mtls)
      BY <1>1, <1>3, <3>1 DEF authenticate
    <3> QED BY <1>1, <1>3, <2>2, <3>2, CertWorth
  <2> QED BY <2>1, <2>2
<1>4. CASE AuthType(f) \notin {"none", "mtls"}
  <2> DEFINE tokens == extract_bearer_token(head)
  <2>1. \A t \in tokens : t \in Text /\ t # <<>>
    <3>1. head.authorization \in Seq(Strings \X Text)
      BY <1>1, ScenariosAssumption DEF world
    <3>2. Len(head.authorization) = 1 => head.authorization[1][2] \in Text
      BY <3>1
    <3>3. \A t \in tokens : Len(head.authorization) = 1 /\ t = head.authorization[1][2] /\ Len(t) \in 1..MaxTokenLen
      BY DEF extract_bearer_token
    <3> QED BY <3>2, <3>3 DEF Text
  <2>2. Declared(f) = UNION {Worth(f, t) : t \in tokens}
    <3>1. tokens \ {<<>>} = tokens
      BY <2>1
    <3> HIDE DEF tokens
    <3> QED BY <1>4, <3>1 DEF Declared, Worth, tokens
  <2>3. found = IF is_auth_strictly_configured(c, Override(world.env))
                THEN UNION {resolve_token_role(c, Override(world.env), t) : t \in tokens} ELSE {}
    BY <1>1, <1>4 DEF authenticate
  <2> HIDE DEF tokens, found
  <2>4. \A t \in tokens :
           /\ resolve_token_role(c, Override(world.env), t) \subseteq Worth(f, t)
           /\ resolve_token_role(c, Override(world.env), t) = {} => Worth(f, t) = {}
           /\ ~is_auth_strictly_configured(c, Override(world.env)) => Worth(f, t) = {}
    BY <2>1, TokenWorth
  <2>5. found \subseteq Declared(f)
    BY <2>2, <2>3, <2>4
  <2>6. found = {} => Declared(f) = {}
    BY <2>2, <2>3, <2>4
  <2> QED BY <1>4, <2>5, <2>6 DEF found
<1> QED BY <1>2, <1>3, <1>4

LEMMA Steady ==
  ASSUME UNCHANGED <<scenario, cert, head>>
  PROVE  /\ \A f : Declared(f)' = Declared(f)
         /\ Identity' = Identity
  BY DEF Declared, Listed, Secret, Identity, world

----------------------------------------------------------------------------
(* The invariant.                                                           *)

\* The configuration in force was made of the file in force, and the listener's TLS
\* settings are those of a file in force since it was bound.
RunningInv ==
    phase = "running" =>
        /\ Loaded(file, config) /\ startup.env_secret = Override(world.env)
        /\ \E f \in since : f.tls = tls

\* So was the configuration that a request has cloned.
RequestInv ==
    /\ st # "closed" => phase = "running"
    /\ st = "closed" => cert = None
    /\ st = "received" => Loaded(snapFile, snap) /\ head \in world.heads
    /\ st # "answered" => outcome = Pending

Inv ==
    /\ scenario \in DOMAIN Scenarios /\ cert \in world.certs \cup {None}
    /\ RunningInv /\ RequestInv
    /\ CertificatesVerified /\ AdmissionsDeclared /\ DeclarationsHonoured

LEMMA InvInit == Init => Inv
  BY DEF Init, Inv, RunningInv, RequestInv, CertificatesVerified, AdmissionsDeclared,
         DeclarationsHonoured, Pending

\* Steps of the process leave the connection alone.
LEMMA InvConn ==
  ASSUME Inv, UNCHANGED <<scenario, connVars>>, RunningInv', phase = "running" => phase' = "running"
  PROVE  Inv'
<1>1. UNCHANGED <<scenario, st, cert, valid, head, snap, snapFile, outcome>>
  BY DEF connVars, requestVars
<1>2. RequestInv'
  BY <1>1 DEF Inv, RequestInv, Loaded, world
<1>3. CertificatesVerified'
  BY <1>1 DEF Inv, CertificatesVerified
<1>4. AdmissionsDeclared' /\ DeclarationsHonoured'
  BY <1>1, Steady DEF Inv, AdmissionsDeclared, DeclarationsHonoured, Fitting, RolesOf
<1> QED BY <1>1, <1>2, <1>3, <1>4 DEF Inv, world

\* Steps of the connection leave the process alone.
LEMMA InvProcess ==
  ASSUME Inv, UNCHANGED <<scenario, phase, configVars, listenerVars>>
  PROVE  RunningInv' /\ phase' = phase /\ scenario' \in DOMAIN Scenarios /\ world' = world
  BY DEF Inv, RunningInv, Loaded, world, configVars, listenerVars

\* The files that can be loaded.
LEMMA FileLoaded ==
  ASSUME scenario \in DOMAIN Scenarios, NEW f \in world.edits \cup {world.file, Defaults},
         NEW c \in Prepared(world.env, f)
  PROVE  Loaded(f, c)
<1>1. CASE f \in world.edits \cup {world.file}
  BY <1>1, ScenariosAssumption DEF Loaded, world
<1>2. CASE f = Defaults
  <2>1. Defaults \in ProxyConfig
    BY DEF Defaults, ProxyConfig, Option
  <2>2. Expands(world.env, Defaults)
    BY DEF Expands, Defaults
  <2> QED BY <1>2, <2>1, <2>2 DEF Loaded
<1> QED BY <1>1, <1>2

LEMMA InvStart == Inv /\ (Start \/ FailToStart) => Inv'
<1> SUFFICES ASSUME Inv, Start \/ FailToStart PROVE Inv'
  OBVIOUS
<1>1. CASE Start
  <2>1. /\ phase' = "running" /\ UNCHANGED <<scenario, connVars>> /\ phase = "starting"
        /\ world' = world /\ scenario \in DOMAIN Scenarios
    BY <1>1 DEF Start, world, Inv
  <2>2. PICK c \in load_config_from_default_path :
           /\ config' = c /\ tls' = c.tls
           /\ file' = IF Watched THEN world.file ELSE Defaults
           /\ startup'.env_secret = Override(world.env)
    BY <1>1 DEF Start, Override
  <2>3. since' = {file'}
    BY <1>1 DEF Start
  <2>4. c \in Prepared(world.env, file')
    BY <2>2 DEF load_config_from_default_path, load_from_path
  <2>5. Loaded(file', c)
    BY <2>1, <2>2, <2>4, FileLoaded
  <2>6. c.tls = (file').tls
    BY <2>5, LoadedFacts
  <2>7. Loaded(file, config)'
    BY <2>1, <2>2, <2>5 DEF Loaded
  <2>8. RunningInv'
    BY <2>1, <2>2, <2>3, <2>6, <2>7 DEF RunningInv
  <2> QED BY <2>1, <2>8, InvConn
<1>2. CASE FailToStart
  <2>1. phase' = "exited" /\ phase = "starting" /\ UNCHANGED <<scenario, connVars>>
    BY <1>2 DEF FailToStart
  <2> QED BY <2>1, InvConn DEF RunningInv
<1> QED BY <1>1, <1>2

LEMMA InvReload == Inv /\ (Reload \/ Restart) => Inv'
<1> SUFFICES ASSUME Inv, Reload \/ Restart PROVE Inv'
  OBVIOUS
<1>1. /\ phase = "running" /\ UNCHANGED <<scenario, phase, connVars, startup>> /\ world' = world
      /\ Loaded(file, config) /\ startup.env_secret = Override(world.env)
      /\ scenario \in DOMAIN Scenarios
  BY DEF Reload, Restart, configVars, world, Inv, RunningInv
<1>2. PICK old \in since : old.tls = tls
  BY <1>1 DEF Inv, RunningInv
<1>3. CASE Reload
  <2>1. UNCHANGED tls /\ since \subseteq since'
    BY <1>3 DEF Reload
  <2>2. Loaded(file, config)'
    <3>1. CASE UNCHANGED <<config, file>>
      BY <1>1, <3>1 DEF Loaded
    <3>2. CASE \E f \in world.edits : config' \in load_from_path(world.env, f) /\ file' = f
      <4>1. Loaded(file', config')
        BY <1>1, <3>2, FileLoaded DEF load_from_path
      <4> QED BY <1>1, <4>1 DEF Loaded
    <3> QED BY <1>3, <3>1, <3>2 DEF Reload
  <2>3. RunningInv'
    BY <1>1, <1>2, <2>1, <2>2 DEF RunningInv
  <2> QED BY <1>1, <2>3, InvConn
<1>4. CASE Restart
  <2>1. UNCHANGED <<config, file>> /\ Loaded(file, config)'
    BY <1>1, <1>4 DEF Restart, configVars, Loaded
  <2>2. \E f \in since' : f.tls = tls'
    <3>1. CASE tls' = config.tls /\ since' = {file}
      BY <1>1, <3>1, LoadedFacts
    <3>2. CASE UNCHANGED <<tls, since>>
      BY <1>2, <3>2
    <3> QED BY <1>4, <3>1, <3>2 DEF Restart
  <2>3. RunningInv'
    BY <1>1, <2>1, <2>2 DEF RunningInv
  <2> QED BY <1>1, <2>3, InvConn
<1> QED BY <1>3, <1>4

\* A connection's certificate is verified with the TLS settings of the listener.
LEMMA InvAccept == Inv /\ Accept => Inv'
<1> SUFFICES ASSUME Inv, Accept PROVE Inv'
  OBVIOUS
<1>1. RunningInv' /\ phase' = phase /\ scenario' \in DOMAIN Scenarios /\ world' = world
  BY InvProcess DEF Accept
<1>2. PICK c \in world.certs : cert' \in Handshake(c)
  BY DEF Accept
<1>3. /\ phase = "running" /\ st = "closed" /\ st' = "open" /\ valid' = since
      /\ UNCHANGED <<outcome, head, snap, snapFile>>
  BY DEF Accept, requestVars
<1>4. /\ cert' \in world.certs \cup {None}
      /\ cert' # None => tls # None /\ (cert').issuer = tls.client_ca
  BY <1>2 DEF Handshake
<1>5. PICK f \in since : f.tls = tls
  BY <1>3 DEF Inv, RunningInv
<1>6. CertificatesVerified'
  BY <1>3, <1>4, <1>5 DEF CertificatesVerified
<1>7. RequestInv'
  BY <1>1, <1>3 DEF Inv, RequestInv, Pending
<1>8. outcome'.status = "none"
  BY <1>3 DEF Inv, RequestInv, Pending
<1>9. AdmissionsDeclared' /\ DeclarationsHonoured'
  BY <1>8 DEF AdmissionsDeclared, DeclarationsHonoured
<1> QED BY <1>1, <1>4, <1>6, <1>7, <1>9 DEF Inv

\* A request clones the configuration in force, with the file it was made of.
LEMMA InvReceive == Inv /\ Receive => Inv'
<1> SUFFICES ASSUME Inv, Receive PROVE Inv'
  OBVIOUS
<1>1. RunningInv' /\ phase' = phase /\ scenario' \in DOMAIN Scenarios /\ world' = world
  BY InvProcess DEF Receive
<1>2. /\ st = "open" /\ phase = "running" /\ Loaded(file, config)
      /\ UNCHANGED <<cert, valid>> /\ outcome.status = "none" /\ outcome = Pending
  BY DEF Receive, Inv, RequestInv, RunningInv, Pending
<1>3. /\ head' \in world.heads /\ outcome'.status \in {"none", "malformed"}
      /\ \/ st' = "answered"
         \/ st' = "received" /\ snap' = config /\ snapFile' = file /\ UNCHANGED outcome
  BY <1>2 DEF Receive, Pending
<1>4. RequestInv'
  BY <1>1, <1>2, <1>3 DEF RequestInv, Loaded, Pending
<1>5. AdmissionsDeclared' /\ DeclarationsHonoured'
  BY <1>3 DEF AdmissionsDeclared, DeclarationsHonoured
<1>6. CertificatesVerified'
  BY <1>2 DEF Inv, CertificatesVerified
<1> QED BY <1>1, <1>2, <1>4, <1>5, <1>6 DEF Inv

\* The answer is the one that is declared.
LEMMA InvAnswer == Inv /\ (LockedOut \/ Deny \/ Admit) => Inv'
<1> SUFFICES ASSUME Inv, LockedOut \/ Deny \/ Admit PROVE Inv'
  OBVIOUS
<1>1. RunningInv' /\ phase' = phase /\ scenario' \in DOMAIN Scenarios /\ world' = world
  BY InvProcess DEF LockedOut, Deny, Admit
<1>2. /\ st = "received" /\ st' = "answered" /\ phase = "running"
      /\ UNCHANGED <<scenario, cert, valid, head, snap, snapFile>>
      /\ Loaded(snapFile, snap) /\ head \in world.heads /\ cert \in world.certs \cup {None}
      /\ startup.env_secret = Override(world.env)
  BY DEF LockedOut, Deny, Admit, Inv, RequestInv, RunningInv
<1>3. RequestInv' /\ CertificatesVerified'
  BY <1>1, <1>2 DEF Inv, RequestInv, CertificatesVerified
<1> DEFINE found == authenticate(snap, startup.env_secret, head, Identity)
<1>4. /\ found \subseteq Declared(snapFile)
      /\ found = {} => Declared(snapFile) = {}
      /\ AuthType(snapFile) = "mtls" => OneNamed(snapFile, found)
  BY <1>2, Authentication
<1>5. Declared(snapFile)' = Declared(snapFile) /\ Identity' = Identity
  BY <1>2, Steady
<1>6. /\ outcome'.status = "denied" => found = {}
      /\ outcome'.status = "admitted" => outcome'.role \subseteq found
  <2> HIDE DEF found
  <2>1. CASE LockedOut
    BY <2>1 DEF LockedOut, Pending
  <2>2. CASE Deny
    BY <2>2 DEF Deny, Pending, found
  <2>3. CASE Admit
    <3>1. PICK role \in found : outcome'.role = {role} /\ outcome'.status = "admitted"
      BY <2>3 DEF Admit, found
    <3> QED BY <3>1
  <2> QED BY <2>1, <2>2, <2>3
<1> HIDE DEF found
<1>7. AdmissionsDeclared'
  BY <1>4, <1>5, <1>6 DEF AdmissionsDeclared
<1>8. DeclarationsHonoured'
  <2>1. /\ AuthType(snapFile)' = AuthType(snapFile)
        /\ \A names : Fitting(snapFile, names)' = Fitting(snapFile, names)
        /\ \A entries : RolesOf(snapFile, entries)' = RolesOf(snapFile, entries)
    BY <1>2 DEF AuthType, Fitting, RolesOf
  <2> QED BY <1>4, <1>5, <1>6, <2>1 DEF DeclarationsHonoured, OneNamed
<1> QED BY <1>1, <1>2, <1>3, <1>7, <1>8 DEF Inv

\* A step that changes nothing.
LEMMA InvStutter == Inv /\ UNCHANGED vars => Inv'
<1> SUFFICES ASSUME Inv, UNCHANGED vars PROVE Inv'
  OBVIOUS
<1>1. UNCHANGED <<scenario, phase, configVars, listenerVars, connVars>>
  BY DEF vars
<1>2. RunningInv' /\ phase' = phase
  BY <1>1, InvProcess
<1> QED BY <1>1, <1>2, InvConn

LEMMA InvAlways == Spec => []Inv
<1>1. Inv /\ [Next]_vars => Inv'
  BY InvStart, InvReload, InvAccept, InvReceive, InvAnswer, InvStutter DEF Next
<1> QED BY InvInit, <1>1, PTL DEF Spec

\* For all files, environments and requests: a request is admitted only in a role
\* that the file in force when it was received, or the environment, declares for its
\* token or certificate.  authenticate() in src/main.rs works on the configuration
\* that load_from_path() made of that file.
THEOREM OnlyDeclaredAdmitted == Spec => []AdmissionsDeclared
<1>1. Inv => AdmissionsDeclared
  BY DEF Inv
<1> QED BY InvAlways, <1>1, PTL

\* For all files, environments and requests: authenticate() refuses nobody who has a
\* role declared, whatever was reloaded before, and resolve_mtls_role() gives a
\* certificate of one name the role of the first entry of the map that fits it.
THEOREM AllDeclaredAdmitted == Spec => []DeclarationsHonoured
<1>1. Inv => DeclarationsHonoured
  BY DEF Inv
<1> QED BY InvAlways, <1>1, PTL

\* However reloads and restarts of the listener interleave with connections: the
\* identity that serve_tls() hands to the handler is of a certificate issued by the
\* client CA of a file in force since the listener was bound.
THEOREM OnlyVerifiedCertificates == Spec => []CertificatesVerified
<1>1. Inv => CertificatesVerified
  BY DEF Inv
<1> QED BY InvAlways, <1>1, PTL
----------------------------------------------------------------------------
(* The types.                                                               *)

ProcessTyped ==
    /\ scenario \in DOMAIN Scenarios /\ phase \in {"starting", "running", "exited"}
    /\ reloads \in 0..MaxReloads /\ due \in BOOLEAN /\ listening \in BOOLEAN
    /\ phase = "running" => startup.socket_path \in Existing
    /\ config \in ProxyConfig
    /\ file \in world.edits \cup {world.file, Defaults} /\ since \subseteq ProxyConfig

ConnTyped ==
    /\ st \in {"closed", "open", "received", "answered"}
    /\ cert \in world.certs \cup {None}
    /\ snap \in ProxyConfig /\ valid \subseteq ProxyConfig
    /\ outcome.status \in {"none", "malformed", "locked", "denied", "admitted"}
    /\ outcome.route \in {"none", "metrics", "upgrade", "plain"}

LEMMA DefaultsTyped == Defaults \in ProxyConfig
  BY DEF Defaults, ProxyConfig, Option

\* The socket that is used exists, whichever of the three sources names it.
LEMMA SocketExists ==
  ASSUME NEW socket, NEW found \in resolve_socket_path(socket)
  PROVE  found \in Existing
<1> DEFINE tried == <<socket, Value(world.env, "DOCKER_SOCKET")>> \o Sockets
           S == {i \in DOMAIN tried : tried[i] \in Existing}
<1>1. DOMAIN tried \subseteq Nat
  <2>1. Sockets \in Seq(Text)
    BY BoundsAssumption
  <2>2. <<socket, Value(world.env, "DOCKER_SOCKET")>> \in Seq({socket, Value(world.env, "DOCKER_SOCKET")})
    OBVIOUS
  <2>3. DOMAIN tried = 1..Len(tried) /\ Len(tried) \in Nat
    BY <2>1, <2>2
  <2> QED BY <2>3
<1>2. S # {} /\ found = tried[Min(S)]
  BY DEF resolve_socket_path
<1>3. Min(S) \in S
  BY <1>1, <1>2, MinIn
<1> QED BY <1>2, <1>3

LEMMA TypedInit == Init => ProcessTyped /\ ConnTyped
<1> SUFFICES ASSUME Init PROVE ProcessTyped /\ ConnTyped
  OBVIOUS
<1>1. reloads \in 0..MaxReloads
  BY BoundsAssumption DEF Init
<1>2. ProcessTyped
  BY <1>1, DefaultsTyped DEF Init, ProcessTyped
<1>3. outcome.status = "none" /\ outcome.route = "none"
  BY DEF Init, Pending
<1>4. ConnTyped
  BY <1>3, DefaultsTyped DEF Init, ConnTyped
<1> QED BY <1>2, <1>4

LEMMA ProcessTypedNext == Inv /\ ProcessTyped /\ [Next]_vars => ProcessTyped'
<1> SUFFICES ASSUME Inv, ProcessTyped, [Next]_vars PROVE ProcessTyped'
  OBVIOUS
<1>1. CASE Start
  <2>1. /\ phase' = "running" /\ UNCHANGED <<scenario, reloads, due>> /\ world' = world
        /\ listening' = TRUE /\ since' = {file'}
    BY <1>1 DEF Start, world
  <2>2. PICK c \in load_config_from_default_path :
           /\ config' = c /\ startup'.socket_path \in resolve_socket_path(c.socket)
           /\ file' = IF Watched THEN world.file ELSE Defaults
    BY <1>1 DEF Start
  <2>3. c \in Prepared(world.env, file')
    BY <2>2 DEF load_config_from_default_path, load_from_path
  <2>4. Loaded(file', c)
    BY <2>2, <2>3, FileLoaded DEF Inv
  <2>5. c \in ProxyConfig /\ file' \in ProxyConfig
    BY <2>4, LoadedFacts DEF Loaded
  <2>6. startup'.socket_path \in Existing
    BY <2>2, SocketExists
  <2> QED BY <2>1, <2>2, <2>5, <2>6 DEF ProcessTyped
<1>2. CASE FailToStart
  BY <1>2 DEF FailToStart, ProcessTyped, configVars, listenerVars, world
<1>3. CASE Reload
  <2>1. /\ UNCHANGED <<scenario, phase, startup, listening>> /\ world' = world
        /\ reloads < MaxReloads /\ reloads' = reloads + 1
    BY <1>3 DEF Reload, world
  <2>2. reloads' \in 0..MaxReloads
    BY <2>1, BoundsAssumption DEF ProcessTyped
  <2>3. CASE UNCHANGED <<config, file, since, due>>
    BY <2>1, <2>2, <2>3 DEF ProcessTyped
  <2>4. CASE \E f \in world.edits : /\ config' \in load_from_path(world.env, f)
                                    /\ file' = f /\ since' = since \cup {f} /\ due' = TRUE
    <3>1. PICK f \in world.edits : /\ config' \in load_from_path(world.env, f)
                                   /\ file' = f /\ since' = since \cup {f} /\ due' = TRUE
      BY <2>4
    <3>2. Loaded(f, config')
      BY <3>1, FileLoaded DEF Inv, load_from_path
    <3>3. config' \in ProxyConfig /\ f \in ProxyConfig
      BY <3>2, LoadedFacts DEF Loaded
    <3> QED BY <2>1, <2>2, <3>1, <3>3 DEF ProcessTyped
  <2> QED BY <1>3, <2>3, <2>4 DEF Reload
<1>4. CASE Restart
  <2>1. /\ UNCHANGED <<scenario, phase, reloads, startup, config, file>> /\ world' = world
        /\ phase = "running"
    BY <1>4 DEF Restart, configVars, world
  <2>2. file \in ProxyConfig
    BY <2>1 DEF Inv, RunningInv, Loaded
  <2>3. due' \in BOOLEAN /\ listening' \in BOOLEAN /\ since' \subseteq ProxyConfig
    BY <1>4, <2>2 DEF Restart, ProcessTyped
  <2> QED BY <2>1, <2>3 DEF ProcessTyped
<1>5. CASE Accept \/ Receive \/ LockedOut \/ Deny \/ Admit \/ UNCHANGED vars
  <2>1. UNCHANGED <<scenario, phase, reloads, configVars, listenerVars>>
    BY <1>5 DEF Accept, Receive, LockedOut, Deny, Admit, vars
  <2> QED BY <2>1 DEF ProcessTyped, configVars, listenerVars, world
<1> QED BY <1>1, <1>2, <1>3, <1>4, <1>5 DEF Next

LEMMA ConnTypedNext == Inv /\ ProcessTyped /\ ConnTyped /\ [Next]_vars => ConnTyped'
<1> SUFFICES ASSUME Inv, ProcessTyped, ConnTyped, [Next]_vars PROVE ConnTyped'
  OBVIOUS
<1>0. UNCHANGED scenario /\ world' = world
  BY DEF Next, vars, Start, FailToStart, Reload, Restart, Accept, Receive, LockedOut, Deny,
         Admit, world
<1>1. CASE Start \/ FailToStart \/ Reload \/ Restart \/ UNCHANGED vars
  <2>1. UNCHANGED <<st, cert, snap, valid, outcome>>
    BY <1>1 DEF Start, FailToStart, Reload, Restart, vars, connVars, requestVars
  <2> QED BY <1>0, <2>1 DEF ConnTyped
<1>2. CASE Accept
  <2>1. /\ st' = "open" /\ valid' = since /\ UNCHANGED <<snap, outcome>>
        /\ cert' \in world.certs \cup {None}
    BY <1>2 DEF Accept, requestVars, Handshake
  <2> QED BY <1>0, <2>1 DEF ConnTyped, ProcessTyped
<1>3. CASE Receive
  <2>1. /\ st' \in {"received", "answered"} /\ UNCHANGED <<cert, valid>>
        /\ snap' \in {snap, config}
        /\ outcome' \in {outcome, [Pending EXCEPT !.status = "malformed"]}
    BY <1>3 DEF Receive
  <2>2. outcome'.status \in {outcome.status, "malformed"} /\ outcome'.route \in {outcome.route, "none"}
    BY <2>1 DEF Pending
  <2> QED BY <1>0, <2>1, <2>2 DEF ConnTyped, ProcessTyped
<1>4. CASE LockedOut \/ Deny \/ Admit
  <2>1. st' = "answered" /\ UNCHANGED <<cert, valid, snap>>
    BY <1>4 DEF LockedOut, Deny, Admit
  <2>2. /\ outcome'.status \in {"locked", "denied", "admitted"}
        /\ outcome'.route \in {"none", "metrics", "upgrade", "plain"}
    BY <1>4 DEF LockedOut, Deny, Admit, Pending
  <2> QED BY <1>0, <2>1, <2>2 DEF ConnTyped
<1> QED BY <1>1, <1>2, <1>3, <1>4 DEF Next

\* Every configuration in force, cloned or that of a listener is one that the types
\* of src/config.rs allow, and the proxy runs only with a socket that exists: for any
\* files and environments, whatever is reloaded.
THEOREM AccessTyped == Spec => []TypeOK
<1>1. Inv /\ [Next]_vars => Inv'
  BY InvStart, InvReload, InvAccept, InvReceive, InvAnswer, InvStutter DEF Next
<1>2. ProcessTyped /\ ConnTyped => TypeOK
  BY DEF ProcessTyped, ConnTyped, TypeOK
<1> QED BY <1>1, <1>2, InvInit, TypedInit, ProcessTypedNext, ConnTypedNext, PTL DEF Spec

----------------------------------------------------------------------------
(* The client's address.                                                    *)

LEMMA MaxIn ==
  ASSUME NEW S \in SUBSET Nat, S # {}, NEW n \in Nat, \A x \in S : x <= n
  PROVE  Max(S) \in S /\ \A y \in S : y <= Max(S)
<1> DEFINE T == {t \in Nat : n - t \in S}
<1>1. \A x \in S : n - x \in T
  <2> TAKE x \in S
  <2>1. n - x \in Nat /\ n - (n - x) = x
    OBVIOUS
  <2> QED BY <2>1
<1>2. PICK t \in T : \A u \in T : t <= u
  BY <1>1, LeastNumber
<1>3. n - t \in S
  BY <1>2
<1>4. ASSUME NEW y \in S PROVE n - t >= y
  <2>1. t \in Nat /\ y \in Nat /\ n - y \in Nat /\ t <= n - y
    BY <1>1, <1>2
  <2> QED BY <2>1
<1>5. Max(S) \in S /\ \A y \in S : Max(S) >= y
  BY <1>3, <1>4 DEF Max
<1> QED BY <1>5

\* Of the hops of a line, those that count.
Outside(hops, trusted) == {i \in DOMAIN hops : hops[i] \in Addresses \ trusted}

\* One more hop on the left does not change which is the rightmost that counts.
LEMMA ForgedOnTheLeft ==
  ASSUME NEW hops \in Text, NEW trusted, Outside(hops, trusted) # {},
         NEW more, DOMAIN more = 1..(Len(hops) + 1), \A i \in 1..Len(hops) : more[i + 1] = hops[i]
  PROVE  /\ Outside(more, trusted) # {}
         /\ more[Max(Outside(more, trusted))] = hops[Max(Outside(hops, trusted))]
<1> DEFINE n == Len(hops)
           S == Outside(hops, trusted)
           T == Outside(more, trusted)
<1>1. /\ n \in Nat /\ DOMAIN hops = 1..n /\ DOMAIN more = 1..(n + 1)
      /\ \A i \in 1..n : more[i + 1] = hops[i]
  BY DEF Text
<1> HIDE DEF n
<1>2. /\ S \in SUBSET Nat /\ T \in SUBSET Nat
      /\ (\A x \in S : x <= n) /\ (\A x \in T : x <= n + 1)
  BY <1>1 DEF Outside
<1>3. \A i \in 1..n : i \in S <=> i + 1 \in T
  BY <1>1 DEF Outside
<1>4. \A j \in T : j = 1 \/ (j - 1 \in 1..n /\ j - 1 \in S)
  <2> SUFFICES ASSUME NEW j \in T, j # 1 PROVE j - 1 \in 1..n /\ j - 1 \in S
    OBVIOUS
  <2>1. j \in 1..(n + 1)
    BY <1>1 DEF Outside
  <2>2. j - 1 \in 1..n /\ (j - 1) + 1 = j
    BY <1>1, <2>1
  <2> QED BY <1>3, <2>2
<1> DEFINE m == Max(S)
           k == Max(T)
<1>5. m \in S /\ m \in 1..n /\ \A y \in S : y <= m
  BY <1>1, <1>2, MaxIn DEF Outside
<1>6. m + 1 \in T
  BY <1>3, <1>5
<1>7. k \in T /\ \A y \in T : y <= k
  <2>1. n + 1 \in Nat
    BY <1>1
  <2> QED BY <1>2, <1>6, <2>1, MaxIn
<1> HIDE DEF m, k, S, T
<1>8. k = m + 1
  <2>1. k \in Nat /\ m \in Nat /\ m + 1 <= k /\ m >= 1
    BY <1>1, <1>2, <1>5, <1>6, <1>7
  <2>2. k - 1 \in S
    BY <1>4, <1>7, <2>1
  <2>3. k - 1 <= m
    BY <1>5, <2>2
  <2> QED BY <2>1, <2>3
<1>9. more[k] = hops[m]
  BY <1>1, <1>5, <1>8
<1> QED BY <1>6, <1>9 DEF m, k, S, T

\* The list of trusted proxies is taken over as it is.
LEMMA TrustedKept ==
  ASSUME NEW f, NEW c, Loaded(f, c)
  PROVE  c.trusted = f.trusted
<1> DEFINE env == world.env
           r == resolve_env_vars(env, f)
<1>1. f \in ProxyConfig /\ c \in Prepared(env, f)
  BY DEF Loaded
<1> HIDE DEF env
<1>2. /\ DOMAIN r = DOMAIN f /\ r.trusted = f.trusted
  <2>1. CASE f.auth = None
    BY <2>1 DEF resolve_env_vars
  <2>2. CASE f.auth # None
    <3>1. \E a : r = [f EXCEPT !.auth = a]
      BY <1>1, <2>2 DEF resolve_env_vars, ProxyConfig
    <3> QED BY <1>1, <3>1 DEF ProxyConfig
  <2> QED BY <2>1, <2>2
<1>3. "trusted" \in DOMAIN f
  BY <1>1 DEF ProxyConfig
<1> HIDE DEF r
<1>4. \E port, socket, auth : c = [r EXCEPT !.port = port, !.socket = socket, !.auth = auth]
  BY <1>1 DEF Prepared, apply_env_overrides, r
<1> QED BY <1>2, <1>3, <1>4

\* What a client may write into X-Forwarded-For.
LEMMA ClientAddress ==
  ASSUME scenario \in DOMAIN Scenarios, NEW h \in world.heads, NEW trusted
  PROVE  LET hops == First(h.forwarded_for)
             ip == compute_client_ip(h.peer, h, trusted)
             Forged(hop) == [h EXCEPT !.forwarded_for[1] = <<hop>> \o @]
         IN /\ h.peer \notin trusted => ip = h.peer
            /\ Range(hops) \cap (Addresses \ trusted) # {} =>
                  \A hop \in Addresses : ip = compute_client_ip(h.peer, Forged(hop), trusted)
<1>1. /\ {"real_ip", "forwarded", "forwarded_for"} \subseteq DOMAIN h
      /\ h.forwarded_for \in Seq(Text)
  <2> DEFINE A == Seq(Text)
             B == Seq(Seq(Text))
             C == Seq(Strings \X Text)
  <2>1. h \in [path : Text, method : Strings, peer : Strings, query : BOOLEAN,
               authorization : C, real_ip : A, forwarded_for : A, forwarded : B,
               connection : A, upgrade : Text]
    BY ScenariosAssumption DEF world
  <2> HIDE DEF A, B, C
  <2>2. {"real_ip", "forwarded", "forwarded_for"} \subseteq DOMAIN h /\ h.forwarded_for \in A
    BY <2>1
  <2> QED BY <2>2 DEF A
<1>2. h.peer \notin trusted => compute_client_ip(h.peer, h, trusted) = h.peer
  BY DEF compute_client_ip
<1>3. ASSUME Range(First(h.forwarded_for)) \cap (Addresses \ trusted) # {}, NEW hop \in Addresses
      PROVE  compute_client_ip(h.peer, h, trusted)
               = compute_client_ip(h.peer, [h EXCEPT !.forwarded_for[1] = <<hop>> \o @], trusted)
  <2> DEFINE hops == First(h.forwarded_for)
             g == [h EXCEPT !.forwarded_for[1] = <<hop>> \o @]
             more == <<hop>> \o hops
  <2>1. h.forwarded_for # <<>>
    BY <1>3 DEF First, Range
  <2>2. hops = h.forwarded_for[1] /\ hops \in Text /\ 1 \in DOMAIN h.forwarded_for
    BY <1>1, <2>1 DEF First
  <2>3. /\ g.real_ip = h.real_ip /\ g.forwarded = h.forwarded
        /\ g.forwarded_for = [h.forwarded_for EXCEPT ![1] = more]
    BY <1>1, <2>2
  <2>4. First(g.forwarded_for) = more
    <3> DEFINE lines == [h.forwarded_for EXCEPT ![1] = more]
    <3>1. lines # <<>> /\ Head(lines) = lines[1] /\ lines[1] = more
      BY <1>1, <2>1, <2>2
    <3> QED BY <2>3, <3>1 DEF First
  <2>5. Outside(hops, trusted) # {}
    BY <1>3 DEF Outside, Range
  <2>6. DOMAIN more = 1..(Len(hops) + 1) /\ \A i \in 1..Len(hops) : more[i + 1] = hops[i]
    BY <2>2 DEF Text
  <2> HIDE DEF hops, more, g
  <2>7. /\ Outside(more, trusted) # {}
        /\ more[Max(Outside(more, trusted))] = hops[Max(Outside(hops, trusted))]
    BY <2>2, <2>5, <2>6, ForgedOnTheLeft
  <2> DEFINE real == First(h.real_ip)
             answer == CASE h.peer \notin trusted -> h.peer
                         [] h.peer \in trusted /\ Len(real) = 1 /\ real[1] \in Addresses -> real[1]
                         [] OTHER -> hops[Max(Outside(hops, trusted))]
  <2>8. compute_client_ip(h.peer, h, trusted) = answer
    BY <2>5 DEF compute_client_ip, Outside, hops
  <2>9. compute_client_ip(h.peer, g, trusted) = answer
    <3>1. compute_client_ip(h.peer, g, trusted)
             = CASE h.peer \notin trusted -> h.peer
                 [] h.peer \in trusted /\ Len(real) = 1 /\ real[1] \in Addresses -> real[1]
                 [] OTHER -> more[Max(Outside(more, trusted))]
      BY <2>3, <2>4, <2>7 DEF compute_client_ip, Outside
    <3> QED BY <2>7, <3>1
  <2> QED BY <2>8, <2>9 DEF g
<1> QED BY <1>2, <1>3

\* A request that was admitted keeps what was decided about it.
LEMMA Admitted ==
  ASSUME Inv, [Next]_vars, outcome'.status = "admitted"
  PROVE  \/ UNCHANGED <<scenario, outcome, head, snapFile>>
         \/ Admit
<1>1. CASE Start \/ FailToStart \/ Reload \/ Restart \/ UNCHANGED vars
  BY <1>1 DEF Start, FailToStart, Reload, Restart, vars, connVars, requestVars
<1>2. CASE Accept
  BY <1>2 DEF Accept, requestVars
<1>3. CASE Receive
  <2>1. outcome = Pending
    BY <1>3 DEF Receive, Inv, RequestInv
  <2>2. outcome' \in {Pending, [Pending EXCEPT !.status = "malformed"]}
    BY <1>3, <2>1 DEF Receive
  <2> QED BY <2>2 DEF Pending
<1>4. CASE LockedOut \/ Deny
  BY <1>4 DEF LockedOut, Deny, Pending
<1> QED BY <1>1, <1>2, <1>3, <1>4 DEF Next

LEMMA HopsNext == Inv /\ ForgedHopsIgnored /\ [Next]_vars => ForgedHopsIgnored'
<1> SUFFICES ASSUME Inv, ForgedHopsIgnored, [Next]_vars, outcome'.status = "admitted"
             PROVE  ForgedHopsIgnored'
  BY DEF ForgedHopsIgnored
<1>1. CASE UNCHANGED <<scenario, outcome, head, snapFile>>
  BY <1>1 DEF ForgedHopsIgnored
<1>2. CASE Admit
  <2> DEFINE trusted == parse_trusted_proxies(snapFile.trusted)
  <2>1. /\ UNCHANGED <<head, snapFile>>
        /\ head \in world.heads /\ scenario \in DOMAIN Scenarios /\ Loaded(snapFile, snap)
    BY <1>2 DEF Admit, Inv, RequestInv
  <2>2. outcome'.ip = compute_client_ip(head.peer, head, parse_trusted_proxies(snap.trusted))
    BY <1>2 DEF Admit
  <2>3. snap.trusted = snapFile.trusted
    BY <2>1, TrustedKept
  <2>4. outcome'.ip = compute_client_ip(head.peer, head, trusted)
    BY <2>2, <2>3
  <2> HIDE DEF trusted
  <2>5. /\ head.peer \notin trusted => outcome'.ip = head.peer
        /\ Range(First(head.forwarded_for)) \cap (Addresses \ trusted) # {} =>
              \A hop \in Addresses :
                  outcome'.ip = compute_client_ip(head.peer,
                                    [head EXCEPT !.forwarded_for[1] = <<hop>> \o @], trusted)
    BY <2>1, <2>4, ClientAddress
  <2> QED BY <2>1, <2>5 DEF ForgedHopsIgnored, trusted
<1> QED BY <1>1, <1>2, Admitted

\* For any trusted proxies and any headers: the client's address that the rules and
\* the limiters see is the peer's own unless the peer is trusted, and
\* compute_client_ip() in src/main.rs never sees past the rightmost hop that is not.
THEOREM ForgedHopsNeverCount == Spec => []ForgedHopsIgnored
<1>1. Init => ForgedHopsIgnored
  BY DEF Init, Pending, ForgedHopsIgnored
<1> QED BY <1>1, InvAlways, HopsNext, PTL DEF Spec

----------------------------------------------------------------------------
(* Paths: what the loop over the segments makes of a path, symbol by symbol. *)

Unread == [segments |-> <<>>, rest |-> <<>>]

\* The loop, as an equation.
AreScanned(p, n, g) ==
    g = [i \in 0..n |-> IF i = 0 THEN Unread ELSE Read(g[i - 1], p[i])]

LEMMA ScanIs ==
    ASSUME NEW p, Len(p) \in Nat
    PROVE  /\ Scan(p)[0] = Unread
           /\ \A i \in 1..Len(p) : Scan(p)[i] = Read(Scan(p)[i - 1], p[i])
  <1> DEFINE Good == {n \in Nat : \E g : AreScanned(p, n, g)}
  <1>1. 0 \in Good
    <2>1. AreScanned(p, 0, [i \in 0..0 |-> Unread])
      BY DEF AreScanned
    <2> QED
      BY <2>1
  <1>2. ASSUME NEW n \in Nat, n \in Good PROVE n + 1 \in Good
    <2>1. PICK g : AreScanned(p, n, g)
      BY <1>2
    <2> DEFINE Last1 == Read(g[n], p[n + 1])
               h == [i \in 0..(n + 1) |-> IF i = n + 1 THEN Last1 ELSE g[i]]
    <2> HIDE DEF Last1
    <2>2. /\ \A i \in 0..(n + 1) : i = n + 1 \/ i \in 0..n
          /\ \A i \in 0..n : i # n + 1 /\ i \in 0..(n + 1)
          /\ \A i \in 0..n : i # 0 => i - 1 \in 0..n
          /\ n + 1 - 1 = n /\ n + 1 # 0
      OBVIOUS
    <2>3. \A i \in 0..n : h[i] = g[i]
      BY <2>2
    <2>4. \A i \in 0..n : h[i] = IF i = 0 THEN Unread ELSE Read(h[i - 1], p[i])
      <3> HIDE DEF h
      <3> TAKE i \in 0..n
      <3>1. g[i] = IF i = 0 THEN Unread ELSE Read(g[i - 1], p[i])
        BY <2>1, Zenon DEF AreScanned
      <3> QED
        BY <2>2, <2>3, <3>1, Zenon
    <2>5. h[n + 1] = Read(h[n + 1 - 1], p[n + 1])
      BY <2>2, <2>3 DEF Last1
    <2>6. AreScanned(p, n + 1, h)
      <3>1. h = [i \in 0..(n + 1) |-> h[i]]
        OBVIOUS
      <3> HIDE DEF h
      <3>2. \A i \in 0..(n + 1) :
               h[i] = IF i = 0 THEN Unread ELSE Read(h[i - 1], p[i])
        <4> TAKE i \in 0..(n + 1)
        <4>1. CASE i = n + 1
          BY <2>2, <2>5, <4>1
        <4>2. CASE i \in 0..n
          BY <2>4, <4>2, Zenon
        <4> QED
          BY <2>2, <4>1, <4>2, Zenon
      <3> QED
        BY <3>1, <3>2, Zenon DEF AreScanned
    <2> QED
      BY <2>6
  <1>3. PICK g : AreScanned(p, Len(p), g)
    <2> HIDE DEF Good
    <2>1. Nat \subseteq Good
      BY <1>1, <1>2, NumbersByInduction
    <2> QED
      BY <2>1 DEF Good
  <1>4. Scan(p) = CHOOSE g2 : AreScanned(p, Len(p), g2)
    BY Zenon DEF Scan, AreScanned, Unread
  <1>5. AreScanned(p, Len(p), Scan(p))
    BY <1>3, <1>4, Zenon
  <1>6. 0 \in 0..Len(p) /\ \A i \in 1..Len(p) : i \in 0..Len(p) /\ i # 0
    OBVIOUS
  <1> DEFINE w == Scan(p)
  <1>7. w = [i \in 0..Len(p) |-> IF i = 0 THEN Unread ELSE Read(w[i - 1], p[i])]
    BY <1>5, Zenon DEF AreScanned
  <1> HIDE DEF w
  <1>8. \A i \in 0..Len(p) : w[i] = IF i = 0 THEN Unread ELSE Read(w[i - 1], p[i])
    BY <1>7, Zenon
  <1>9. w[0] = Unread /\ \A i \in 1..Len(p) : w[i] = Read(w[i - 1], p[i])
    BY <1>6, <1>8, Zenon
  <1> QED
    BY <1>9, Zenon DEF w

\* Where the loop is at the end of a path.
State(p) == Scan(p)[Len(p)]

\* It depends on the path before it only.
LEMMA StateAppend ==
    ASSUME NEW S, NEW p \in Seq(S), NEW c \in S
    PROVE  State(<<>>) = Unread /\ State(Append(p, c)) = Read(State(p), c)
  <1> DEFINE n == Len(p)
             q == Append(p, c)
             f == Scan(p)
             g == Scan(q)
             Good == {i \in Nat : i <= n => f[i] = g[i]}
  <1>1. n \in Nat /\ Len(q) = n + 1 /\ q[n + 1] = c /\ \A i \in 1..n : q[i] = p[i]
    OBVIOUS
  <1> HIDE DEF n, q
  <1>2. f[0] = Unread /\ \A i \in 1..n : f[i] = Read(f[i - 1], p[i])
    BY <1>1, ScanIs DEF n
  <1>3. g[0] = Unread /\ \A i \in 1..(n + 1) : g[i] = Read(g[i - 1], q[i])
    BY <1>1, ScanIs
  <1>4. State(<<>>) = Unread
    <2>1. Len(<<>>) = 0
      OBVIOUS
    <2> QED
      BY <2>1, ScanIs DEF State
  <1> HIDE DEF f, g
  <1>5. 0 \in Good
    BY <1>2, <1>3
  <1>6. ASSUME NEW i \in Nat, i \in Good PROVE i + 1 \in Good
    <2> SUFFICES ASSUME i + 1 <= n PROVE f[i + 1] = g[i + 1]
      OBVIOUS
    <2> DEFINE e == i + 1
    <2>1. e \in 1..n /\ e \in 1..(n + 1) /\ e - 1 = i /\ i <= n
      BY <1>1
    <2> HIDE DEF e
    <2>2. f[e] = Read(f[i], p[e]) /\ g[e] = Read(g[i], p[e])
      BY <1>1, <1>2, <1>3, <2>1
    <2> QED
      BY <1>6, <2>1, <2>2 DEF e
  <1>7. Nat \subseteq Good
    <2> HIDE DEF Good
    <2> QED
      BY <1>5, <1>6, NumbersByInduction
  <1>8. f[n] = g[n]
    BY <1>1, <1>7
  <1>9. g[n + 1] = Read(g[n], c)
    <2>1. n + 1 \in 1..(n + 1) /\ n + 1 - 1 = n
      BY <1>1
    <2> QED
      BY <1>1, <1>3, <2>1
  <1> QED
    BY <1>1, <1>4, <1>8, <1>9 DEF State, f, g, q, n

\* Segments, each behind a slash.
Slashed(segments) == FlattenSeq([i \in DOMAIN segments |-> <<"/">> \o segments[i]])

LEMMA FlatFor ==
    ASSUME NEW seqs, Len(seqs) \in Nat, Len(seqs) # 0
    PROVE  \E g : /\ FlattenSeq(seqs) = g[Len(seqs)] /\ g[1] = seqs[1]
                  /\ \A i \in 1..Len(seqs) : i # 1 => g[i] = g[i - 1] \o seqs[i]
  <1> DEFINE n == Len(seqs)
             g == CHOOSE g2 : AreFlat(seqs, n, g2)
  <1>1. FlattenSeq(seqs) = IF n = 0 THEN seqs ELSE g[n]
    BY Zenon DEF FlattenSeq, AreFlat
  <1>2. n \in Nat /\ n # 0 /\ 1 \in 1..n
    OBVIOUS
  <1> HIDE DEF n
  <1>3. AreFlat(seqs, n, g)
    BY <1>2, FlatExists
  <1> HIDE DEF g
  <1>4. \A i \in 1..n : g[i] = IF i = 1 THEN seqs[i] ELSE g[i - 1] \o seqs[i]
    <2>1. g = [i \in 1..n |-> IF i = 1 THEN seqs[i] ELSE g[i - 1] \o seqs[i]]
      BY <1>3, Zenon DEF AreFlat
    <2> QED
      BY <2>1, Zenon
  <1>5. /\ FlattenSeq(seqs) = g[n] /\ g[1] = seqs[1]
        /\ \A i \in 1..n : i # 1 => g[i] = g[i - 1] \o seqs[i]
    BY <1>1, <1>2, <1>4, Zenon
  <1> QED
    BY <1>5, Zenon DEF n

\* One more sequence at the end of those that are put together.
LEMMA FlattenAppend ==
    ASSUME NEW S, NEW seqs \in Seq(Seq(S)), NEW x \in Seq(S)
    PROVE  FlattenSeq(<<>>) = <<>> /\ FlattenSeq(Append(seqs, x)) = FlattenSeq(seqs) \o x
  <1> DEFINE n == Len(seqs)
             more == Append(seqs, x)
  <1>1. /\ n \in Nat /\ Len(more) = n + 1 /\ more[n + 1] = x
        /\ \A i \in 1..n : more[i] = seqs[i]
    OBVIOUS
  <1>2. \A empty : Len(empty) = 0 => FlattenSeq(empty) = empty
    BY DEF FlattenSeq
  <1>3. FlattenSeq(<<>>) = <<>>
    BY <1>2
  <1>4. PICK g : /\ FlattenSeq(more) = g[n + 1] /\ g[1] = more[1]
                 /\ \A i \in 1..(n + 1) : i # 1 => g[i] = g[i - 1] \o more[i]
    <2>1. Len(more) \in Nat /\ Len(more) # 0
      BY <1>1
    <2> HIDE DEF more
    <2>2. \E g : /\ FlattenSeq(more) = g[Len(more)] /\ g[1] = more[1]
                 /\ \A i \in 1..Len(more) : i # 1 => g[i] = g[i - 1] \o more[i]
      BY <2>1, FlatFor
    <2> QED
      BY <1>1, <2>2
  <1>5. CASE n = 0
    <2>1. seqs = <<>> /\ g[1] = x /\ n + 1 = 1
      BY <1>1, <1>4, <1>5
    <2>2. <<>> \o x = x
      OBVIOUS
    <2> QED
      BY <1>3, <1>4, <2>1, <2>2
  <1>6. CASE n # 0
    <2>1. PICK f : /\ FlattenSeq(seqs) = f[n] /\ f[1] = seqs[1]
                   /\ \A i \in 1..n : i # 1 => f[i] = f[i - 1] \o seqs[i]
      BY <1>1, <1>6, FlatFor
    <2> HIDE DEF n, more
    <2> DEFINE Good == {i \in Nat : i + 1 <= n => f[i + 1] = g[i + 1]}
    <2>2. 0 \in Good
      <3>1. 1 \in 1..n
        BY <1>1, <1>6
      <3> QED
        BY <1>1, <1>4, <2>1, <3>1
    <2>3. ASSUME NEW i \in Nat, i \in Good PROVE i + 1 \in Good
      <3> SUFFICES ASSUME i + 1 + 1 <= n PROVE f[i + 1 + 1] = g[i + 1 + 1]
        OBVIOUS
      <3> DEFINE e == i + 1 + 1
                 d == i + 1
      <3>1. e \in 1..n /\ e \in 1..(n + 1) /\ e # 1 /\ e - 1 = d /\ d <= n
        BY <1>1
      <3>2. f[d] = g[d]
        BY <2>3, <3>1
      <3> HIDE DEF e, d
      <3>3. f[e] = f[d] \o seqs[e] /\ g[e] = g[d] \o seqs[e]
        BY <1>1, <1>4, <2>1, <3>1
      <3> QED
        BY <3>2, <3>3 DEF e
    <2>4. Nat \subseteq Good
      <3> HIDE DEF Good
      <3> QED
        BY <2>2, <2>3, NumbersByInduction
    <2>5. f[n] = g[n]
      <3>1. n - 1 \in Nat /\ n - 1 + 1 = n /\ n <= n
        BY <1>1, <1>6
      <3> QED
        BY <2>4, <3>1
    <2>6. g[n + 1] = g[n] \o x
      <3> DEFINE e == n + 1
      <3>1. e \in 1..(n + 1) /\ e # 1 /\ e - 1 = n /\ more[e] = x
        BY <1>1, <1>6, SMTT(30)
      <3> HIDE DEF e
      <3> QED
        BY <1>4, <3>1 DEF e
    <2> QED
      BY <1>3, <1>4, <2>1, <2>5, <2>6 DEF more
  <1> QED
    BY <1>5, <1>6

LEMMA SlashedAppend ==
    ASSUME NEW S, "/" \in S, NEW segments \in Seq(Seq(S)), NEW x \in Seq(S)
    PROVE  /\ Slashed(<<>>) = <<>>
           /\ Slashed(Append(segments, x)) = Slashed(segments) \o (<<"/">> \o x)
  <1> DEFINE Each(s) == [i \in DOMAIN s |-> <<"/">> \o s[i]]
             y == <<"/">> \o x
  <1>1. y \in Seq(S)
    OBVIOUS
  <1>2. Each(segments) \in Seq(Seq(S))
    <2>1. /\ Len(segments) \in Nat /\ DOMAIN segments = 1..Len(segments)
          /\ \A i \in DOMAIN segments : <<"/">> \o segments[i] \in Seq(S)
      OBVIOUS
    <2> QED
      BY <2>1
  <1>3. Each(<<>>) = <<>>
    OBVIOUS
  <1>4. Each(Append(segments, x)) = Append(Each(segments), y)
    <2> DEFINE n == Len(segments)
               more == Append(segments, x)
               left == Each(more)
               right == Append(Each(segments), y)
    <2>1. /\ n \in Nat /\ DOMAIN segments = 1..n /\ DOMAIN more = 1..(n + 1) /\ more[n + 1] = x
          /\ \A i \in 1..n : more[i] = segments[i]
      OBVIOUS
    <2>2. left = [i \in 1..(n + 1) |-> <<"/">> \o more[i]]
      BY <2>1
    <2>3. Len(Each(segments)) = n /\ DOMAIN Each(segments) = 1..n
      BY <1>2, <2>1
    <2>4. /\ DOMAIN right = 1..(n + 1) /\ right[n + 1] = y
          /\ \A i \in 1..n : right[i] = Each(segments)[i]
          /\ right = [i \in 1..(n + 1) |-> right[i]]
      BY <1>1, <1>2, <2>3, SMTT(30)
    <2>5. \A i \in 1..n : Each(segments)[i] = <<"/">> \o segments[i]
      BY <2>1
    <2> HIDE DEF more, right, left, n, Each
    <2>6. \A i \in 1..(n + 1) : right[i] = <<"/">> \o more[i]
      <3> TAKE i \in 1..(n + 1)
      <3>1. CASE i = n + 1
        BY <2>1, <2>4, <3>1
      <3>2. CASE i # n + 1
        <4>1. i \in 1..n
          BY <2>1, <3>2
        <4> QED
          BY <2>1, <2>4, <2>5, <4>1
      <3> QED
        BY <3>1, <3>2
    <2>7. left = right
      BY <2>2, <2>4, <2>6
    <2> QED
      BY <2>7 DEF left, right, more
  <1>5. /\ FlattenSeq(<<>>) = <<>>
        /\ FlattenSeq(Append(Each(segments), y)) = FlattenSeq(Each(segments)) \o y
    <2> HIDE DEF Each, y
    <2> QED
      BY <1>1, <1>2, FlattenAppend
  <1>6. \A s : Slashed(s) = FlattenSeq(Each(s))
    BY DEF Slashed
  <1> HIDE DEF Each, y
  <1> QED
    BY <1>3, <1>4, <1>5, <1>6 DEF y

\* Putting segments together gives symbols of the segments and slashes.
LEMMA SlashedTyped ==
    ASSUME NEW S, "/" \in S
    PROVE  \A segments \in Seq(Seq(S)) : Slashed(segments) \in Seq(S)
  <1> DEFINE P == {s \in Seq(Seq(S)) : Slashed(s) \in Seq(S)}
  <1>1. <<>> \in P
    <2>1. <<>> \in Seq(Seq(S)) /\ <<>> \in Seq(S)
      OBVIOUS
    <2>2. Slashed(<<>>) = <<>>
      BY <2>1, SlashedAppend
    <2> QED
      BY <2>1, <2>2
  <1>2. ASSUME NEW s \in Seq(Seq(S)), NEW x \in Seq(S), s \in P PROVE Append(s, x) \in P
    <2>1. Slashed(Append(s, x)) = Slashed(s) \o (<<"/">> \o x)
      BY SlashedAppend
    <2>2. Append(s, x) \in Seq(Seq(S)) /\ Slashed(s) \in Seq(S) /\ <<"/">> \o x \in Seq(S)
      BY <1>2
    <2>3. \A a, b \in Seq(S) : a \o b \in Seq(S)
      OBVIOUS
    <2>4. Slashed(Append(s, x)) \in Seq(S)
      BY <2>1, <2>2, <2>3, Zenon
    <2> QED
      BY <2>2, <2>4
  <1> HIDE DEF P
  <1>3. Seq(Seq(S)) \subseteq P
    BY <1>1, <1>2, SequencesByInduction
  <1> QED
    BY <1>3 DEF P

\* Segments that are in no need of resolving.
CleanSegments(S) == {s \in Seq(S \ {"/"}) : s \notin {<<>>, <<".">>, <<".", ".">>}}

LEMMA CleanTyped ==
    ASSUME NEW S
    PROVE  CleanSegments(S) \subseteq Seq(S) /\ Seq(CleanSegments(S)) \subseteq Seq(Seq(S))
  <1>1. CleanSegments(S) \subseteq Seq(S)
    BY DEF CleanSegments
  <1> HIDE DEF CleanSegments
  <1> QED
    BY <1>1

LEMMA PushFacts ==
    ASSUME NEW S, "/" \in S, NEW segments \in Seq(CleanSegments(S)), NEW x \in Seq(S \ {"/"})
    PROVE  /\ Push(segments, x) \in Seq(CleanSegments(S))
           /\ Len(Slashed(Push(segments, x))) <= Len(Slashed(segments)) + Len(x) + 1
           /\ x \in CleanSegments(S) => Push(segments, x) = Append(segments, x)
           /\ x = <<>> => Push(segments, x) = segments
  <1>1. segments \in Seq(Seq(S)) /\ x \in Seq(S) /\ Slashed(segments) \in Seq(S)
    BY CleanTyped, SlashedTyped
  <1>2. Len(Slashed(segments)) \in Nat /\ Len(x) \in Nat
    BY <1>1
  <1>3. x \in {<<>>, <<".">>} => Push(segments, x) = segments /\ x \notin CleanSegments(S)
    <2>1. x \in {<<>>, <<".">>} => x # <<".", ".">>
      OBVIOUS
    <2>2. x \in {<<>>, <<".">>} => Push(segments, x) = segments
      BY <2>1, Zenon DEF Push
    <2> QED
      BY <2>2, Zenon DEF CleanSegments
  <1>4. CASE x \in {<<>>, <<".">>}
    BY <1>2, <1>3, <1>4
  <1>5. CASE x = <<".", ".">>
    <2>1. x \notin {<<>>, <<".">>} /\ x # <<>> /\ x \notin CleanSegments(S)
      BY <1>5 DEF CleanSegments
    <2>2. Push(segments, x) = IF segments = <<>> THEN segments ELSE Front(segments)
      BY <1>5, <2>1 DEF Push
    <2>3. CASE segments = <<>>
      BY <1>2, <2>1, <2>2, <2>3
    <2>4. CASE segments # <<>>
      <3> DEFINE f == Front(segments)
                 l == segments[Len(segments)]
      <3>1. f \in Seq(CleanSegments(S)) /\ l \in CleanSegments(S) /\ segments = Append(f, l)
        BY <2>4 DEF Front
      <3> HIDE DEF f, l
      <3>2. f \in Seq(Seq(S)) /\ l \in Seq(S) /\ Slashed(f) \in Seq(S)
        BY <3>1, CleanTyped, SlashedTyped
      <3>3. Slashed(segments) = Slashed(f) \o (<<"/">> \o l)
        BY <3>1, <3>2, SlashedAppend
      <3>4. \A a, b \in Seq(S) : Len(a) \in Nat /\ Len(a) <= Len(a \o b)
        OBVIOUS
      <3>5. <<"/">> \o l \in Seq(S)
        BY <3>2
      <3>6. Len(Slashed(f)) \in Nat /\ Len(Slashed(f)) <= Len(Slashed(segments))
        BY <3>2, <3>3, <3>4, <3>5, Zenon
      <3>7. Push(segments, x) = f
        BY <2>2, <2>4 DEF f
      <3> QED
        BY <1>2, <2>1, <3>1, <3>6, <3>7
    <2> QED
      BY <2>3, <2>4
  <1>6. CASE x \notin {<<>>, <<".">>} /\ x # <<".", ".">>
    <2>1. Push(segments, x) = Append(segments, x) /\ x \in CleanSegments(S) /\ x # <<>>
      BY <1>6 DEF Push, CleanSegments
    <2>2. Append(segments, x) \in Seq(CleanSegments(S))
      BY <2>1
    <2>3. Slashed(Append(segments, x)) = Slashed(segments) \o (<<"/">> \o x)
      BY <1>1, SlashedAppend
    <2>4. \A a, b \in Seq(S) : Len(a \o (<<"/">> \o b)) = Len(a) + Len(b) + 1
      OBVIOUS
    <2>5. Len(Slashed(Push(segments, x))) = Len(Slashed(segments)) + Len(x) + 1
      BY <1>1, <2>1, <2>3, <2>4
    <2> QED
      BY <1>2, <2>1, <2>2, <2>5
  <1> QED
    BY <1>4, <1>5, <1>6

Scans(S) == [segments : Seq(CleanSegments(S)), rest : Seq(S \ {"/"})]

\* The segments so far are clean, and shorter than what was read.
Scanned(S, p) ==
    /\ State(p) \in Scans(S)
    /\ p # <<>> /\ p[1] = "/" => Len(Slashed(State(p).segments)) + Len(State(p).rest) + 1 <= Len(p)
    /\ p # <<>> /\ p[Len(p)] = "/" => State(p).rest = <<>>

LEMMA StateFacts ==
    ASSUME NEW S, "/" \in S
    PROVE  \A p \in Seq(S) : Scanned(S, p)
  <1> DEFINE P == {p \in Seq(S) : Scanned(S, p)}
  <1>1. <<>> \in P
    <2>1. <<>> \in Seq(S)
      OBVIOUS
    <2>2. State(<<>>) = Unread
      BY <2>1, StateAppend
    <2>3. Unread \in Scans(S)
      BY DEF Unread, Scans
    <2> QED
      BY <2>1, <2>2, <2>3 DEF Scanned
  <1>2. ASSUME NEW p \in Seq(S), NEW c \in S, p \in P PROVE Append(p, c) \in P
    <2> DEFINE q == Append(p, c)
               old == State(p)
               new == State(q)
    <2>1. new = Read(old, c)
      BY StateAppend
    <2>2. /\ q \in Seq(S) /\ q # <<>> /\ Len(p) \in Nat /\ Len(q) = Len(p) + 1 /\ q[Len(q)] = c
          /\ p = <<>> => q[1] = c /\ Len(p) = 0
          /\ p # <<>> => q[1] = p[1]
      OBVIOUS
    <2>3. Scanned(S, p) /\ old \in Scans(S) /\ (p = <<>> => old = Unread)
      BY <1>2, StateAppend DEF Scanned
    <2>4. /\ old.segments \in Seq(CleanSegments(S)) /\ old.rest \in Seq(S \ {"/"})
          /\ Slashed(old.segments) \in Seq(S)
      BY <2>3, CleanTyped, SlashedTyped DEF Scans
    <2>5. Len(Slashed(old.segments)) \in Nat /\ Len(old.rest) \in Nat
      BY <2>4
    <2>6. CASE c = "/"
      <3> DEFINE pushed == Push(old.segments, old.rest)
      <3>1. new = [segments |-> pushed, rest |-> <<>>]
        BY <2>1, <2>6 DEF Read
      <3>2. /\ pushed \in Seq(CleanSegments(S))
            /\ Len(Slashed(pushed)) <= Len(Slashed(old.segments)) + Len(old.rest) + 1
        BY <2>4, PushFacts
      <3>3. Len(Slashed(pushed)) \in Nat
        BY <3>2, CleanTyped, SlashedTyped
      <3>4. p = <<>> => Len(Slashed(pushed)) = 0
        <4>1. Push(<<>>, <<>>) = <<>>
          BY DEF Push
        <4>2. Slashed(<<>>) = <<>>
          <5>1. <<>> \in Seq(Seq(S)) /\ <<>> \in Seq(S)
            OBVIOUS
          <5> QED
            BY <5>1, SlashedAppend
        <4> QED
          BY <2>3, <4>1, <4>2 DEF Unread
      <3>5. p # <<>> /\ p[1] = "/" => Len(Slashed(old.segments)) + Len(old.rest) + 1 <= Len(p)
        BY <2>3 DEF Scanned
      <3> HIDE DEF pushed, q, old, new
      <3>6. new.segments = pushed /\ new.rest = <<>> /\ Len(new.rest) = 0 /\ new \in Scans(S)
        BY <3>1, <3>2 DEF Scans
      <3>7. q[1] = "/" => Len(Slashed(new.segments)) + Len(new.rest) + 1 <= Len(q)
        <4>1. CASE p = <<>>
          <5>1. Len(q) = 1
            BY <2>2, <4>1
          <5>2. Len(Slashed(new.segments)) = 0 /\ Len(new.rest) = 0
            BY <3>4, <3>6, <4>1
          <5> QED
            BY <5>1, <5>2
        <4>2. CASE p # <<>>
          <5> DEFINE a == Len(Slashed(old.segments))
                     b == Len(old.rest)
                     m == Len(p)
                     d == Len(Slashed(new.segments))
          <5>1. a \in Nat /\ b \in Nat /\ m \in Nat /\ d \in Nat
            BY <2>2, <2>5, <3>3, <3>6
          <5>2. d <= a + b + 1 /\ Len(new.rest) = 0 /\ Len(q) = m + 1
            BY <2>2, <3>2, <3>6
          <5>3. q[1] = "/" => a + b + 1 <= m
            BY <2>2, <3>5, <4>2
          <5> HIDE DEF a, b, m, d
          <5>4. q[1] = "/" => d + 0 + 1 <= m + 1
            BY <5>1, <5>2, <5>3
          <5> QED
            BY <5>2, <5>4 DEF d
        <4> QED
          BY <4>1, <4>2
      <3> QED
        BY <2>2, <3>6, <3>7 DEF Scanned, q, new
    <2>7. CASE c # "/"
      <3> DEFINE r == Append(old.rest, c)
      <3>1. new = [old EXCEPT !.rest = r]
        BY <2>1, <2>7 DEF Read
      <3>2. r \in Seq(S \ {"/"}) /\ Len(r) = Len(old.rest) + 1
        BY <2>4, <2>7
      <3>3. p # <<>> /\ p[1] = "/" => Len(Slashed(old.segments)) + Len(old.rest) + 1 <= Len(p)
        BY <2>3 DEF Scanned
      <3> HIDE DEF r, q, old, new
      <3>4. new.segments = old.segments /\ new.rest = r /\ new \in Scans(S)
        BY <2>3, <3>1, <3>2 DEF Scans
      <3>5. q[1] = "/" => Len(Slashed(new.segments)) + Len(new.rest) + 1 <= Len(q)
        <4>1. p # <<>> => Len(new.rest) = Len(old.rest) + 1 /\ q[1] = p[1]
          BY <2>2, <3>2, <3>4
        <4>2. q[1] = "/" => p # <<>>
          BY <2>2, <2>7
        <4> DEFINE a == Len(Slashed(old.segments))
                   b == Len(old.rest)
                   m == Len(p)
        <4>3. a \in Nat /\ b \in Nat /\ m \in Nat /\ Len(q) = m + 1
          BY <2>2, <2>5
        <4>4. q[1] = "/" => a + b + 1 <= m /\ Len(new.rest) = b + 1
          BY <3>3, <4>1, <4>2
        <4>5. Len(Slashed(new.segments)) = a
          BY <3>4
        <4> HIDE DEF a, b, m
        <4>6. q[1] = "/" => a + (b + 1) + 1 <= m + 1
          BY <4>3, <4>4
        <4> QED
          BY <4>3, <4>4, <4>5, <4>6
      <3> QED
        BY <2>2, <2>7, <3>4, <3>5 DEF Scanned, q, new
    <2> QED
      BY <2>6, <2>7
  <1> HIDE DEF P
  <1>3. Seq(S) \subseteq P
    BY <1>1, <1>2, SequencesByInduction
  <1> QED
    BY <1>3 DEF P

LEMMA Concatenations ==
    ASSUME NEW S, NEW a \in Seq(S), NEW b \in Seq(S), NEW c \in S
    PROVE  /\ a \o Append(b, c) = Append(a \o b, c)
           /\ a \o (<<c>> \o b) = Append(a, c) \o b
           /\ <<>> \o a = a /\ a \o <<>> = a
  <1>1. a \o Append(b, c) = Append(a \o b, c)
    OBVIOUS
  <1>2. a \o (<<c>> \o b) = Append(a, c) \o b
    <2> DEFINE l == a \o (<<c>> \o b)
               r == Append(a, c) \o b
    <2>1. l \in Seq(S) /\ r \in Seq(S) /\ Len(l) = Len(a) + 1 + Len(b) /\ Len(r) = Len(a) + 1 + Len(b)
      OBVIOUS
    <2>2. \A i \in 1..Len(l) : l[i] = r[i]
      OBVIOUS
    <2> HIDE DEF l, r
    <2>3. l = r
      BY <2>1, <2>2
    <2> QED
      BY <2>3 DEF l, r
  <1>3. <<>> \o a = a /\ a \o <<>> = a
    OBVIOUS
  <1> QED
    BY <1>1, <1>2, <1>3

\* What the code makes of a path: clean segments, and no more symbols than it has.
LEMMA ResolveFacts ==
    ASSUME NEW S, "/" \in S, NEW p \in Seq(S), p # <<>>, p[1] = "/"
    PROVE  /\ Resolve(p) \in Seq(CleanSegments(S))
           /\ Len(Slashed(Resolve(p))) \in Nat /\ Len(Slashed(Resolve(p))) <= Len(p)
           /\ p[Len(p)] = "/" => Len(Slashed(Resolve(p))) + 1 <= Len(p)
  <1> DEFINE old == State(p)
  <1>1. Resolve(p) = Push(old.segments, old.rest)
    BY DEF Resolve, State
  <1>2. /\ old \in Scans(S) /\ Len(Slashed(old.segments)) + Len(old.rest) + 1 <= Len(p)
        /\ p[Len(p)] = "/" => old.rest = <<>>
    BY StateFacts DEF Scanned
  <1>3. old.segments \in Seq(CleanSegments(S)) /\ old.rest \in Seq(S \ {"/"})
    BY <1>2 DEF Scans
  <1> HIDE DEF old
  <1>4. /\ Resolve(p) \in Seq(CleanSegments(S))
        /\ Len(Slashed(Resolve(p))) <= Len(Slashed(old.segments)) + Len(old.rest) + 1
        /\ old.rest = <<>> => Resolve(p) = old.segments
    <2> DEFINE segments == old.segments
               x == old.rest
    <2>1. segments \in Seq(CleanSegments(S)) /\ x \in Seq(S \ {"/"}) /\ Resolve(p) = Push(segments, x)
      BY <1>1, <1>3
    <2> HIDE DEF segments, x
    <2>2. /\ Push(segments, x) \in Seq(CleanSegments(S))
          /\ Len(Slashed(Push(segments, x))) <= Len(Slashed(segments)) + Len(x) + 1
          /\ x = <<>> => Push(segments, x) = segments
      BY <2>1, PushFacts, Zenon
    <2>3. /\ Resolve(p) \in Seq(CleanSegments(S))
          /\ Len(Slashed(Resolve(p))) <= Len(Slashed(segments)) + Len(x) + 1
          /\ x = <<>> => Resolve(p) = segments
      BY <2>1, <2>2, Zenon
    <2> QED
      BY <2>3 DEF segments, x
  <1>5. Slashed(old.segments) \in Seq(S) /\ Slashed(Resolve(p)) \in Seq(S)
    BY <1>3, <1>4, CleanTyped, SlashedTyped
  <1> DEFINE a == Len(Slashed(old.segments))
             b == Len(old.rest)
             d == Len(Slashed(Resolve(p)))
             m == Len(p)
  <1>6. a \in Nat /\ b \in Nat /\ d \in Nat /\ m \in Nat /\ a + b + 1 <= m /\ d <= a + b + 1
    <2>1. a \in Nat /\ b \in Nat /\ d \in Nat /\ m \in Nat
      BY <1>3, <1>5
    <2>2. a + b + 1 <= m
      BY <1>2
    <2>3. d <= a + b + 1
      BY <1>4
    <2> QED
      BY <2>1, <2>2, <2>3
  <1>7. p[Len(p)] = "/" => d = a
    BY <1>2, <1>4
  <1> HIDE DEF a, b, d, m
  <1>8. d \in Nat /\ d <= m /\ (p[Len(p)] = "/" => d + 1 <= m)
    BY <1>6, <1>7
  <1> QED
    BY <1>4, <1>8 DEF d, m

\* A text without a slash is read into the rest.
LEMMA StateText ==
    ASSUME NEW S, "/" \in S, NEW p \in Seq(S)
    PROVE  \A x \in Seq(S \ {"/"}) :
               State(p \o x) = [segments |-> State(p).segments, rest |-> State(p).rest \o x]
  <1> DEFINE old == State(p)
             After(x) == [segments |-> old.segments, rest |-> old.rest \o x]
             T == S \ {"/"}
             P == {x \in Seq(T) : State(p \o x) = After(x)}
  <1>0. old \in Scans(S)
    BY StateFacts DEF Scanned
  <1>1. <<>> \in P
    <2>1. <<>> \in Seq(T) /\ p \o <<>> = p
      OBVIOUS
    <2>2. old.rest \o <<>> = old.rest /\ old = [segments |-> old.segments, rest |-> old.rest]
      BY <1>0 DEF Scans
    <2> HIDE DEF T, old
    <2> QED
      BY <2>1, <2>2 DEF old
  <1>2. ASSUME NEW x \in Seq(T), NEW c \in T, x \in P PROVE Append(x, c) \in P
    <2>1. /\ p \o x \in Seq(S) /\ c \in S /\ c # "/" /\ Append(x, c) \in Seq(T)
          /\ p \o Append(x, c) = Append(p \o x, c)
      OBVIOUS
    <2>2. State(p \o Append(x, c)) = Read(State(p \o x), c)
      BY <2>1, StateAppend
    <2>3. State(p \o x) = After(x)
      BY <1>2
    <2>4. State(p \o Append(x, c)) = [After(x) EXCEPT !.rest = Append(old.rest \o x, c)]
      BY <2>1, <2>2, <2>3 DEF Read
    <2>5. Append(old.rest \o x, c) = old.rest \o Append(x, c)
      <3>1. old.rest \in Seq(T)
        BY <1>0 DEF Scans
      <3>2. \A a \in Seq(T) : a \o Append(x, c) = Append(a \o x, c)
        BY <1>2, Concatenations
      <3> QED
        BY <3>1, <3>2
    <2>6. State(p \o Append(x, c)) = After(Append(x, c))
      BY <2>4, <2>5
    <2> QED
      BY <2>1, <2>6
  <1>3. Seq(T) \subseteq P
    <2> HIDE DEF P, T
    <2> QED
      BY <1>1, <1>2, SequencesByInduction
  <1> QED
    BY <1>3

\* Reading the path of clean segments gives these segments again.
LEMMA ResolveSlashed ==
    ASSUME NEW S, "/" \in S
    PROVE  \A segments \in Seq(CleanSegments(S)) : Resolve(Slashed(segments)) = segments
  <1> DEFINE C == CleanSegments(S)
             P == {s \in Seq(C) : Resolve(Slashed(s)) = s}
  <1>1. <<>> \in P
    <2>1. <<>> \in Seq(Seq(S)) /\ <<>> \in Seq(S) /\ <<>> \in Seq(C)
      OBVIOUS
    <2>2. Slashed(<<>>) = <<>> /\ State(<<>>) = Unread
      BY <2>1, SlashedAppend, StateAppend
    <2>3. Push(<<>>, <<>>) = <<>>
      BY DEF Push
    <2>4. Resolve(<<>>) = Push(Unread.segments, Unread.rest)
      BY <2>2 DEF Resolve, State
    <2> QED
      BY <2>1, <2>2, <2>3, <2>4 DEF Unread
  <1>2. ASSUME NEW s \in Seq(C), NEW x \in C, s \in P PROVE Append(s, x) \in P
    <2> DEFINE t == Slashed(s)
    <2>1. /\ s \in Seq(Seq(S)) /\ x \in Seq(S) /\ t \in Seq(S) /\ x \in Seq(S \ {"/"})
          /\ Append(s, x) \in Seq(C)
      BY <1>2, CleanTyped, SlashedTyped DEF CleanSegments
    <2>2. Slashed(Append(s, x)) = t \o (<<"/">> \o x)
      BY <2>1, SlashedAppend
    <2>3. Push(State(t).segments, State(t).rest) = s
      BY <1>2 DEF Resolve, State
    <2> HIDE DEF t, C, P
    <2>4. t \o (<<"/">> \o x) = Append(t, "/") \o x /\ Append(t, "/") \in Seq(S) /\ <<>> \o x = x
      BY <2>1, Concatenations
    <2>5. State(Append(t, "/")) = [segments |-> s, rest |-> <<>>]
      <3>1. State(Append(t, "/")) = Read(State(t), "/")
        BY <2>1, StateAppend
      <3> QED
        BY <2>3, <3>1 DEF Read
    <2>6. State(Append(t, "/") \o x) = [segments |-> s, rest |-> x]
      <3> DEFINE w == State(Append(t, "/"))
      <3>1. State(Append(t, "/") \o x) = [segments |-> w.segments, rest |-> w.rest \o x]
        BY <2>1, <2>4, StateText
      <3>2. w.segments = s /\ w.rest = <<>>
        BY <2>5
      <3> HIDE DEF w
      <3> QED
        BY <2>4, <3>1, <3>2
    <2>7. Slashed(Append(s, x)) = Append(t, "/") \o x
      BY <2>2, <2>4
    <2>8. Resolve(Slashed(Append(s, x))) = Push(s, x)
      <3> DEFINE u == Append(t, "/") \o x
      <3>1. Resolve(u) = Push(State(u).segments, State(u).rest)
        BY DEF Resolve, State
      <3>2. State(u).segments = s /\ State(u).rest = x
        BY <2>6
      <3> HIDE DEF u
      <3>3. Resolve(u) = Push(s, x)
        BY <3>1, <3>2
      <3> QED
        BY <2>7, <3>3 DEF u
    <2>9. Push(s, x) = Append(s, x)
      BY <1>2, <2>1, PushFacts DEF C
    <2> QED
      BY <2>1, <2>8, <2>9 DEF P
  <1>3. Seq(C) \subseteq P
    <2> HIDE DEF P, C
    <2> QED
      BY <1>1, <1>2, SequencesByInduction
  <1> QED
    BY <1>3

\* Behind no slash is there another, a dot or two dots that end a segment.
NoDots(t) ==
    \A i \in 1..Len(t) : t[i] = "/" =>
        /\ i < Len(t) => t[i + 1] # "/"
        /\ i + 1 <= Len(t) /\ t[i + 1] = "." => i + 1 # Len(t) /\ t[i + 2] # "/"
        /\ i + 2 <= Len(t) /\ t[i + 1] = "." /\ t[i + 2] = "." =>
              i + 2 # Len(t) /\ t[i + 3] # "/"

\* So it stays when one more segment is put behind a slash.
LEMMA NoDotsAppend ==
    ASSUME NEW S, "/" \in S, NEW t \in Seq(S), NoDots(t), t # <<>> => t[Len(t)] # "/",
           NEW x \in Seq(S \ {"/"}), x \notin {<<".">>, <<".", ".">>}
    PROVE  NoDots(t \o (<<"/">> \o x))
  <1> DEFINE u == t \o (<<"/">> \o x)
             n == Len(t)
             m == Len(x)
  <1>1. /\ n \in Nat /\ m \in Nat /\ Len(u) = n + 1 + m
        /\ \A i \in 1..n : u[i] = t[i]
        /\ u[n + 1] = "/"
        /\ \A k \in 1..m : u[n + 1 + k] = x[k]
    OBVIOUS
  <1>2. \A k \in 1..m : x[k] # "/"
    OBVIOUS
  <1>3. (m = 1 => x[1] # ".") /\ (m = 2 => ~(x[1] = "." /\ x[2] = "."))
    <2>1. m = 1 /\ x[1] = "." => x = <<".">>
      OBVIOUS
    <2>2. m = 2 /\ x[1] = "." /\ x[2] = "." => x = <<".", ".">>
      OBVIOUS
    <2> QED
      BY <2>1, <2>2
  <1>4. n # 0 => t[n] # "/"
    OBVIOUS
  <1>5. \A i \in 1..n : t[i] = "/" =>
            /\ i < n => t[i + 1] # "/"
            /\ i + 1 <= n /\ t[i + 1] = "." => i + 1 # n /\ t[i + 2] # "/"
            /\ i + 2 <= n /\ t[i + 1] = "." /\ t[i + 2] = "." => i + 2 # n /\ t[i + 3] # "/"
    BY DEF NoDots
  <1> HIDE DEF u, n, m
  <1> SUFFICES ASSUME NEW i \in 1..(n + 1 + m), u[i] = "/"
               PROVE  /\ i < n + 1 + m => u[i + 1] # "/"
                      /\ i + 1 <= n + 1 + m /\ u[i + 1] = "." => i + 1 # n + 1 + m /\ u[i + 2] # "/"
                      /\ i + 2 <= n + 1 + m /\ u[i + 1] = "." /\ u[i + 2] = "." =>
                            i + 2 # n + 1 + m /\ u[i + 3] # "/"
    <2>1. NoDots(u) <=>
            \A i \in 1..(n + 1 + m) : u[i] = "/" =>
               /\ i < n + 1 + m => u[i + 1] # "/"
               /\ i + 1 <= n + 1 + m /\ u[i + 1] = "." => i + 1 # n + 1 + m /\ u[i + 2] # "/"
               /\ i + 2 <= n + 1 + m /\ u[i + 1] = "." /\ u[i + 2] = "." =>
                     i + 2 # n + 1 + m /\ u[i + 3] # "/"
      BY <1>1 DEF NoDots
    <2> QED
      BY <2>1 DEF u
  <1>6. CASE i <= n
    <2>1. i \in 1..n /\ t[i] = "/" /\ i # n /\ i + 1 \in 1..n
      BY <1>1, <1>4, <1>6
    <2> DEFINE j == i + 1
               k == i + 2
               l == i + 3
    <2>2. /\ j \in 1..n /\ (k \in 1..n \/ k = n + 1)
          /\ k \in 1..n => l \in 1..n \/ l = n + 1
      BY <1>1, <2>1
    <2>3. /\ t[j] # "/"
          /\ t[j] = "." => j # n /\ t[k] # "/"
          /\ k <= n /\ t[j] = "." /\ t[k] = "." => k # n /\ t[l] # "/"
      BY <1>1, <1>5, <2>1
    <2>4. u[j] = t[j] /\ (k \in 1..n => u[k] = t[k]) /\ (l \in 1..n => u[l] = t[l])
      BY <1>1, <2>2
    <2>5. k = n + 1 => j = n
      BY <1>1
    <2>6. l = n + 1 => k = n
      BY <1>1
    <2>7. j < n + 1 + m /\ (k \in 1..n => k < n + 1 + m /\ k <= n)
      BY <1>1, <2>2
    <2> HIDE DEF j, k, l
    <2>8. u[j] # "/" /\ (u[j] = "." => j # n + 1 + m /\ u[k] # "/")
      <3>1. u[j] = "." => k # n + 1
        BY <2>3, <2>4, <2>5
      <3>2. u[j] = "." => k \in 1..n
        BY <2>2, <3>1
      <3> QED
        BY <1>1, <2>2, <2>3, <2>4, <2>7, <3>2
    <2>9. u[j] = "." /\ u[k] = "." => k # n + 1 + m /\ u[l] # "/"
      <3>1. u[j] = "." /\ u[k] = "." => k \in 1..n
        BY <1>1, <2>2
      <3>2. u[j] = "." /\ u[k] = "." => l \in 1..n
        BY <2>2, <2>3, <2>4, <2>6, <2>7, <3>1
      <3> QED
        BY <1>1, <2>2, <2>3, <2>4, <2>7, <3>1, <3>2
    <2> QED
      BY <2>8, <2>9 DEF j, k, l
  <1>7. CASE i = n + 1
    <2> DEFINE N == n + 1
    <2>1. /\ N \in Nat /\ i = N
          /\ \A k \in 1..m : u[N + k] = x[k]
      BY <1>1, <1>7
    <2> HIDE DEF N
    <2>2. /\ 1 <= m => u[N + 1] = x[1] /\ x[1] # "/"
          /\ 2 <= m => u[N + 2] = x[2] /\ x[2] # "/"
          /\ 3 <= m => u[N + 3] = x[3] /\ x[3] # "/"
      BY <1>1, <1>2, <2>1
    <2>3. /\ N < N + m => u[N + 1] # "/"
          /\ N + 1 <= N + m /\ u[N + 1] = "." => N + 1 # N + m /\ u[N + 2] # "/"
          /\ N + 2 <= N + m /\ u[N + 1] = "." /\ u[N + 2] = "." => N + 2 # N + m /\ u[N + 3] # "/"
      BY <1>1, <1>3, <2>1, <2>2, SMTT(30)
    <2> QED
      BY <2>1, <2>3 DEF N
  <1>8. CASE i > n + 1
    <2> DEFINE k == i - (n + 1)
    <2>1. k \in 1..m /\ n + 1 + k = i
      BY <1>1, <1>8
    <2> HIDE DEF k
    <2> QED
      BY <1>1, <1>2, <2>1
  <1> QED
    BY <1>1, <1>6, <1>7, <1>8

\* The path of clean segments starts with a slash and does not end with one.
WellFormed(segments, t) ==
    /\ NoDots(t)
    /\ segments = <<>> => t = <<>>
    /\ segments # <<>> => Len(t) >= 2 /\ t[1] = "/" /\ t[Len(t)] # "/"

LEMMA SlashedFacts ==
    ASSUME NEW S, "/" \in S
    PROVE  \A segments \in Seq(CleanSegments(S)) : WellFormed(segments, Slashed(segments))
  <1> DEFINE C == CleanSegments(S)
             P == {s \in Seq(C) : WellFormed(s, Slashed(s))}
  <1>1. <<>> \in P
    <2>1. <<>> \in Seq(Seq(S)) /\ <<>> \in Seq(S) /\ <<>> \in Seq(C)
      OBVIOUS
    <2>2. Slashed(<<>>) = <<>>
      BY <2>1, SlashedAppend
    <2>3. NoDots(<<>>)
      BY DEF NoDots
    <2> QED
      BY <2>1, <2>2, <2>3 DEF WellFormed
  <1>2. ASSUME NEW s \in Seq(C), NEW x \in C, s \in P PROVE Append(s, x) \in P
    <2> DEFINE t == Slashed(s)
               u == t \o (<<"/">> \o x)
    <2>1. /\ s \in Seq(Seq(S)) /\ x \in Seq(S) /\ t \in Seq(S) /\ x \in Seq(S \ {"/"})
          /\ x \notin {<<>>, <<".">>, <<".", ".">>}
      BY <1>2, CleanTyped, SlashedTyped DEF CleanSegments
    <2>2. Slashed(Append(s, x)) = u
      BY <2>1, SlashedAppend
    <2>3. WellFormed(s, t)
      BY <1>2
    <2>4. NoDots(t) /\ (t # <<>> => t[Len(t)] # "/" /\ t[1] = "/")
      BY <2>3 DEF WellFormed
    <2>5. Append(s, x) \in Seq(C) /\ Append(s, x) # <<>>
      BY <1>2
    <2> HIDE DEF t, C, P
    <2>6. NoDots(u)
      BY <2>1, <2>4, NoDotsAppend
    <2>7. Len(u) >= 2 /\ u[1] = "/" /\ u[Len(u)] # "/"
      <3>1. /\ Len(x) \in Nat \ {0} /\ Len(u) = Len(t) + 1 + Len(x) /\ Len(t) \in Nat
            /\ x[Len(x)] # "/"
        BY <2>1
      <3>2. u[Len(t) + 1 + Len(x)] = x[Len(x)]
        BY <2>1, <3>1
      <3>3. u[1] = "/"
        BY <2>1, <2>4
      <3> HIDE DEF u
      <3> QED
        BY <3>1, <3>2, <3>3
    <2> HIDE DEF u
    <2>8. WellFormed(Append(s, x), Slashed(Append(s, x)))
      BY <2>2, <2>5, <2>6, <2>7 DEF WellFormed
    <2> QED
      BY <2>5, <2>8 DEF P
  <1>3. Seq(C) \subseteq P
    <2> HIDE DEF P, C
    <2> QED
      BY <1>1, <1>2, SequencesByInduction
  <1> QED
    BY <1>3

\* The path that canonicalize_path returns for its segments.
LEMMA JoinedFacts ==
    ASSUME NEW S, "/" \in S, NEW segments \in Seq(CleanSegments(S)), NEW slash \in BOOLEAN,
           segments = <<>> => ~slash
    PROVE  LET t == Joined(segments, slash) IN
           /\ t \in Seq(S) /\ t # <<>> /\ t[1] = "/" /\ NoDots(t)
           /\ Resolve(t) = segments
           /\ slash <=> Len(t) > 1 /\ t[Len(t)] = "/"
           /\ Len(t) = Len(Slashed(segments)) + (IF slash \/ segments = <<>> THEN 1 ELSE 0)
  <1> DEFINE f == Slashed(segments)
             t == Joined(segments, slash)
  <1>1. t = f \o (IF slash \/ segments = <<>> THEN <<"/">> ELSE <<>>)
    BY DEF Joined, Slashed
  <1>2. f \in Seq(S) /\ WellFormed(segments, f) /\ Resolve(f) = segments
    BY CleanTyped, SlashedTyped, SlashedFacts, ResolveSlashed
  <1> HIDE DEF f, t
  <1>3. Resolve(f) = Push(State(f).segments, State(f).rest)
    BY DEF Resolve, State
  <1>4. CASE slash \/ segments = <<>>
    <2>1. t = f \o <<"/">>
      BY <1>1, <1>4
    <2>2. t = Append(f, "/") /\ t = f \o (<<"/">> \o <<>>)
      BY <1>2, <2>1
    <2>3. /\ t \in Seq(S) /\ t # <<>> /\ Len(t) = Len(f) + 1 /\ t[Len(t)] = "/" /\ Len(f) \in Nat
          /\ Len(f) >= 1 => t[1] = f[1]
          /\ f = <<>> => t[1] = "/" /\ Len(f) = 0
      BY <1>2, <2>2
    <2>4. t[1] = "/" /\ (Len(t) > 1 <=> segments # <<>>)
      <3>1. CASE segments = <<>>
        BY <1>2, <2>3, <3>1 DEF WellFormed
      <3>2. CASE segments # <<>>
        BY <1>2, <2>3, <3>2 DEF WellFormed
      <3> QED
        BY <3>1, <3>2
    <2>5. NoDots(t)
      <3>1. <<>> \in Seq(S \ {"/"}) /\ <<>> \notin {<<".">>, <<".", ".">>}
        OBVIOUS
      <3>2. NoDots(f) /\ (f # <<>> => f[Len(f)] # "/")
        BY <1>2 DEF WellFormed
      <3> QED
        BY <1>2, <2>2, <3>1, <3>2, NoDotsAppend
    <2>6. State(t) = [segments |-> segments, rest |-> <<>>]
      <3>1. State(t) = Read(State(f), "/")
        BY <1>2, <2>2, StateAppend
      <3> QED
        BY <1>2, <1>3, <3>1 DEF Read
    <2>7. Resolve(t) = segments
      <3>1. Resolve(t) = Push(State(t).segments, State(t).rest)
        BY DEF Resolve, State
      <3>2. State(t).segments = segments /\ State(t).rest = <<>>
        BY <2>6
      <3>3. <<>> \in Seq(S \ {"/"})
        OBVIOUS
      <3>4. Push(segments, <<>>) = segments
        BY <3>3, PushFacts
      <3> QED
        BY <3>1, <3>2, <3>4
    <2>8. slash <=> segments # <<>>
      BY <1>4
    <2> QED
      BY <1>4, <2>3, <2>4, <2>5, <2>7, <2>8 DEF t, f
  <1>5. CASE ~slash /\ segments # <<>>
    <2>1. t = f
      BY <1>1, <1>2, <1>5
    <2>2. Len(f) >= 2 /\ f[1] = "/" /\ f[Len(f)] # "/" /\ NoDots(f) /\ f # <<>>
      BY <1>2, <1>5 DEF WellFormed
    <2>3. Len(t) = Len(f) + 0
      BY <1>2, <2>1
    <2> QED
      BY <1>2, <1>5, <2>1, <2>2, <2>3 DEF t, f
  <1> QED
    BY <1>4, <1>5

\* As the property says it.
LEMMA NoDotSegments ==
    ASSUME NEW S, NEW t \in Seq(S), NoDots(t), NEW i \in 1..(Len(t) + 1), NEW j \in 1..(Len(t) + 1),
           i < j, t[i] = "/", j = Len(t) + 1 \/ t[j] = "/"
    PROVE  /\ SubSeq(t, i + 1, j - 1) \notin {<<".">>, <<".", ".">>}
           /\ j <= Len(t) => j > i + 1
  <1> DEFINE n == Len(t)
             u == SubSeq(t, i + 1, j - 1)
  <1>1. n \in Nat /\ i \in 1..n /\ j \in 1..(n + 1)
    OBVIOUS
  <1>2. /\ i < n => t[i + 1] # "/"
        /\ i + 1 <= n /\ t[i + 1] = "." => i + 1 # n /\ t[i + 2] # "/"
        /\ i + 2 <= n /\ t[i + 1] = "." /\ t[i + 2] = "." => i + 2 # n /\ t[i + 3] # "/"
    BY <1>1 DEF NoDots
  <1>3. j <= n => j > i + 1
    <2>1. j <= n /\ ~(j > i + 1) => j = i + 1 /\ i < n
      BY <1>1
    <2> QED
      BY <1>1, <1>2, <2>1
  <1>4. u # <<".">>
    <2> SUFFICES ASSUME u = <<".">> PROVE FALSE
      OBVIOUS
    <2> HIDE DEF u
    <2>1. Len(u) = 1 /\ u[1] = "."
      OBVIOUS
    <2>2. j = i + 2 /\ t[i + 1] = "."
      BY <1>1, <2>1 DEF u
    <2> QED
      BY <1>1, <1>2, <2>2
  <1>5. u # <<".", ".">>
    <2> SUFFICES ASSUME u = <<".", ".">> PROVE FALSE
      OBVIOUS
    <2> HIDE DEF u
    <2>1. Len(u) = 2 /\ u[1] = "." /\ u[2] = "."
      OBVIOUS
    <2>2. j = i + 3 /\ t[i + 1] = "." /\ t[i + 2] = "."
      BY <1>1, <2>1 DEF u
    <2> QED
      BY <1>1, <1>2, <2>2
  <1> QED
    BY <1>3, <1>4, <1>5

\* What is left of a path without its version.
LEMMA StripFacts ==
    ASSUME NEW S, NEW p \in Seq(S), p # <<>>, p[1] = "/"
    PROVE  LET q == strip_api_version_prefix(p) IN
           q \in Seq(S) /\ q # <<>> /\ q[1] = "/" /\ Len(q) \in Nat /\ Len(q) <= Len(p)
  <1> DEFINE slashes == {i \in 3..Len(p) : p[i] = "/"}
             second == Min(slashes)
             q == strip_api_version_prefix(p)
  <1>1. q = p \/ (slashes # {} /\ q = SubSeq(p, second, Len(p)))
    BY DEF strip_api_version_prefix
  <1>2. CASE q = p
    BY <1>2
  <1>3. CASE slashes # {} /\ q = SubSeq(p, second, Len(p))
    <2>1. second \in slashes
      <3>1. slashes \in SUBSET Nat /\ slashes # {}
        <4>1. slashes \subseteq Nat
          OBVIOUS
        <4> QED
          BY <1>3, <4>1
      <3> HIDE DEF slashes
      <3> QED
        BY <3>1, MinIn
    <2>2. second \in 3..Len(p) /\ p[second] = "/"
      BY <2>1
    <2> HIDE DEF second, q
    <2>3. /\ SubSeq(p, second, Len(p)) \in Seq(S)
          /\ Len(SubSeq(p, second, Len(p))) = Len(p) - second + 1
          /\ SubSeq(p, second, Len(p))[1] = p[second]
      BY <2>2
    <2>4. q \in Seq(S) /\ Len(q) = Len(p) - second + 1 /\ q[1] = "/"
      BY <1>3, <2>2, <2>3
    <2>5. Len(q) \in Nat /\ Len(q) <= Len(p) /\ q # <<>>
      BY <2>2, <2>4
    <2> QED
      BY <2>4, <2>5 DEF q
  <1> QED
    BY <1>1, <1>2, <1>3

\* canonicalize_path after the path is decoded.
Canonical(decoded) ==
    LET path == strip_api_version_prefix(decoded)
        slash == Len(path) > 1 /\ Last(path) = "/"
        segments == Resolve(path)
    IN Joined(segments, slash /\ segments # <<>>)

LEMMA CanonicalizeIs ==
    ASSUME NEW raw, raw # <<>>, raw[1] = "/", ~(Len(raw) > MaxPathLen)
    PROVE  canonicalize_path(raw) =
               {Canonical(d) : d \in {e \in percent_decode(raw) : Range(e) \cap Unprintable = {}}}
  BY DEF canonicalize_path, Canonical

LEMMA CanonicalFacts ==
    ASSUME NEW S, "/" \in S, NEW d \in Seq(S), d # <<>>, d[1] = "/"
    PROVE  LET t == Canonical(d) IN
           /\ t \in Seq(S) /\ t # <<>> /\ t[1] = "/" /\ NoDots(t) /\ Len(t) <= Len(d)
           /\ strip_api_version_prefix(t) = t => Canonical(t) = t
  <1> DEFINE p == strip_api_version_prefix(d)
             segments == Resolve(p)
             slash == Len(p) > 1 /\ p[Len(p)] = "/" /\ segments # <<>>
             t == Canonical(d)
  <1>1. t = Joined(segments, slash)
    BY DEF Canonical, Last
  <1>2. p \in Seq(S) /\ p # <<>> /\ p[1] = "/" /\ Len(p) \in Nat /\ Len(p) <= Len(d)
    BY StripFacts
  <1> HIDE DEF p
  <1>3. /\ segments \in Seq(CleanSegments(S))
        /\ Len(Slashed(segments)) \in Nat /\ Len(Slashed(segments)) <= Len(p)
        /\ p[Len(p)] = "/" => Len(Slashed(segments)) + 1 <= Len(p)
    BY <1>2, ResolveFacts
  <1>4. slash \in BOOLEAN /\ (segments = <<>> => ~slash) /\ (slash => p[Len(p)] = "/")
    OBVIOUS
  <1> HIDE DEF segments, slash, t
  <1>5. /\ t \in Seq(S) /\ t # <<>> /\ t[1] = "/" /\ NoDots(t) /\ Resolve(t) = segments
        /\ slash <=> Len(t) > 1 /\ t[Len(t)] = "/"
        /\ Len(t) = Len(Slashed(segments)) + (IF slash \/ segments = <<>> THEN 1 ELSE 0)
    BY <1>1, <1>3, <1>4, JoinedFacts
  <1>6. Len(t) <= Len(d)
    <2> DEFINE a == Len(Slashed(segments))
               m == Len(p)
               k == Len(d)
    <2>1. a \in Nat /\ m \in Nat /\ k \in Nat /\ a <= m /\ m <= k /\ (slash => a + 1 <= m) /\ 1 <= m
      BY <1>2, <1>3, <1>4
    <2>2. segments = <<>> => a = 0
      <3>1. WellFormed(segments, Slashed(segments))
        BY <1>3, SlashedFacts
      <3> QED
        BY <3>1 DEF WellFormed
    <2>3. Len(t) = a + (IF slash \/ segments = <<>> THEN 1 ELSE 0)
      BY <1>5
    <2> HIDE DEF a, m, k
    <2>4. Len(t) <= k
      BY <2>1, <2>2, <2>3
    <2> QED
      BY <2>4 DEF k
  <1>7. ASSUME strip_api_version_prefix(t) = t PROVE Canonical(t) = t
    <2>1. Canonical(t) = Joined(Resolve(t), Len(t) > 1 /\ t[Len(t)] = "/" /\ Resolve(t) # <<>>)
      BY <1>7 DEF Canonical, Last
    <2>2. (Len(t) > 1 /\ t[Len(t)] = "/" /\ Resolve(t) # <<>>) = slash
      BY <1>4, <1>5
    <2> QED
      BY <1>1, <1>5, <2>1, <2>2
  <1> QED
    BY <1>5, <1>6, <1>7 DEF t

\* Paths as the code returns them, for any path that a request may have.
PathCanonical(path) ==
    /\ path[1] = "/"
    /\ \A i, j \in 1..(Len(path) + 1) :
          i < j /\ path[i] = "/" /\ (j = Len(path) + 1 \/ path[j] = "/") =>
              SubSeq(path, i + 1, j - 1) \notin {<<".">>, <<".", ".">>}
              /\ (j <= Len(path) => j > i + 1)
    /\ "%" \notin Range(path) /\ strip_api_version_prefix(path) = path =>
          canonicalize_path(path) = {path}

LEMMA CanonicalizedPaths ==
    ASSUME NEW raw \in Text, NEW path \in canonicalize_path(raw)
    PROVE  PathCanonical(path)
  <1> DEFINE d == [i \in DOMAIN raw |-> IF raw[i] \in DOMAIN Escapes THEN Escapes[raw[i]] ELSE raw[i]]
             S == Range(d)
             n == Len(raw)
  <1>1. raw # <<>> /\ raw[1] = "/" /\ ~(n > MaxPathLen)
    BY DEF canonicalize_path
  <1>2. n \in Nat /\ DOMAIN raw = 1..n /\ 1 \in 1..n
    BY <1>1 DEF Text
  <1>3. percent_decode(raw) \subseteq {d}
    BY DEF percent_decode
  <1>4. path = Canonical(d) /\ S \cap Unprintable = {}
    BY <1>1, <1>3, CanonicalizeIs
  <1>5. /\ DOMAIN d = 1..n
        /\ \A i \in 1..n : d[i] = IF raw[i] \in DOMAIN Escapes THEN Escapes[raw[i]] ELSE raw[i]
        /\ d = [i \in 1..n |-> d[i]]
    BY <1>2
  <1>6. d[1] = "/" /\ \A i \in 1..n : d[i] \notin DOMAIN Escapes
    BY <1>1, <1>2, <1>5, EscapesAssumption
  <1> HIDE DEF d
  <1>7. \A i \in 1..n : d[i] \in S
    BY <1>5 DEF Range
  <1>8. d \in Seq(S) /\ Len(d) = n /\ d # <<>> /\ "/" \in S
    BY <1>2, <1>5, <1>6, <1>7
  <1>9. \A c \in S : c \notin DOMAIN Escapes
    BY <1>5, <1>6 DEF Range
  <1> HIDE DEF S, n
  <1>10. /\ path \in Seq(S) /\ path # <<>> /\ path[1] = "/" /\ NoDots(path) /\ Len(path) <= n
         /\ strip_api_version_prefix(path) = path => Canonical(path) = path
    BY <1>4, <1>6, <1>8, CanonicalFacts
  <1>11. ASSUME NEW i \in 1..(Len(path) + 1), NEW j \in 1..(Len(path) + 1),
                i < j, path[i] = "/", j = Len(path) + 1 \/ path[j] = "/"
         PROVE  /\ SubSeq(path, i + 1, j - 1) \notin {<<".">>, <<".", ".">>}
                /\ j <= Len(path) => j > i + 1
    BY <1>10, <1>11, NoDotSegments
  <1>12. ASSUME "%" \notin Range(path), strip_api_version_prefix(path) = path
         PROVE  canonicalize_path(path) = {path}
    <2>1. /\ Len(path) \in Nat /\ DOMAIN path = 1..Len(path)
          /\ \A i \in DOMAIN path : path[i] \in S
          /\ path = [i \in DOMAIN path |-> path[i]]
      BY <1>10
    <2>2. percent_decode(path) = {path}
      <3>1. [i \in DOMAIN path |-> IF path[i] \in DOMAIN Escapes THEN Escapes[path[i]] ELSE path[i]] = path
        BY <1>9, <2>1
      <3> QED
        BY <1>12, <3>1 DEF percent_decode
    <2>3. Range(path) \cap Unprintable = {}
      BY <1>4, <2>1 DEF Range
    <2>4. ~(Len(path) > MaxPathLen)
      BY <1>1, <1>2, <1>10, <2>1, LengthsAssumption DEF n
    <2>5. canonicalize_path(path) =
              {Canonical(e) : e \in {f \in percent_decode(path) : Range(f) \cap Unprintable = {}}}
      BY <1>10, <2>4, CanonicalizeIs
    <2> QED
      BY <1>10, <1>12, <2>2, <2>3, <2>5
  <1> QED
    BY <1>10, <1>11, <1>12 DEF PathCanonical

LEMMA PathsNext == Inv /\ PathsCanonical /\ [Next]_vars => PathsCanonical'
  <1> SUFFICES ASSUME Inv, PathsCanonical, [Next]_vars, outcome'.status = "admitted"
               PROVE  PathsCanonical'
    BY DEF PathsCanonical
  <1>1. CASE UNCHANGED <<scenario, outcome, head, snapFile>>
    BY <1>1 DEF PathsCanonical
  <1>2. CASE Admit
    <2>1. head \in world.heads /\ scenario \in DOMAIN Scenarios
      BY <1>2 DEF Admit, Inv, RequestInv
    <2>2. head.path \in Text
      BY <2>1, ScenariosAssumption DEF world
    <2>3. outcome'.path \in canonicalize_path(head.path)
      BY <1>2 DEF Admit
    <2>4. PathCanonical(outcome'.path)
      BY <2>2, <2>3, CanonicalizedPaths
    <2> QED
      BY <2>4 DEF PathCanonical, PathsCanonical
  <1> QED
    BY <1>1, <1>2, Admitted

\* For paths of any length with any segments, escapes and slashes: what
\* canonicalize_path() in src/main.rs lets through has no dot segment and no empty
\* one, and canonicalising it again gives nothing else.
THEOREM PathsAlwaysCanonical == Spec => []PathsCanonical
  <1>1. Init => PathsCanonical
    BY DEF Init, Pending, PathsCanonical
  <1> QED
    BY <1>1, InvAlways, PathsNext, PTL DEF Spec

=============================================================================
