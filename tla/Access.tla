------------------------------- MODULE Access -------------------------------
(***************************************************************************)
(* Who gets in: the start of the proxy, the configurations it loads on     *)
(* SIGHUP, the TLS settings of its listener, and what src/main.rs makes of *)
(* the credentials, the path and the address of a request.                 *)
(*                                                                         *)
(* A reload takes effect in two steps: requests see the new configuration  *)
(* at once, the listener and its TLS settings only when it restarts, which *)
(* module Listener models in detail.  The authentication limiter may have  *)
(* locked a peer out whenever it is asked: module AuthLimiter models it.   *)
(***************************************************************************)
EXTENDS Credentials

CONSTANTS
    Scenarios,  \* a function to [env, file, edits, certs, heads]: the environment, the
                \* file at the start and those that replace it, what clients present and send
    Sockets,    \* the sockets tried last, in this order
    MaxReloads  \* bound on the reloads

\* The secrets of a file are texts once their variables are in place.
Expands(env, f) ==
    f.auth # None =>
        /\ f.auth.secret # None => expand_env(env, f.auth.secret) \in Text
        /\ \A i \in DOMAIN f.auth.tokens : expand_env(env, f.auth.tokens[i].token) \in Text

ASSUME ScenariosAssumption ==
    \A s \in DOMAIN Scenarios :
        LET w == Scenarios[s] IN
        /\ Value(w.env, "DOCKER_PROXY_SECRET") \in Text
        /\ \A f \in w.edits \cup {w.file} : f \in ProxyConfig /\ Expands(w.env, f)
        /\ \A c \in w.certs \ {None} :
              c \in Certificate /\ extract_identity(c) \in CertIdentity
        /\ w.heads \subseteq
              [path : Text, method : Strings, peer : Strings, query : BOOLEAN,
               authorization : Seq(Strings \X Text), real_ip : Seq(Text),
               forwarded_for : Seq(Text), forwarded : Seq(Seq(Text)),
               connection : Seq(Text), upgrade : Text]

ASSUME BoundsAssumption ==
    MaxReloads \in Nat /\ Existing \subseteq Text /\ Sockets \in Seq(Text)
        /\ \A text \in DOMAIN Ports : Ports[text] \in Nat

VARIABLES
    scenario,   \* one of them
    phase,      \* "starting", "running" or "exited"
    startup,    \* what main() keeps from the first configuration
    config,     \* the configuration behind the RwLock
    file,       \* history: the file it was loaded from
    since,      \* history: the files in force since the listener was bound
    reloads,
    due,        \* the listener has not restarted since the last reload
    tls,        \* the TLS settings of the listener
    listening,
    st,         \* the connection: "closed", "open", "received" or "answered"
    cert,       \* the certificate verified in its handshake, or None
    valid,      \* history: since, when it was accepted
    head,       \* the head of its request
    snap,       \* the configuration cloned for it
    snapFile,   \* history: the file of that
    outcome

configVars == <<startup, config, file>>
listenerVars == <<since, due, tls, listening>>
requestVars == <<head, snap, snapFile, outcome>>
connVars == <<st, cert, valid, requestVars>>
vars == <<scenario, phase, reloads, configVars, listenerVars, connVars>>

world == Scenarios[scenario]

Pending == [status |-> "none", role |-> {}, path |-> <<>>, ip |-> None, route |-> "none"]

Init ==
    /\ scenario \in DOMAIN Scenarios /\ phase = "starting" /\ reloads = 0
    /\ startup = [env_secret |-> <<>>, metrics_path |-> {}, socket_path |-> <<>>, watched |-> FALSE]
    /\ config = Defaults /\ file = Defaults
    /\ since = {} /\ due = FALSE /\ tls = None /\ listening = FALSE
    /\ st = "closed" /\ cert = None /\ valid = {}
    /\ head = None /\ snap = Defaults /\ snapFile = Defaults /\ outcome = Pending

----------------------------------------------------------------------------
(* The process.                                                             *)

\* load_config_from_default_path: the file of the environment, which must exist, or
\* ./config.yaml; without either there is only the environment.
Watched == world.file # Absent \/ "DOCKER_PROXY_CONFIG" \in DOMAIN world.env

load_config_from_default_path ==
    IF Watched THEN load_from_path(world.env, world.file) ELSE Prepared(world.env, Defaults)

\* Mutant: the socket of the configuration is taken as it is.
resolve_socket_path_unchecked(socket) ==
    LET tried == <<socket, Value(world.env, "DOCKER_SOCKET")>> \o Sockets
        found == {i \in DOMAIN tried : (i = 1 /\ socket # None) \/ tried[i] \in Existing}
    IN IF found = {} THEN {} ELSE {tried[Min(found)]}

\* resolve_socket_path: of the configuration, of the environment, or a usual one.
resolve_socket_path(socket) ==
    LET tried == <<socket, Value(world.env, "DOCKER_SOCKET")>> \o Sockets
        found == {i \in DOMAIN tried : tried[i] \in Existing}
    IN IF found = {} THEN {} ELSE {tried[Min(found)]}

\* build_server_config succeeds, if TLS is configured: its files can be read.
Builds(c) == c.tls # None => c.tls.readable

\* main(), up to the first bind.
Start ==
    /\ phase = "starting" /\ phase' = "running"
    /\ \E c \in load_config_from_default_path : \E socket \in resolve_socket_path(c.socket) :
          /\ Builds(c)
          /\ startup' = [env_secret   |-> Value(world.env, "DOCKER_PROXY_SECRET"),
                         metrics_path |-> MetricsPath(c),
                         socket_path  |-> socket,
                         watched      |-> Watched]
          /\ config' = c
          /\ file' = IF Watched THEN world.file ELSE Defaults
          /\ tls' = c.tls
    /\ since' = {file'} /\ listening' = TRUE
    /\ UNCHANGED <<scenario, reloads, due, connVars>>

\* The file does not load, there is no socket, or TLS cannot be set up.
FailToStart ==
    /\ phase = "starting" /\ phase' = "exited"
    /\ \A c \in load_config_from_default_path : resolve_socket_path(c.socket) = {} \/ ~Builds(c)
    /\ UNCHANGED <<scenario, reloads, configVars, listenerVars, connVars>>

\* SIGHUP, after the file was edited: one that does not load changes nothing.  There
\* is no reloader if no file was loaded.
Reload ==
    /\ phase = "running" /\ startup.watched
    /\ reloads < MaxReloads /\ reloads' = reloads + 1
    /\ \E f \in world.edits :
          \/ /\ load_from_path(world.env, f) = {}
             /\ UNCHANGED <<config, file, since, due>>
          \/ /\ config' \in load_from_path(world.env, f)
             /\ file' = f /\ since' = since \cup {f} /\ due' = TRUE
    /\ UNCHANGED <<scenario, phase, startup, tls, listening, connVars>>

\* Mutant: the new listener has the TLS settings of the old one.
RestartKeepingTls ==
    /\ phase = "running" /\ due
    /\ due' = FALSE /\ since' = {file} /\ listening' = TRUE
    /\ UNCHANGED <<scenario, phase, reloads, configVars, tls, connVars>>

\* The listener starts again with the current configuration, as often as it takes.
Restart ==
    /\ phase = "running" /\ due
    /\ IF Builds(config)
       THEN due' = FALSE /\ tls' = config.tls /\ since' = {file} /\ listening' = TRUE
       ELSE listening' = FALSE /\ UNCHANGED <<due, tls, since>>
    /\ UNCHANGED <<scenario, phase, reloads, configVars, connVars>>

----------------------------------------------------------------------------
(* A connection and its request.                                            *)

\* The handshake with a client that presents certificate c, or none: what it
\* verifies, if it succeeds.  Without a client CA none is asked for.
Handshake(c) ==
    IF tls = None \/ tls.client_ca = None THEN {None}
    ELSE IF c = None THEN (IF tls.require_client_cert THEN {} ELSE {None})
    ELSE IF c.issuer = tls.client_ca THEN {c} ELSE {}

\* accept(), and with TLS the handshake.
Accept ==
    /\ phase = "running" /\ listening /\ st = "closed"
    /\ \E c \in world.certs : cert' \in Handshake(c)
    /\ st' = "open" /\ valid' = since
    /\ UNCHANGED <<scenario, phase, reloads, configVars, listenerVars, requestVars>>

\* The head of the request: its path and its query are checked, and the configuration
\* is cloned.
Receive ==
    /\ st = "open"
    /\ \E h \in world.heads :
          /\ head' = h
          /\ IF canonicalize_path(h.path) = {} \/ ~h.query
             THEN /\ st' = "answered" /\ outcome' = [Pending EXCEPT !.status = "malformed"]
                  /\ UNCHANGED <<snap, snapFile>>
             ELSE st' = "received" /\ snap' = config /\ snapFile' = file /\ UNCHANGED outcome
    /\ UNCHANGED <<scenario, phase, reloads, configVars, listenerVars, cert, valid>>

\* The peer is locked out.
LockedOut ==
    /\ st = "received" /\ st' = "answered"
    /\ outcome' = [Pending EXCEPT !.status = "locked"]
    /\ UNCHANGED <<scenario, phase, reloads, configVars, listenerVars,
                   cert, valid, head, snap, snapFile>>

Identity == IF cert = None THEN None ELSE extract_identity(cert)

\* authenticate() refuses.
Deny ==
    /\ st = "received" /\ st' = "answered"
    /\ authenticate(snap, startup.env_secret, head, Identity) = {}
    /\ outcome' = [Pending EXCEPT !.status = "denied"]
    /\ UNCHANGED <<scenario, phase, reloads, configVars, listenerVars,
                   cert, valid, head, snap, snapFile>>

\* It admits: the metrics are shown, or the request goes on to the rules with the
\* path, the client's address and the role they are to see.
Admit ==
    /\ st = "received" /\ st' = "answered"
    /\ \E role \in authenticate(snap, startup.env_secret, head, Identity),
          path \in canonicalize_path(head.path) :
          outcome' =
            [status |-> "admitted", role |-> {role}, path |-> path,
             ip     |-> compute_client_ip(head.peer, head, parse_trusted_proxies(snap.trusted)),
             route  |-> CASE path \in startup.metrics_path /\ head.method = "GET" -> "metrics"
                          [] OTHER -> IF is_upgrade_request(head) THEN "upgrade" ELSE "plain"]
    /\ UNCHANGED <<scenario, phase, reloads, configVars, listenerVars,
                   cert, valid, head, snap, snapFile>>

Next ==
    \/ Start \/ FailToStart \/ Reload \/ Restart
    \/ Accept \/ Receive \/ LockedOut \/ Deny \/ Admit

Spec == Init /\ [][Next]_vars

----------------------------------------------------------------------------
(* Properties.                                                              *)

\* Every variable keeps its type; what runs has a socket and answers with a role or
\* without one.
TypeOK ==
    /\ scenario \in DOMAIN Scenarios /\ phase \in {"starting", "running", "exited"}
    /\ reloads \in 0..MaxReloads /\ due \in BOOLEAN /\ listening \in BOOLEAN
    /\ phase = "running" => startup.socket_path \in Existing
    /\ st \in {"closed", "open", "received", "answered"}
    /\ cert \in world.certs \cup {None}
    /\ config \in ProxyConfig /\ snap \in ProxyConfig
    /\ file \in world.edits \cup {world.file, Defaults} /\ since \cup valid \subseteq ProxyConfig
    /\ outcome.status \in {"none", "malformed", "locked", "denied", "admitted"}
    /\ outcome.route \in {"none", "metrics", "upgrade", "plain"}

\* The roles that a file lists for a token.
Listed(f, token) ==
    IF f.auth = None THEN {}
    ELSE {RoleOf(f.auth.tokens[i]) :
            i \in {j \in DOMAIN f.auth.tokens :
                    expand_env(world.env, f.auth.tokens[j].token) = token}}

\* The administrator's secret: of the environment before that of the file.
Secret(f) ==
    LET secret == Value(world.env, "DOCKER_PROXY_SECRET") IN
    IF secret # <<>> THEN secret
    ELSE IF f.auth = None \/ f.auth.secret = None THEN <<>>
    ELSE expand_env(world.env, f.auth.secret)

\* The entries of a file's map that fit one of the names of a certificate, and the
\* roles that they and the first of them declare.
Fitting(f, names) ==
    {i \in DOMAIN Mapping(f.auth.mtls) :
        \E name \in names : cn_match(Mapping(f.auth.mtls)[i].cn, name)}

RolesOf(f, entries) == {Mapping(f.auth.mtls)[i].role : i \in entries}

FirstOf(entries) == {i \in entries : \A j \in entries : i <= j}

\* The roles that file f and the environment declare for a request's credentials.
Declared(f) ==
    CASE AuthType(f) = "none" -> {None}
      [] AuthType(f) = "mtls" ->
            IF cert = None \/ f.auth.mtls = None THEN {}
            ELSE LET fitting == Fitting(f, Range(Candidates(Identity)))
                 IN IF fitting # {} THEN RolesOf(f, fitting) ELSE {f.auth.mtls.default_role} \ {None}
      [] OTHER ->
            UNION {IF token = Secret(f) /\ Listed(f, token) = {} THEN {"admin"}
                   ELSE Listed(f, token) :
                    token \in extract_bearer_token(head) \ {<<>>}}

\* A request is admitted only in a role that is declared for its credentials in the
\* file that was in force when it was received, or by the environment, whose secret
\* replaces the file's.  Empty secrets and tokens are declarations of nothing.
AdmissionsDeclared ==
    outcome.status = "admitted" => outcome.role \subseteq Declared(snapFile)

\* Nobody is refused who has a role declared for the credentials presented, whatever
\* was reloaded before: the secret of the environment in particular keeps working.
\* A certificate of one name has the role of the first entry of the map that fits it.
DeclarationsHonoured ==
    /\ outcome.status = "denied" => Declared(snapFile) = {}
    /\ outcome.status = "admitted" /\ AuthType(snapFile) = "mtls" =>
          LET names   == Range(Candidates(Identity))
              fitting == Fitting(snapFile, names)
          IN (\A a, b \in names : a = b) /\ fitting # {} =>
                outcome.role \subseteq RolesOf(snapFile, FirstOf(fitting))

\* "Ordered list of {cn, role} entries. The cert's CN and SANs are matched against
\* each entry; [...] First match wins." (README.md, line 251): the role of a
\* certificate is that of the first entry of the map that fits any of its names.
FirstEntryWins ==
    outcome.status = "admitted" /\ AuthType(snapFile) = "mtls" =>
        LET fitting == Fitting(snapFile, Range(Candidates(Identity)))
        IN fitting # {} => outcome.role \subseteq RolesOf(snapFile, FirstOf(fitting))

\* A certificate that gets in was issued by the client CA of a file in force since
\* the listener was bound: once it has restarted, the old CA is of no use.
CertificatesVerified ==
    cert # None => \E f \in valid : f.tls # None /\ cert.issuer = f.tls.client_ca

\* What a client writes ahead of the hops in a line of X-Forwarded-For does not count
\* once a trusted proxy has added the client's address to that line; an untrusted peer
\* is itself.  Only the first line is read (headers.get): nothing is said of a proxy
\* that adds a line of its own, nor of X-Real-Ip and Forwarded.
ForgedHopsIgnored ==
    outcome.status = "admitted" =>
        LET trusted == parse_trusted_proxies(snapFile.trusted)
            hops    == First(head.forwarded_for)
            Forged(hop) == [head EXCEPT !.forwarded_for[1] = <<hop>> \o @]
        IN /\ head.peer \notin trusted => outcome.ip = head.peer
           /\ Range(hops) \cap (Addresses \ trusted) # {} =>
                 \A hop \in Addresses :
                     outcome.ip = compute_client_ip(head.peer, Forged(hop), trusted)

\* The path that the rules see and Docker is sent has no empty and no dot segment,
\* and unless it holds a percent sign, or starts with a version once more, it is its
\* own canonical form.
PathsCanonical ==
    outcome.status = "admitted" =>
        LET path == outcome.path IN
        /\ path[1] = "/"
        /\ \A i, j \in 1..(Len(path) + 1) :
              i < j /\ path[i] = "/" /\ (j = Len(path) + 1 \/ path[j] = "/") =>
                  SubSeq(path, i + 1, j - 1) \notin {<<".">>, <<".", ".">>}
                  /\ (j <= Len(path) => j > i + 1)
        /\ "%" \notin Range(path) /\ strip_api_version_prefix(path) = path =>
              canonicalize_path(path) = {path}

=============================================================================
