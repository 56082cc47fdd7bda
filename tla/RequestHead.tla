---------------------------- MODULE RequestHead ----------------------------
(***************************************************************************)
(* What src/main.rs and src/upgrade.rs read off the head of a request: its *)
(* canonical path, the address of its client, its bearer token and whether *)
(* it asks for an upgrade.                                                 *)
(*                                                                         *)
(* A path is a sequence of symbols, an escape such as %2e one of them.  A  *)
(* header is a sequence of lines, each already split at its commas; a line *)
(* that is not ASCII is one whose entries are no addresses.                *)
(***************************************************************************)
EXTENDS Integers, SequencesExt

CONSTANTS
    Escapes,        \* the escapes: a function to the symbol they stand for
    Unprintable,    \* control characters, and bytes that are not UTF-8
    MaxPathLen,     \* MAX_PATH_LEN
    MaxTokenLen,    \* MAX_TOKEN_LEN
    Addresses,      \* the texts that parse as an IP address
    Nets            \* the texts that parse as a CIDR range: a function to its addresses

\* A character is no escape, be it one as it is or one that an escape stands for.
ASSUME EscapesAssumption ==
    "/" \notin DOMAIN Escapes /\ \A e \in DOMAIN Escapes : Escapes[e] \notin DOMAIN Escapes

ASSUME LengthsAssumption == MaxPathLen \in Nat

Digits == {"0", "1"}

----------------------------------------------------------------------------
(* canonicalize_path                                                        *)

\* percent_decode; a "%" that starts no escape is an error.
percent_decode(raw) ==
    IF "%" \in Range(raw) THEN {}
    ELSE {[i \in DOMAIN raw |-> IF raw[i] \in DOMAIN Escapes THEN Escapes[raw[i]] ELSE raw[i]]}

\* A leading /v<digits and dots> is dropped, once.
strip_api_version_prefix(path) ==
    LET slashes == {i \in 3..Len(path) : path[i] = "/"}
        second  == Min(slashes)
        version == SubSeq(path, 3, second - 1)
    IN IF /\ IsPrefix(<<"/", "v">>, path) /\ slashes # {}
          /\ version \notin {<<>>, <<".">>}
          /\ Range(version) \subseteq Digits \cup {"."}
       THEN SubSeq(path, second, Len(path))
       ELSE path

\* Mutant: ".." removes nothing.
PushDotsOnly(segments, segment) ==
    IF segment \in {<<>>, <<".">>} THEN segments ELSE Append(segments, segment)

\* Empty and "." segments are dropped, and ".." drops the one before it.
Push(segments, segment) ==
    CASE segment \in {<<>>, <<".">>} -> segments
      [] segment = <<".", ".">> -> IF segments = <<>> THEN segments ELSE Front(segments)
      [] OTHER -> Append(segments, segment)

\* One symbol of a path, for the loop over split('/').
Read(scan, c) ==
    IF c = "/" THEN [segments |-> Push(scan.segments, scan.rest), rest |-> <<>>]
    ELSE [scan EXCEPT !.rest = Append(@, c)]

\* The segments pushed so far and the one being read, after each symbol of the path.
Scan(path) ==
    LET scan[i \in 0..Len(path)] ==
            IF i = 0 THEN [segments |-> <<>>, rest |-> <<>>] ELSE Read(scan[i - 1], path[i])
    IN scan

Resolve(path) ==
    LET scan == Scan(path)[Len(path)] IN Push(scan.segments, scan.rest)

\* The path of these segments.
Joined(segments, slash) ==
    FlattenSeq([i \in DOMAIN segments |-> <<"/">> \o segments[i]])
        \o (IF slash \/ segments = <<>> THEN <<"/">> ELSE <<>>)

canonicalize_path(raw) ==
    IF raw = <<>> \/ raw[1] # "/" \/ Len(raw) > MaxPathLen THEN {}
    ELSE {LET path == strip_api_version_prefix(decoded)
              slash == Len(path) > 1 /\ Last(path) = "/"
              segments == Resolve(path)
          IN Joined(segments, slash /\ segments # <<>>) :
          decoded \in {d \in percent_decode(raw) : Range(d) \cap Unprintable = {}}}

----------------------------------------------------------------------------
(* The client's address.                                                    *)

\* Entries that do not parse, single addresses among them, are ignored.
parse_trusted_proxies(raw) == UNION {Nets[net] : net \in Range(raw) \cap DOMAIN Nets}

\* headers.get(): the first line of a header.
First(lines) == IF lines = <<>> THEN <<>> ELSE Head(lines)

\* The first for= of a segment of Forwarded that is an address.
Named(segment) == segment[Min({j \in DOMAIN segment : segment[j] \in Addresses})]

\* Mutant: X-Forwarded-For is read from the left.
compute_client_ip_from_left(peer, h, trusted) ==
    LET real == First(h.real_ip)
        hops == First(h.forwarded_for)
        outside == {i \in DOMAIN hops : hops[i] \in Addresses \ trusted}
        segments == First(h.forwarded)
        naming == {i \in DOMAIN segments : Range(segments[i]) \cap Addresses # {}}
    IN CASE peer \notin trusted -> peer
         [] peer \in trusted /\ Len(real) = 1 /\ real[1] \in Addresses -> real[1]
         [] OTHER -> IF outside # {} THEN hops[Min(outside)]
                     ELSE IF naming # {} THEN Named(segments[Max(naming)]) ELSE peer

\* Only a trusted peer is believed: its X-Real-Ip, then the rightmost address of
\* X-Forwarded-For that is not a trusted proxy, then the rightmost of Forwarded.
compute_client_ip(peer, h, trusted) ==
    LET real == First(h.real_ip)
        hops == First(h.forwarded_for)
        outside == {i \in DOMAIN hops : hops[i] \in Addresses \ trusted}
        segments == First(h.forwarded)
        naming == {i \in DOMAIN segments : Range(segments[i]) \cap Addresses # {}}
    IN CASE peer \notin trusted -> peer
         [] peer \in trusted /\ Len(real) = 1 /\ real[1] \in Addresses -> real[1]
         [] OTHER -> IF outside # {} THEN hops[Max(outside)]
                     ELSE IF naming # {} THEN Named(segments[Max(naming)]) ELSE peer

----------------------------------------------------------------------------
\* extract_bearer_token: the token, if there is exactly one Authorization line and it
\* holds one.  A line is <<scheme, token>>.
extract_bearer_token(h) ==
    IF Len(h.authorization) # 1 THEN {}
    ELSE {token \in {h.authorization[1][2]} :
            /\ h.authorization[1][1] = "Bearer"
            /\ Len(token) \in 1..MaxTokenLen}

\* header_has_token: whatever the case of its letters.
header_has_token(line) == Range(line) \cap {"upgrade", "Upgrade"} # {}

is_upgrade_request(h) ==
    h.upgrade # <<>> /\ \E i \in DOMAIN h.connection : header_has_token(h.connection[i])

=============================================================================
