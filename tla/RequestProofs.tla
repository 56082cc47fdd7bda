--------------------------- MODULE RequestProofs ---------------------------
(***************************************************************************)
(* Proofs about Request: every variable keeps its type, no reload lets a   *)
(* request reach Docker that no single configuration would let through,    *)
(* the audit trail is exact and the counters tell what became of requests. *)
(***************************************************************************)
EXTENDS Request, FiniteSums, TLAPS

Labels == {"unborn", "cancelled"} \cup InHandler \cup Answers \cup Tunnels

\* The part of TypeOK that is about the requests and the configuration.
RequestsTyped ==
    /\ config \in Policies /\ reloads \in 0..MaxReloads
    /\ pc \in [Reqs -> Labels]
    /\ kind \in [Reqs -> Kinds]
    /\ snap \in [Reqs -> Policies \cup {None}]
    /\ \A r \in Reqs : pc[r] \notin {"unborn", "malformed"} => snap[r] \in Policies
    /\ decision \in [Reqs -> {"none", "pass", "deny", "dry_run", "limited"}]
    /\ forwarded \in [Reqs -> BOOLEAN]
    /\ seen \in [Reqs -> SUBSET Policies]

AuditTyped ==
    /\ phase \in {"disabled", "opening", "writing", "closed"}
    /\ queue \in Seq(Event) /\ log \in Seq(Event)
    /\ inhand \in Event \cup {None} /\ lost \subseteq Event

MetricsTyped == metrics \in [Counters -> Nat]

LEMMA TypeParts == TypeOK <=> RequestsTyped /\ AuditTyped /\ MetricsTyped
  BY DEF TypeOK, RequestsTyped, AuditTyped, MetricsTyped, Labels

\* What one request's step does to the request itself.
LEMMA GotoTyped ==
    ASSUME RequestsTyped, NEW r \in Reqs, NEW l \in Labels, Goto(r, l),
           snap[r] \in Policies, UNCHANGED <<config, reloads, kind, snap, seen>>,
           decision' \in [Reqs -> {"none", "pass", "deny", "dry_run", "limited"}],
           forwarded' \in [Reqs -> BOOLEAN]
    PROVE  RequestsTyped'
  BY DEF RequestsTyped, Goto

LEMMA CountTyped ==
    ASSUME MetricsTyped, NEW S, Count(S)
    PROVE  MetricsTyped'
  BY DEF MetricsTyped, Count

LEMMA EmitTyped ==
    ASSUME AuditTyped, NEW e \in Event, Emit(e)
    PROVE  AuditTyped'
  BY DEF AuditTyped, Emit

LEMMA TypeInit == Init => TypeOK
  BY PoliciesAssumption, BoundsAssumption
     DEF Init, TypeOK, Kinds, Counters, InHandler, Answers, Tunnels

\* An action of one request that only moves it on, and may count something.
Moves(r, L) ==
    /\ \E l \in L : Goto(r, l)
    /\ snap[r] \in Policies
    /\ UNCHANGED <<config, reloads, kind, snap, seen>>
    /\ UNCHANGED metrics \/ \E S \in SUBSET Counters : Count(S)
    /\ UNCHANGED auditVars \/ \E e \in Event : Emit(e)

\* Every step of a request after its arrival.
LEMMA StepShape ==
    ASSUME TypeOK, NEW r \in Reqs,
           \/ Local(r) \/ ReadBody(r) \/ Connected(r) \/ UpstreamError(r)
           \/ Respond(r) \/ Serve(r) \/ RelayRefusal(r) \/ TimeOut(r) \/ Cancel(r)
           \/ Resolve(r) \/ FailResolve(r)
    PROVE  /\ Moves(r, Labels)
           /\ decision' \in [Reqs -> {"none", "pass", "deny", "dry_run", "limited"}]
           /\ forwarded' \in [Reqs -> BOOLEAN]
  <1>0. /\ pc[r] \notin {"unborn", "malformed"} => snap[r] \in Policies
        /\ decision \in [Reqs -> {"none", "pass", "deny", "dry_run", "limited"}]
        /\ forwarded \in [Reqs -> BOOLEAN]
        /\ kind[r] \in Kinds
    BY DEF TypeOK
  <1> USE <1>0 DEF Moves, Labels, InHandler, Awaits, Answers, Unavailable, Tunnels
  <1>1. CASE Local(r)
    <2>1. CASE Admit(r)
      <3>1. CASE kind[r] = "scrape"
        BY <2>1, <3>1 DEF Admit
      <3>2. CASE kind[r] = "upgrade"
        <4>1. Count({"upgrade_total"}) /\ {"upgrade_total"} \in SUBSET Counters
          BY <2>1, <3>2 DEF Admit, Counters
        <4> QED
          BY <2>1, <3>2, <4>1 DEF Admit
      <3>3. CASE kind[r] = "plain"
        BY <2>1, <3>3 DEF Admit
      <3> QED
        BY <3>1, <3>2, <3>3 DEF Kinds
    <2>2. CASE DenyAuth(r)
      <3>1. Count({"requests_denied"}) /\ {"requests_denied"} \in SUBSET Counters
        BY <2>2 DEF DenyAuth, Counters
      <3>2. Emit(<<r, "auth_denied">>) /\ <<r, "auth_denied">> \in Event
        BY <2>2 DEF DenyAuth, Event
      <3> QED
        BY <2>2, <3>1, <3>2 DEF DenyAuth
    <2>3. CASE Evaluate(r)
      <3>1. PICK d \in Decisions(r) :
               /\ decision' = [decision EXCEPT ![r] = d]
               /\ Count(CountersOf(r, d))
               /\ CASE d = "deny"    -> Goto(r, "forbidden") /\ Emit(<<r, "deny">>)
                    [] d = "limited" -> Goto(r, "limited") /\ Emit(<<r, "deny">>)
                    [] d = "dry_run" -> Goto(r, "connect") /\ Emit(<<r, "dry_run">>)
                    [] d = "pass"    -> Goto(r, "connect") /\ UNCHANGED auditVars
        BY <2>3 DEF Evaluate
      <3>2. d \in {"pass", "deny", "dry_run", "limited"} /\ snap[r] \in Policies
        BY <2>3, PoliciesAssumption DEF Evaluate, Decisions, Policy
      <3>3. CountersOf(r, d) \in SUBSET Counters
        BY <3>2 DEF CountersOf, Counters
      <3>4. <<r, "deny">> \in Event /\ <<r, "dry_run">> \in Event
        BY DEF Event
      <3>5. (\E l \in Labels : Goto(r, l)) /\ (UNCHANGED auditVars \/ \E e \in Event : Emit(e))
        BY <3>1, <3>2, <3>4
      <3> QED
        BY <2>3, <3>1, <3>2, <3>3, <3>5 DEF Evaluate
    <2>4. CASE SendRequest(r)
      BY <2>4 DEF SendRequest
    <2>5. CASE BuildFails(r)
      BY <2>5 DEF BuildFails
    <2> QED
      BY <1>1, <2>1, <2>2, <2>3, <2>4, <2>5 DEF Local
  <1>2. CASE ReadBody(r)
    <2>1. {"body_too_large"} \in SUBSET Counters /\ {"bad_request"} \in SUBSET Counters
      BY DEF Counters
    <2> QED
      BY <1>2, <2>1 DEF ReadBody
  <1>3. CASE Connected(r)
    BY <1>3 DEF Connected
  <1>4. CASE UpstreamError(r)
    <2>1. {"upstream_errors"} \in SUBSET Counters
      BY DEF Counters
    <2> QED
      BY <1>4, <2>1 DEF UpstreamError
  <1>5. CASE Respond(r)
    BY <1>5 DEF Respond
  <1>6. CASE Serve(r)
    <2>1. {"requests_allowed"} \in SUBSET Counters
      BY DEF Counters
    <2> QED
      BY <1>6, <2>1 DEF Serve
  <1>7. CASE RelayRefusal(r)
    BY <1>7 DEF RelayRefusal
  <1>8. CASE TimeOut(r)
    <2>1. {"request_timeouts"} \in SUBSET Counters /\ {"upstream_timeouts"} \in SUBSET Counters
      BY DEF Counters
    <2> QED
      BY <1>8, <2>1 DEF TimeOut
  <1>9. CASE Cancel(r)
    BY <1>9 DEF Cancel
  <1>10. CASE Resolve(r)
    BY <1>10 DEF Resolve
  <1>11. CASE FailResolve(r)
    <2>1. \A c \in {"upstream_errors", "upstream_timeouts"} : {c} \in SUBSET Counters
      BY DEF Counters
    <2> QED
      BY <1>11, <2>1 DEF FailResolve
  <1> QED
    BY <1>1, <1>2, <1>3, <1>4, <1>5, <1>6, <1>7, <1>8, <1>9, <1>10, <1>11

LEMMA MovesTyped ==
    ASSUME TypeOK, NEW r \in Reqs, Moves(r, Labels),
           decision' \in [Reqs -> {"none", "pass", "deny", "dry_run", "limited"}],
           forwarded' \in [Reqs -> BOOLEAN]
    PROVE  TypeOK'
  <1>1. RequestsTyped'
    BY TypeParts, GotoTyped DEF Moves
  <1>2. AuditTyped'
    <2>1. CASE UNCHANGED auditVars
      BY <2>1, TypeParts DEF AuditTyped, auditVars
    <2>2. ASSUME NEW e \in Event, Emit(e) PROVE AuditTyped'
      BY <2>2, TypeParts, EmitTyped
    <2> QED
      BY <2>1, <2>2 DEF Moves
  <1>3. MetricsTyped'
    <2>1. CASE UNCHANGED metrics
      BY <2>1, TypeParts DEF MetricsTyped
    <2>2. ASSUME NEW S, Count(S) PROVE MetricsTyped'
      BY <2>2, TypeParts, CountTyped
    <2> QED
      BY <2>1, <2>2 DEF Moves
  <1>4. (RequestsTyped /\ AuditTyped /\ MetricsTyped)' => TypeOK'
    BY DEF TypeOK, RequestsTyped, AuditTyped, MetricsTyped, Labels
  <1> QED
    BY <1>1, <1>2, <1>3, <1>4

LEMMA TypeNext == TypeOK /\ [Next]_vars => TypeOK'
  <1> SUFFICES ASSUME TypeOK, [Next]_vars PROVE TypeOK'
    OBVIOUS
  <1> USE BoundsAssumption
  <1>1. ASSUME NEW r \in Reqs, Receive(r) PROVE TypeOK'
    <2>1. MetricsTyped'
      BY <1>1, TypeParts, CountTyped DEF Receive
    <2>2. AuditTyped'
      BY <1>1, TypeParts DEF Receive, AuditTyped, auditVars
    <2>3. RequestsTyped'
      BY <1>1, TypeParts DEF Receive, Goto, RequestsTyped, Labels, InHandler, Answers
    <2> QED
      BY <2>1, <2>2, <2>3 DEF TypeOK, RequestsTyped, AuditTyped, MetricsTyped, Labels
  <1>2. ASSUME NEW r \in Reqs,
               \/ Local(r) \/ ReadBody(r) \/ Connected(r) \/ UpstreamError(r)
               \/ Respond(r) \/ Serve(r) \/ RelayRefusal(r) \/ TimeOut(r) \/ Cancel(r)
               \/ Resolve(r) \/ FailResolve(r)
        PROVE  TypeOK'
    BY <1>2, StepShape, MovesTyped
  <1>3. CASE SwapConfig
    BY <1>3 DEF SwapConfig, TypeOK, auditVars
  <1>4. CASE Writer
    <2>1. UNCHANGED <<config, reloads, reqVars, metrics>>
      BY <1>4 DEF Writer, OpenLog, ReceiveEvent, WriteEvent
    <2>2. AuditTyped'
      <3>1. Range(queue) \subseteq Event
        BY DEF TypeOK, Range
      <3>2. CASE OpenLog
        <4>1. /\ inhand' = inhand /\ log' = log /\ phase' \in {"writing", "closed"}
              /\ \/ queue' = queue /\ lost' = lost
                 \/ queue' = <<>> /\ lost' = lost \cup Range(queue)
          BY <3>2 DEF OpenLog
        <4>2. queue' \in Seq(Event)
          <5>1. queue \in Seq(Event) /\ <<>> \in Seq(Event)
            BY DEF TypeOK
          <5> QED
            BY <4>1, <5>1
        <4>3. lost' \subseteq Event
          BY <3>1, <4>1 DEF TypeOK
        <4> QED
          BY <4>1, <4>2, <4>3 DEF TypeOK, AuditTyped
      <3>3. CASE ReceiveEvent
        BY <3>3 DEF TypeOK, ReceiveEvent, AuditTyped
      <3>4. CASE WriteEvent
        <4>1. /\ inhand \in Event /\ inhand' = None /\ phase' = phase /\ queue' = queue
              /\ \/ log' = Append(log, inhand) /\ lost' = lost
                 \/ lost' = lost \cup {inhand} /\ log' = log
          BY <3>4 DEF TypeOK, WriteEvent
        <4>2. log' \in Seq(Event) /\ lost' \subseteq Event
          <5>1. log \in Seq(Event) /\ lost \subseteq Event
            BY DEF TypeOK
          <5>2. Append(log, inhand) \in Seq(Event)
            BY <4>1, <5>1
          <5> QED
            BY <4>1, <5>1, <5>2
        <4> QED
          BY <4>1, <4>2 DEF TypeOK, AuditTyped
      <3> QED
        BY <1>4, <3>2, <3>3, <3>4 DEF Writer
    <2> QED
      BY <2>1, <2>2 DEF TypeOK, AuditTyped, reqVars
  <1>5. CASE UNCHANGED vars
    BY <1>5 DEF TypeOK, vars, reqVars, auditVars
  <1> QED
    BY <1>1, <1>2, <1>3, <1>4, <1>5 DEF Next

\* Every variable of the request pipeline keeps its type: TypeOK for any number of
\* requests, configurations and reloads.
THEOREM TypeCorrect == Spec => []TypeOK
  BY TypeInit, TypeNext, PTL DEF Spec

----------------------------------------------------------------------------
(* The inductive invariant behind ForwardedUnderOnePolicy: the snapshot is a *)
(* configuration that was in force, and what the request has been through so *)
(* far it owes to its snapshot alone.                                        *)
Exchange == {"connect", "handshake", "awaiting", "reading", "refused"}

SnapshotSeen == \A r \in Reqs : snap[r] # None => snap[r] \in seen[r]

AdmittedBySnapshot ==
    \A r \in Reqs : pc[r] \in {"rules", "body"} \cup Exchange => snap[r].admits

AllowedBySnapshot ==
    \A r \in Reqs : pc[r] \in Exchange => snap[r].verdict # "deny"

ForwardedBySnapshot ==
    \A r \in Reqs : forwarded[r] =>
        snap[r] \in Policies /\ snap[r].admits /\ snap[r].verdict # "deny"

ForwardedAfterArrival == \A r \in Reqs : pc[r] = "unborn" => ~forwarded[r]

PolicyInv ==
    /\ TypeOK
    /\ SnapshotSeen
    /\ AdmittedBySnapshot
    /\ AllowedBySnapshot
    /\ ForwardedBySnapshot
    /\ ForwardedAfterArrival

LEMMA PolicyInvInit == Init => PolicyInv
  <1> SUFFICES ASSUME Init PROVE PolicyInv
    OBVIOUS
  <1>1. TypeOK
    BY TypeInit
  <1> QED
    BY <1>1 DEF Init, PolicyInv, SnapshotSeen, AdmittedBySnapshot, AllowedBySnapshot,
                ForwardedBySnapshot, ForwardedAfterArrival, Exchange

\* A step that leaves the request's snapshot alone, and either leaves the exchange
\* or was in it already, keeps the invariant.
LEMMA PolicyInvMoves ==
    ASSUME PolicyInv, TypeOK', NEW r \in Reqs, NEW l \in Labels \ {"unborn"}, Goto(r, l),
           UNCHANGED <<snap, seen>>,
           l \in {"rules", "body"} \cup Exchange => snap[r].admits,
           l \in Exchange => snap[r].verdict # "deny",
           UNCHANGED forwarded \/ (pc[r] \in Exchange /\ forwarded' = [forwarded EXCEPT ![r] = TRUE])
    PROVE  PolicyInv'
  <1>1. SnapshotSeen'
    BY DEF PolicyInv, SnapshotSeen
  <1>2. AdmittedBySnapshot' /\ AllowedBySnapshot'
    BY DEF PolicyInv, AdmittedBySnapshot, AllowedBySnapshot, Goto, TypeOK
  <1>3. ForwardedBySnapshot'
    <2>1. pc[r] \in Exchange => snap[r] \in Policies /\ snap[r].admits /\ snap[r].verdict # "deny"
      BY DEF PolicyInv, AdmittedBySnapshot, AllowedBySnapshot, TypeOK, Exchange
    <2> QED
      BY <2>1 DEF PolicyInv, ForwardedBySnapshot, TypeOK
  <1>4. ForwardedAfterArrival'
    BY DEF PolicyInv, ForwardedAfterArrival, Goto, TypeOK
  <1> QED
    BY <1>1, <1>2, <1>3, <1>4 DEF PolicyInv

LEMMA PolicyInvNext == PolicyInv /\ [Next]_vars => PolicyInv'
  <1> SUFFICES ASSUME PolicyInv, [Next]_vars PROVE PolicyInv'
    OBVIOUS
  <1>0. TypeOK /\ TypeOK'
    BY TypeNext DEF PolicyInv
  <1>1. ASSUME NEW r \in Reqs, Receive(r) PROVE PolicyInv'
    <2>1. /\ \A q \in Reqs \ {r} : pc'[q] = pc[q] /\ snap'[q] = snap[q] /\ seen'[q] = seen[q]
          /\ pc'[r] \in {"malformed", "auth"} /\ UNCHANGED forwarded
          /\ \/ snap'[r] = snap[r] /\ seen'[r] = seen[r]
             \/ snap'[r] = config /\ seen'[r] = {config}
      BY <1>0, <1>1 DEF Receive, Goto, TypeOK
    <2>2. SnapshotSeen' /\ AdmittedBySnapshot' /\ AllowedBySnapshot'
      BY <2>1 DEF PolicyInv, SnapshotSeen, AdmittedBySnapshot, AllowedBySnapshot, Exchange
    <2>3. ForwardedBySnapshot'
      <3>1. ~forwarded[r]
        BY <1>1 DEF Receive, PolicyInv, ForwardedAfterArrival
      <3> QED
        BY <2>1, <3>1 DEF PolicyInv, ForwardedBySnapshot
    <2>4. ForwardedAfterArrival'
      BY <2>1 DEF PolicyInv, ForwardedAfterArrival
    <2> QED
      BY <1>0, <2>2, <2>3, <2>4 DEF PolicyInv
  <1>2. ASSUME NEW r \in Reqs, Admit(r) PROVE PolicyInv'
    <2>1. /\ \E l \in {"scraped", "rules", "body"} : Goto(r, l)
          /\ snap[r].admits /\ UNCHANGED <<snap, seen, forwarded>>
      BY <1>0, <1>2 DEF Admit, TypeOK, Kinds
    <2> QED
      BY <1>0, <2>1, PolicyInvMoves DEF Labels, InHandler, Awaits, Answers, Exchange
  <1>3. ASSUME NEW r \in Reqs, Evaluate(r) PROVE PolicyInv'
    <2>1. /\ pc[r] = "rules" /\ snap[r] \in Policies /\ snap[r].admits
          /\ UNCHANGED <<snap, seen, forwarded>>
      BY <1>0, <1>3 DEF Evaluate, PolicyInv, AdmittedBySnapshot, TypeOK
    <2>2. PICK d \in Decisions(r) :
             CASE d = "deny"    -> Goto(r, "forbidden") /\ Emit(<<r, "deny">>)
               [] d = "limited" -> Goto(r, "limited") /\ Emit(<<r, "deny">>)
               [] d = "dry_run" -> Goto(r, "connect") /\ Emit(<<r, "dry_run">>)
               [] d = "pass"    -> Goto(r, "connect") /\ UNCHANGED auditVars
      BY <1>3 DEF Evaluate
    <2>3. /\ d \in {"pass", "deny", "dry_run", "limited"}
          /\ d \in {"pass", "dry_run"} => snap[r].verdict # "deny"
      BY <2>1, PoliciesAssumption DEF Decisions, Policy
    <2>4. CASE d \in {"deny", "limited"}
      <3>1. \E l \in {"forbidden", "limited"} : Goto(r, l)
        BY <2>2, <2>4
      <3> QED
        BY <1>0, <2>1, <3>1, PolicyInvMoves DEF Labels, Answers, Exchange
    <2>5. CASE d \in {"pass", "dry_run"}
      <3>1. Goto(r, "connect")
        BY <2>2, <2>5
      <3> QED
        BY <1>0, <2>1, <2>3, <2>5, <3>1, PolicyInvMoves DEF Labels, InHandler, Awaits
    <2> QED
      BY <2>3, <2>4, <2>5
  <1>4. ASSUME NEW r \in Reqs, ReadBody(r) PROVE PolicyInv'
    <2>1. /\ \E l \in {"rules", "too_large", "bad_body"} : Goto(r, l)
          /\ snap[r].admits /\ UNCHANGED <<snap, seen, forwarded>>
      BY <1>4 DEF ReadBody, PolicyInv, AdmittedBySnapshot
    <2> QED
      BY <1>0, <2>1, PolicyInvMoves DEF Labels, InHandler, Answers, Exchange
  <1>5. ASSUME NEW r \in Reqs, Connected(r) \/ SendRequest(r) \/ Respond(r) PROVE PolicyInv'
    <2>1. /\ pc[r] \in Exchange
          /\ \E l \in Exchange \cup {"resolve_client"} : Goto(r, l)
          /\ UNCHANGED <<snap, seen>>
          /\ UNCHANGED forwarded \/ forwarded' = [forwarded EXCEPT ![r] = TRUE]
      BY <1>5 DEF Connected, SendRequest, Respond, Exchange
    <2>2. snap[r].admits /\ snap[r].verdict # "deny"
      BY <2>1 DEF PolicyInv, AdmittedBySnapshot, AllowedBySnapshot
    <2> QED
      BY <1>0, <2>1, <2>2, PolicyInvMoves DEF Labels, InHandler, Awaits, Tunnels, Exchange
  <1>6. ASSUME NEW r \in Reqs,
               \/ DenyAuth(r) \/ BuildFails(r) \/ UpstreamError(r) \/ Serve(r) \/ RelayRefusal(r)
               \/ TimeOut(r) \/ Cancel(r) \/ Resolve(r) \/ FailResolve(r)
        PROVE  PolicyInv'
    <2>1. /\ \E l \in {"cancelled"} \cup Answers \cup Tunnels : Goto(r, l)
          /\ UNCHANGED <<snap, seen, forwarded>>
      BY <1>6 DEF DenyAuth, BuildFails, UpstreamError, Serve, RelayRefusal, TimeOut, Cancel, Resolve,
                  FailResolve, Answers, Unavailable, Tunnels
    <2> QED
      BY <1>0, <2>1, PolicyInvMoves DEF Labels, Answers, Unavailable, Tunnels, Exchange
  <1>7. CASE SwapConfig
    <2>1. /\ UNCHANGED <<pc, snap, forwarded>>
          /\ \A r \in Reqs : seen[r] \subseteq seen'[r]
      BY <1>7 DEF SwapConfig
    <2> QED
      BY <1>0, <2>1 DEF PolicyInv, SnapshotSeen, AdmittedBySnapshot, AllowedBySnapshot,
                        ForwardedBySnapshot, ForwardedAfterArrival
  <1>8. CASE Writer \/ UNCHANGED vars
    <2>1. UNCHANGED reqVars
      BY <1>8 DEF Writer, OpenLog, ReceiveEvent, WriteEvent, vars
    <2> QED
      BY <1>0, <2>1 DEF PolicyInv, SnapshotSeen, AdmittedBySnapshot, AllowedBySnapshot,
                        ForwardedBySnapshot, ForwardedAfterArrival, reqVars
  <1> QED
    BY <1>1, <1>2, <1>3, <1>4, <1>5, <1>6, <1>7, <1>8 DEF Next, Local

\* ForwardedUnderOnePolicy for any number of requests and reloads: what reaches
\* Docker was admitted and allowed by one configuration in force while the request
\* was in progress.
THEOREM NoMixedConfigurations == Spec => []ForwardedUnderOnePolicy
  <1>1. PolicyInv => ForwardedUnderOnePolicy
    <2> SUFFICES ASSUME PolicyInv, NEW r \in Reqs, forwarded[r]
                 PROVE  \E p \in seen[r] : p.admits /\ p.verdict # "deny"
      BY DEF ForwardedUnderOnePolicy
    <2>1. snap[r] \in Policies /\ snap[r].admits /\ snap[r].verdict # "deny"
      BY DEF PolicyInv, ForwardedBySnapshot
    <2>2. snap[r] \in seen[r]
      BY <2>1, PoliciesAssumption DEF PolicyInv, SnapshotSeen
    <2> QED
      BY <2>1, <2>2
  <1> QED
    BY <1>1, PolicyInvInit, PolicyInvNext, PTL DEF Spec

----------------------------------------------------------------------------
(* The inductive invariant behind AuditTrailExact.  Counting events is not   *)
(* inductive by itself: an event that the writer drops must not have been    *)
(* dropped before, nor one that goes down with the channel.  So the four     *)
(* places of an event are shown to be apart, and the two sequences free of   *)
(* repetitions; the count follows at the end.                                *)
Distinct(s) == \A i, j \in DOMAIN s : s[i] = s[j] => i = j

\* Before the rules, nothing has been decided.
Undecided ==
    \A r \in Reqs : pc[r] \in {"unborn", "auth", "body", "rules"} => decision[r] = "none"

PlacesApart ==
    /\ Range(log) \cap (Pending \cup Range(queue) \cup lost) = {}
    /\ Pending \cap (Range(queue) \cup lost) = {}
    /\ Range(queue) \cap lost = {}

Trail ==
    /\ Range(log) \cup Pending \cup Range(queue) \cup lost = Reportable
    /\ PlacesApart
    /\ Distinct(log) /\ Distinct(queue)
    /\ Len(queue) <= AuditCap

AuditInv == TypeOK /\ Undecided /\ (phase # "disabled" => Trail)

LEMMA Appending ==
    ASSUME NEW E, NEW s \in Seq(E), NEW e \in E
    PROVE  /\ Range(Append(s, e)) = Range(s) \cup {e}
           /\ Len(Append(s, e)) = Len(s) + 1
           /\ Distinct(s) /\ e \notin Range(s) => Distinct(Append(s, e))
  <1> DEFINE a == Append(s, e)
  <1>1. /\ Len(s) \in Nat /\ DOMAIN s = 1..Len(s) /\ DOMAIN a = 1..(Len(s) + 1)
        /\ Len(a) = Len(s) + 1
        /\ \A i \in 1..Len(s) : a[i] = s[i]
        /\ a[Len(s) + 1] = e
    OBVIOUS
  <1> HIDE DEF a
  <1>2. DOMAIN a = DOMAIN s \cup {Len(s) + 1} /\ Len(s) + 1 \notin DOMAIN s
    BY <1>1
  <1>3. Range(a) = Range(s) \cup {e}
    BY <1>1, <1>2 DEF Range
  <1>4. Distinct(s) /\ e \notin Range(s) => Distinct(a)
    BY <1>1, <1>2 DEF Range, Distinct
  <1> QED
    BY <1>1, <1>3, <1>4 DEF a

LEMMA Splitting ==
    ASSUME NEW E, NEW s \in Seq(E), s # <<>>
    PROVE  /\ Range(s) = {Head(s)} \cup Range(Tail(s))
           /\ Head(s) \in E /\ Tail(s) \in Seq(E) /\ Len(Tail(s)) = Len(s) - 1
           /\ Distinct(s) => Distinct(Tail(s)) /\ Head(s) \notin Range(Tail(s))
  <1> DEFINE u == Tail(s)
  <1>1. /\ Len(s) \in Nat \ {0} /\ DOMAIN s = 1..Len(s) /\ DOMAIN u = 1..(Len(s) - 1)
        /\ u \in Seq(E) /\ Len(u) = Len(s) - 1 /\ Head(s) = s[1] /\ Head(s) \in E
        /\ \A i \in 1..(Len(s) - 1) : u[i] = s[i + 1]
    OBVIOUS
  <1> HIDE DEF u
  <1>2. \A i \in 1..Len(s) : i # 1 => i - 1 \in 1..(Len(s) - 1) /\ u[i - 1] = s[i]
    BY <1>1
  <1>3. \A i \in 1..(Len(s) - 1) : i + 1 \in 1..Len(s) /\ i + 1 # 1
    BY <1>1
  <1>4. Range(s) = {s[1]} \cup Range(u)
    <2>1. ASSUME NEW i \in 1..Len(s) PROVE s[i] \in {s[1]} \cup Range(u)
      BY <1>1, <1>2 DEF Range
    <2>2. ASSUME NEW i \in 1..(Len(s) - 1) PROVE u[i] \in Range(s)
      BY <1>1, <1>3 DEF Range
    <2>3. s[1] \in Range(s)
      BY <1>1 DEF Range
    <2> QED
      BY <1>1, <2>1, <2>2, <2>3 DEF Range
  <1>5. Distinct(s) => Distinct(u)
    <2> SUFFICES ASSUME Distinct(s), NEW i \in 1..(Len(s) - 1), NEW j \in 1..(Len(s) - 1),
                        u[i] = u[j]
                 PROVE  i = j
      BY <1>1 DEF Distinct
    <2>1. s[i + 1] = s[j + 1]
      BY <1>1
    <2>2. i + 1 = j + 1
      BY <1>1, <1>3, <2>1 DEF Distinct
    <2> QED
      BY <2>2
  <1>6. Distinct(s) => s[1] \notin Range(u)
    BY <1>1, <1>3 DEF Distinct, Range
  <1> QED
    BY <1>1, <1>4, <1>5, <1>6 DEF u

\* A sequence without repetitions is as long as the set of its elements is large.
LEMMA DistinctLength ==
    ASSUME NEW E, NEW s \in Seq(E), Distinct(s)
    PROVE  IsFiniteSet(Range(s)) /\ Cardinality(Range(s)) = Len(s)
  <1>1. Len(s) \in Nat /\ s \in [1..Len(s) -> Range(s)] /\ DOMAIN s = 1..Len(s)
    BY DEF Range
  <1>2. s \in Bijection(1..Len(s), Range(s))
    BY <1>1, SMTT(30) DEF Bijection, Injection, Surjection, IsInjective, Distinct, Range
  <1>3. ExistsBijection(1..Len(s), Range(s))
    BY <1>2 DEF ExistsBijection
  <1>4. IsFiniteSet(1..Len(s)) /\ Cardinality(1..Len(s)) = Len(s)
    BY <1>1, FS_Interval, SMTT(30)
  <1> QED
    BY <1>3, <1>4, FS_Bijection

\* A reportable event that was not reportable before is sent to the audit channel.
LEMMA EmitKeepsTrail ==
    ASSUME AuditInv, NEW e \in Event, e \notin Reportable, Emit(e),
           Reportable' = Reportable \cup {e}
    PROVE  (phase # "disabled" => Trail)'
  <1> SUFFICES ASSUME phase # "disabled" PROVE Trail'
    BY DEF Emit
  <1>0. /\ queue \in Seq(Event) /\ Len(queue) \in Nat /\ lost \subseteq Event
        /\ Trail /\ phase' = phase /\ log' = log /\ inhand' = inhand /\ Pending' = Pending
    BY DEF AuditInv, TypeOK, Emit, Pending
  <1>1. CASE phase \in {"opening", "writing"} /\ Len(queue) < AuditCap
    <2>1. queue' = Append(queue, e) /\ lost' = lost
      BY <1>1 DEF Emit
    <2>2. e \notin Range(queue)
      BY <1>0 DEF Trail
    <2>3. Range(queue') = Range(queue) \cup {e} /\ Len(queue') = Len(queue) + 1 /\ Distinct(queue')
      BY <1>0, <2>1, <2>2, Appending DEF Trail
    <2>4. Len(queue') <= AuditCap
      BY <1>0, <1>1, <2>3, BoundsAssumption
    <2> QED
      BY <1>0, <2>1, <2>3, <2>4 DEF Trail, PlacesApart
  <1>2. CASE ~(phase \in {"opening", "writing"} /\ Len(queue) < AuditCap)
    <2>1. queue' = queue /\ lost' = lost \cup {e}
      BY <1>2 DEF Emit
    <2> QED
      BY <1>0, <2>1 DEF Trail, PlacesApart
  <1> QED
    BY <1>1, <1>2

\* The audit writer moves events along.
LEMMA WriterKeepsTrail ==
    ASSUME AuditInv, Writer
    PROVE  (phase # "disabled" => Trail)'
  <1>1. Reportable' = Reportable
    BY DEF Writer, OpenLog, ReceiveEvent, WriteEvent, reqVars, Reportable
  <1>2. (phase' = "disabled") <=> (phase = "disabled")
    BY DEF Writer, OpenLog, ReceiveEvent, WriteEvent
  <1> SUFFICES ASSUME phase # "disabled" PROVE Trail'
    BY <1>2
  <1>3. /\ queue \in Seq(Event) /\ Len(queue) \in Nat /\ log \in Seq(Event)
        /\ inhand \in Event \cup {None} /\ None \notin Event
        /\ Trail
    BY BoundsAssumption DEF AuditInv, TypeOK
  <1>4. CASE OpenLog
    <2>1. log' = log /\ Pending' = Pending
      BY <1>4 DEF OpenLog, Pending
    <2>2. CASE queue' = queue /\ lost' = lost
      BY <1>1, <1>3, <2>1, <2>2 DEF Trail, PlacesApart
    <2>3. CASE queue' = <<>> /\ lost' = lost \cup Range(queue)
      <3>1. Range(queue') = {} /\ Distinct(queue') /\ Len(queue') = 0
        BY <2>3 DEF Range, Distinct
      <3>2. Len(queue') <= AuditCap
        BY <3>1, BoundsAssumption
      <3> QED
        BY <1>1, <1>3, <2>1, <2>3, <3>1, <3>2 DEF Trail, PlacesApart
    <2> QED
      BY <1>4, <2>2, <2>3 DEF OpenLog
  <1>5. CASE ReceiveEvent
    <2>1. /\ inhand = None /\ queue # <<>> /\ inhand' = Head(queue) /\ queue' = Tail(queue)
          /\ log' = log /\ lost' = lost
      BY <1>5 DEF ReceiveEvent
    <2>2. /\ Range(queue) = {inhand'} \cup Range(queue') /\ inhand' \in Event
          /\ Len(queue') = Len(queue) - 1 /\ Distinct(queue') /\ inhand' \notin Range(queue')
      BY <1>3, <2>1, Splitting DEF Trail
    <2>3. Pending = {} /\ Pending' = {inhand'}
      BY <1>3, <2>1, <2>2 DEF Pending
    <2>4. Len(queue') <= AuditCap
      BY <1>3, <2>2, BoundsAssumption DEF Trail
    <2> QED
      BY <1>1, <1>3, <2>1, <2>2, <2>3, <2>4 DEF Trail, PlacesApart
  <1>6. CASE WriteEvent
    <2>1. /\ inhand \in Event /\ Pending = {inhand} /\ Pending' = {} /\ queue' = queue
          /\ \/ log' = Append(log, inhand) /\ lost' = lost
             \/ lost' = lost \cup {inhand} /\ log' = log
      BY <1>3, <1>6 DEF WriteEvent, Pending
    <2>2. CASE log' = Append(log, inhand) /\ lost' = lost
      <3>1. inhand \notin Range(log)
        BY <1>3, <2>1 DEF Trail, PlacesApart
      <3>2. Range(log') = Range(log) \cup {inhand} /\ Distinct(log')
        BY <1>3, <2>1, <2>2, <3>1, Appending DEF Trail
      <3> QED
        BY <1>1, <1>3, <2>1, <2>2, <3>2 DEF Trail, PlacesApart
    <2>3. CASE lost' = lost \cup {inhand} /\ log' = log
      BY <1>1, <1>3, <2>1, <2>3 DEF Trail, PlacesApart
    <2> QED
      BY <2>1, <2>2, <2>3
  <1> QED
    BY <1>4, <1>5, <1>6 DEF Writer

LEMMA AuditInvInit == Init => AuditInv
  <1> SUFFICES ASSUME Init PROVE AuditInv
    OBVIOUS
  <1>1. TypeOK
    BY TypeInit
  <1>2. Reportable = {}
    BY DEF Init, Reportable, Event
  <1>3. Range(log) = {} /\ Range(queue) = {} /\ Pending = {} /\ Distinct(log) /\ Distinct(queue)
    BY DEF Init, Range, Pending, Distinct
  <1>4. Len(queue) <= AuditCap
    BY BoundsAssumption DEF Init
  <1>5. Trail
    BY <1>2, <1>3, <1>4 DEF Init, Trail, PlacesApart
  <1> QED
    BY <1>1, <1>5 DEF Init, AuditInv, Undecided

\* A request's step that reports nothing.
LEMMA QuietStep ==
    ASSUME AuditInv, TypeOK', NEW r \in Reqs, NEW l \in Labels \ {"unborn", "auth", "denied"},
           Goto(r, l), pc[r] # "denied", UNCHANGED decision, UNCHANGED auditVars,
           l \in {"body", "rules"} => pc[r] \in {"auth", "body"}
    PROVE  AuditInv'
  <1>1. \A q \in Reqs : pc'[q] = IF q = r THEN l ELSE pc[q]
    BY DEF AuditInv, TypeOK, Goto
  <1>2. Undecided'
    BY <1>1 DEF AuditInv, Undecided
  <1>3. Reportable' = Reportable
    <2>1. ASSUME NEW e \in Event PROVE pc'[e[1]] = "denied" <=> pc[e[1]] = "denied"
      BY <1>1 DEF Event
    <2> QED
      BY <2>1 DEF Reportable
  <1>4. phase' = phase /\ (Trail => Trail')
    BY <1>3 DEF auditVars, Trail, PlacesApart, Pending
  <1> QED
    BY <1>2, <1>4 DEF AuditInv

\* A refusal by authenticate(), and what the rules decide.
LEMMA ReportingStep ==
    ASSUME AuditInv, TypeOK', NEW r \in Reqs, DenyAuth(r) \/ Evaluate(r)
    PROVE  AuditInv'
  <1>0. /\ pc \in [Reqs -> Labels] /\ decision[r] = "none"
        /\ decision \in [Reqs -> {"none", "pass", "deny", "dry_run", "limited"}]
    BY DEF AuditInv, Undecided, TypeOK, Labels, DenyAuth, Evaluate
  <1>1. CASE DenyAuth(r)
    <2>1. /\ \A q \in Reqs : pc'[q] = IF q = r THEN "denied" ELSE pc[q]
          /\ pc[r] = "auth" /\ decision' = decision /\ Emit(<<r, "auth_denied">>)
      BY <1>0, <1>1 DEF DenyAuth, Goto
    <2>2. Undecided'
      BY <2>1 DEF AuditInv, Undecided
    <2>3. <<r, "auth_denied">> \in Event /\ <<r, "auth_denied">> \notin Reportable
      BY <2>1 DEF Event, Reportable
    <2>4. Reportable' = Reportable \cup {<<r, "auth_denied">>}
      BY <2>1 DEF Event, Reportable
    <2>5. (phase # "disabled" => Trail)'
      BY <2>1, <2>3, <2>4, EmitKeepsTrail
    <2> QED
      BY <2>2, <2>5 DEF AuditInv
  <1>2. CASE Evaluate(r)
    <2>1. PICK d \in Decisions(r) :
             /\ decision' = [decision EXCEPT ![r] = d]
             /\ CASE d = "deny"    -> Goto(r, "forbidden") /\ Emit(<<r, "deny">>)
                  [] d = "limited" -> Goto(r, "limited") /\ Emit(<<r, "deny">>)
                  [] d = "dry_run" -> Goto(r, "connect") /\ Emit(<<r, "dry_run">>)
                  [] d = "pass"    -> Goto(r, "connect") /\ UNCHANGED auditVars
      BY <1>2 DEF Evaluate
    <2>2. d \in {"pass", "deny", "dry_run", "limited"}
      BY <1>2, PoliciesAssumption DEF Evaluate, AuditInv, TypeOK, Decisions, Policy
    <2>3. /\ pc[r] = "rules"
          /\ \A q \in Reqs : decision'[q] = IF q = r THEN d ELSE decision[q]
      BY <1>0, <1>2, <2>1 DEF Evaluate
    <2>4. PICK l \in {"forbidden", "limited", "connect"} :
             \A q \in Reqs : pc'[q] = IF q = r THEN l ELSE pc[q]
      BY <1>0, <2>1, <2>2 DEF Goto
    <2>5. Undecided'
      BY <2>3, <2>4 DEF AuditInv, Undecided
    <2>6. CASE d = "pass"
      <3>1. Reportable' = Reportable
        BY <1>0, <2>3, <2>4, <2>6 DEF Event, Reportable
      <3>2. UNCHANGED auditVars
        BY <2>1, <2>6
      <3>3. phase' = phase /\ (Trail => Trail')
        BY <3>1, <3>2 DEF auditVars, Trail, PlacesApart, Pending
      <3> QED
        BY <2>5, <3>3 DEF AuditInv
    <2>7. CASE d # "pass"
      <3> DEFINE e == <<r, IF d = "dry_run" THEN "dry_run" ELSE "deny">>
      <3>1. Emit(e)
        BY <2>1, <2>2, <2>7
      <3>2. e \in Event /\ e \notin Reportable
        BY <1>0 DEF Event, Reportable
      <3>3. Reportable' = Reportable \cup {e}
        BY <1>0, <2>2, <2>3, <2>4, <2>7 DEF Event, Reportable
      <3>4. (phase # "disabled" => Trail)'
        <4> HIDE DEF e
        <4> QED
          BY <3>1, <3>2, <3>3, EmitKeepsTrail
      <3> QED
        BY <2>5, <3>4 DEF AuditInv
    <2> QED
      BY <2>6, <2>7
  <1> QED
    BY <1>1, <1>2

LEMMA AuditInvNext == AuditInv /\ [Next]_vars => AuditInv'
  <1> SUFFICES ASSUME AuditInv, [Next]_vars PROVE AuditInv'
    OBVIOUS
  <1>0. TypeOK /\ TypeOK'
    BY TypeNext DEF AuditInv
  <1>1. ASSUME NEW r \in Reqs, Receive(r) PROVE AuditInv'
    <2>1. PICK l \in {"malformed", "auth"} : \A q \in Reqs : pc'[q] = IF q = r THEN l ELSE pc[q]
      BY <1>0, <1>1 DEF Receive, Goto, TypeOK
    <2>2. pc[r] = "unborn" /\ UNCHANGED <<decision, auditVars>>
      BY <1>1 DEF Receive
    <2>3. Undecided'
      BY <2>1, <2>2 DEF AuditInv, Undecided
    <2>4. Reportable' = Reportable
      BY <2>1, <2>2 DEF Reportable, Event
    <2>5. phase' = phase /\ (Trail => Trail')
      BY <2>2, <2>4 DEF auditVars, Trail, PlacesApart, Pending
    <2> QED
      BY <1>0, <2>3, <2>5 DEF AuditInv
  <1>2. ASSUME NEW r \in Reqs, DenyAuth(r) \/ Evaluate(r) PROVE AuditInv'
    BY <1>0, <1>2, ReportingStep
  <1>3. ASSUME NEW r \in Reqs, Admit(r) \/ ReadBody(r) PROVE AuditInv'
    <2>1. /\ \E l \in {"scraped", "rules", "body", "too_large", "bad_body"} : Goto(r, l)
          /\ pc[r] \in {"auth", "body"} /\ UNCHANGED decision /\ UNCHANGED auditVars
      BY <1>0, <1>3 DEF Admit, ReadBody, TypeOK, Kinds
    <2> QED
      BY <1>0, <2>1, QuietStep DEF Labels, InHandler, Awaits, Answers
  <1>4. ASSUME NEW r \in Reqs,
               \/ SendRequest(r) \/ BuildFails(r) \/ Connected(r) \/ UpstreamError(r)
               \/ Respond(r) \/ Serve(r) \/ RelayRefusal(r) \/ TimeOut(r) \/ Cancel(r)
               \/ Resolve(r) \/ FailResolve(r)
        PROVE  AuditInv'
    <2>1. /\ \E l \in {"handshake", "unbuilt", "awaiting", "502", "resolve_client", "refused",
                       "reading", "served", "rejected", "408", "504", "cancelled",
                       "resolve_docker", "copying", "closed", "failed"} : Goto(r, l)
          /\ pc[r] # "denied" /\ UNCHANGED decision /\ UNCHANGED auditVars
      BY <1>4 DEF SendRequest, BuildFails, Connected, UpstreamError, Respond, Serve, RelayRefusal,
                  TimeOut, Cancel, Resolve, FailResolve, Awaits
    <2> QED
      BY <1>0, <2>1, QuietStep DEF Labels, InHandler, Awaits, Answers, Unavailable, Tunnels
  <1>5. CASE SwapConfig \/ UNCHANGED vars
    <2>1. UNCHANGED <<pc, decision, auditVars>>
      BY <1>5 DEF SwapConfig, vars, reqVars
    <2>2. Undecided' /\ Reportable' = Reportable
      BY <2>1 DEF AuditInv, Undecided, Reportable
    <2>3. phase' = phase /\ (Trail => Trail')
      BY <2>1, <2>2 DEF auditVars, Trail, PlacesApart, Pending
    <2> QED
      BY <1>0, <2>2, <2>3 DEF AuditInv
  <1>6. CASE Writer
    <2>1. Undecided'
      BY <1>6 DEF Writer, OpenLog, ReceiveEvent, WriteEvent, reqVars, AuditInv, Undecided
    <2> QED
      BY <1>0, <1>6, <2>1, WriterKeepsTrail DEF AuditInv
  <1> QED
    BY <1>1, <1>2, <1>3, <1>4, <1>5, <1>6 DEF Next, Local

LEMMA ReportableFinite == IsFiniteSet(Reportable)
  <1>1. IsFiniteSet({"auth_denied"} \cup {"deny"} \cup {"dry_run"})
    BY FS_Singleton, FS_AddElement
  <1>2. {"auth_denied", "deny", "dry_run"} = {"auth_denied"} \cup {"deny"} \cup {"dry_run"}
    OBVIOUS
  <1>3. IsFiniteSet(Event)
    BY <1>1, <1>2, BoundsAssumption, FS_Product DEF Event
  <1> QED
    BY <1>3, FS_Subset DEF Reportable

LEMMA DisjointUnion ==
    ASSUME NEW A, NEW B, IsFiniteSet(A), IsFiniteSet(B), A \cap B = {}
    PROVE  /\ IsFiniteSet(A \cup B)
           /\ Cardinality(A \cup B) = Cardinality(A) + Cardinality(B)
  <1>1. /\ IsFiniteSet(A \cup B)
        /\ Cardinality(A \cup B) = Cardinality(A) + Cardinality(B) - Cardinality(A \cap B)
    BY FS_Union
  <1>2. Cardinality(A \cap B) = 0
    BY FS_EmptySet
  <1>3. Cardinality(A) \in Nat /\ Cardinality(B) \in Nat
    BY FS_CardinalityType
  <1> QED
    BY <1>1, <1>2, <1>3

\* AuditTrailExact for any number of requests and any capacity of the channel: a
\* reportable event is written, waiting or dropped, never two of these and never
\* twice, whatever the interleaving of requests, reloads and the audit writer.
THEOREM AuditTrailComplete == Spec => []AuditTrailExact
  <1>1. AuditInv => AuditTrailExact
    <2> SUFFICES ASSUME AuditInv, phase # "disabled" PROVE
               /\ Range(log) \cup Pending \cup Range(queue) \cup lost = Reportable
               /\ Len(log) + Cardinality(Pending) + Len(queue) + Cardinality(lost)
                    = Cardinality(Reportable)
               /\ Len(queue) <= AuditCap
      BY DEF AuditTrailExact
    <2>1. Trail /\ log \in Seq(Event) /\ queue \in Seq(Event)
      BY DEF AuditInv, TypeOK
    <2>2. /\ Cardinality(Range(log)) = Len(log) /\ IsFiniteSet(Range(log))
          /\ Cardinality(Range(queue)) = Len(queue) /\ IsFiniteSet(Range(queue))
      BY <2>1, DistinctLength DEF Trail
    <2>3. IsFiniteSet(Pending) /\ IsFiniteSet(lost)
      BY <2>1, ReportableFinite, FS_Subset DEF Trail
    <2>4. \A A, B : IsFiniteSet(A) /\ IsFiniteSet(B) /\ A \cap B = {} =>
             /\ IsFiniteSet(A \cup B)
             /\ Cardinality(A \cup B) = Cardinality(A) + Cardinality(B)
      BY DisjointUnion
    <2> DEFINE A == Range(log)
               B == Range(log) \cup Pending
               C == Range(log) \cup Pending \cup Range(queue)
    <2>5. IsFiniteSet(B) /\ Cardinality(B) = Cardinality(A) + Cardinality(Pending)
      BY <2>1, <2>2, <2>3, <2>4 DEF Trail, PlacesApart
    <2>6. IsFiniteSet(C) /\ Cardinality(C) = Cardinality(B) + Cardinality(Range(queue))
      <3>1. B \cap Range(queue) = {}
        BY <2>1 DEF Trail, PlacesApart
      <3> QED
        BY <2>2, <2>4, <2>5, <3>1
    <2>7. Cardinality(Reportable) = Cardinality(C) + Cardinality(lost)
      <3>1. C \cap lost = {} /\ Reportable = C \cup lost
        BY <2>1 DEF Trail, PlacesApart
      <3> QED
        BY <2>3, <2>4, <2>6, <3>1
    <2> QED
      BY <2>1, <2>2, <2>5, <2>6, <2>7 DEF Trail
  <1> QED
    BY <1>1, AuditInvInit, AuditInvNext, PTL DEF Spec

----------------------------------------------------------------------------
(* The inductive invariant behind CountersTellFates: each counter has a set  *)
(* of requests that it counts, and so many requests are in it.  Which they   *)
(* are follows from where a request stands, once it is known that only       *)
(* upgrades take the upgrade's path and that the rules decide once.          *)
Exact ==
    {"requests_total", "requests_allowed", "requests_denied", "rule_denied", "requests_dry_run",
     "rule_dry_run", "bad_request", "body_too_large", "request_timeouts"}

Upstream == {"upstream_errors", "upstream_timeouts"}

\* The request r is one of those that the counter c counts.
Counts(r, c) ==
    CASE c = "requests_total"   -> pc[r] # "unborn"
      [] c = "requests_allowed" -> \/ pc[r] = "served"
                                   \/ kind[r] = "upgrade" /\ decision[r] \in {"pass", "dry_run"}
      [] c = "requests_denied"  -> pc[r] \in {"denied", "forbidden", "limited"}
      [] c = "rule_denied"      -> decision[r] \in {"deny", "limited"}
      [] c \in {"requests_dry_run", "rule_dry_run"} -> decision[r] = "dry_run"
      [] c = "bad_request"      -> pc[r] \in {"malformed", "bad_body"}
      [] c = "body_too_large"   -> pc[r] = "too_large"
      [] c = "request_timeouts" -> pc[r] = "408"

Counted(c) == {r \in Reqs : Counts(r, c)}

Failed(r) == pc[r] \in Unavailable \cup {"failed"}

EarlyLabels ==
    {"unborn", "malformed", "auth", "denied", "scraped", "body", "too_large", "bad_body", "408",
     "rules"}
UpgradeLabels == {"refused", "rejected"} \cup Tunnels
LetThrough == Exchange \cup {"served"} \cup UpgradeLabels

\* Where a request may be, by its kind and its decision.
OnItsPath(r) ==
    /\ pc[r] \in EarlyLabels => decision[r] = "none"
    /\ pc[r] \in LetThrough => decision[r] \in {"pass", "dry_run"}
    /\ pc[r] \in {"body", "reading", "served"} => kind[r] # "upgrade"
    /\ pc[r] \in UpgradeLabels => kind[r] = "upgrade"

FatesInv ==
    /\ TypeOK
    /\ \A r \in Reqs : OnItsPath(r)
    /\ \A c \in Exact : metrics[c] = Cardinality(Counted(c))
    /\ metrics["upstream_errors"] + metrics["upstream_timeouts"]
          = Cardinality({r \in Reqs : Failed(r)})

\* One request moves, and the counters in S are incremented.
Advances(r, S) ==
    /\ \A q \in Reqs \ {r} : pc'[q] = pc[q] /\ kind'[q] = kind[q] /\ decision'[q] = decision[q]
    /\ Count(S)

\* They are those that count the request now and did not before.
Settles(r, S) ==
    /\ \A c \in Exact \cap S : ~Counts(r, c) /\ Counts(r, c)'
    /\ \A c \in Exact \ S : Counts(r, c)' <=> Counts(r, c)
    /\ \/ S \cap Upstream = {} /\ (Failed(r)' <=> Failed(r))
       \/ \E u \in Upstream : S \cap Upstream = {u} /\ ~Failed(r) /\ Failed(r)'

\* A set of requests that one request joins.
LEMMA OneJoins ==
    ASSUME NEW A \in SUBSET Reqs, NEW B \in SUBSET Reqs, NEW r \in Reqs,
           \A q \in Reqs \ {r} : q \in B <=> q \in A, r \notin A, r \in B
    PROVE  Cardinality(A) \in Nat /\ Cardinality(B) = Cardinality(A) + 1
  <1>1. IsFiniteSet(A)
    BY BoundsAssumption, FS_Subset
  <1>2. B = A \cup {r}
    OBVIOUS
  <1> QED
    BY <1>1, <1>2, FS_AddElement, FS_CardinalityType

LEMMA SettledFates ==
    ASSUME FatesInv, TypeOK', NEW r \in Reqs, NEW S, Advances(r, S), Settles(r, S), OnItsPath(r)'
    PROVE  FatesInv'
  <1>1. \A q \in Reqs : OnItsPath(q)'
    BY DEF FatesInv, Advances, OnItsPath
  <1>2. metrics' = [c \in Counters |-> IF c \in S THEN metrics[c] + 1 ELSE metrics[c]]
    BY DEF Advances, Count
  <1>3. metrics \in [Counters -> Nat] /\ Exact \subseteq Counters /\ Upstream \subseteq Counters
    BY DEF FatesInv, TypeOK, Counters, Exact, Upstream
  <1>4. ASSUME NEW c \in Exact PROVE metrics'[c] = Cardinality(Counted(c)')
    <2>1. \A q \in Reqs \ {r} : Counts(q, c)' <=> Counts(q, c)
      BY DEF Advances, Counts
    <2>2. metrics[c] = Cardinality(Counted(c))
      BY DEF FatesInv
    <2>3. CASE c \in S
      <3>1. r \notin Counted(c) /\ r \in Counted(c)'
        BY <2>3 DEF Settles, Counted
      <3>2. \A q \in Reqs \ {r} : q \in Counted(c)' <=> q \in Counted(c)
        BY <2>1 DEF Counted
      <3>3. Counted(c) \in SUBSET Reqs /\ Counted(c)' \in SUBSET Reqs
        BY DEF Counted
      <3>4. Cardinality(Counted(c)') = Cardinality(Counted(c)) + 1
        BY <3>1, <3>2, <3>3, OneJoins
      <3> QED
        BY <1>2, <1>3, <2>2, <2>3, <3>4
    <2>4. CASE c \notin S
      <3>1. Counted(c)' = Counted(c)
        BY <2>1, <2>4 DEF Settles, Counted
      <3> QED
        BY <1>2, <1>3, <2>2, <2>4, <3>1
    <2> QED
      BY <2>3, <2>4
  <1>5. metrics'["upstream_errors"] + metrics'["upstream_timeouts"]
          = Cardinality({q \in Reqs : Failed(q)'})
    <2> DEFINE A == {q \in Reqs : Failed(q)}
               B == {q \in Reqs : Failed(q)'}
               e == "upstream_errors"
               t == "upstream_timeouts"
    <2>1. \A q \in Reqs \ {r} : Failed(q)' <=> Failed(q)
      BY DEF Advances, Failed
    <2>2. /\ metrics[e] \in Nat /\ metrics[t] \in Nat /\ metrics[e] + metrics[t] = Cardinality(A)
          /\ metrics'[e] = IF e \in S THEN metrics[e] + 1 ELSE metrics[e]
          /\ metrics'[t] = IF t \in S THEN metrics[t] + 1 ELSE metrics[t]
      BY <1>2, <1>3 DEF FatesInv, Upstream
    <2>3. CASE S \cap Upstream = {} /\ (Failed(r)' <=> Failed(r))
      <3>1. e \notin S /\ t \notin S
        BY <2>3 DEF Upstream
      <3>2. A = B
        BY <2>1, <2>3
      <3> HIDE DEF A, B
      <3> QED
        BY <2>2, <3>1, <3>2 DEF B
    <2>4. ASSUME NEW u \in Upstream, S \cap Upstream = {u}, ~Failed(r), Failed(r)'
          PROVE  metrics'[e] + metrics'[t] = Cardinality(B)
      <3>1. (e \in S /\ t \notin S) \/ (e \notin S /\ t \in S)
        BY <2>4 DEF Upstream
      <3>2. Cardinality(A) \in Nat /\ Cardinality(B) = Cardinality(A) + 1
        <4>1. A \in SUBSET Reqs /\ B \in SUBSET Reqs
          OBVIOUS
        <4>2. r \notin A /\ r \in B /\ \A q \in Reqs \ {r} : q \in B <=> q \in A
          BY <2>1, <2>4
        <4> HIDE DEF A, B
        <4> QED
          BY <4>1, <4>2, OneJoins
      <3> HIDE DEF A, B
      <3> QED
        BY <2>2, <3>1, <3>2
    <2> QED
      BY <2>3, <2>4 DEF Settles
  <1> QED
    BY <1>1, <1>4, <1>5 DEF FatesInv

LEMMA FatesInvInit == Init => FatesInv
  <1> SUFFICES ASSUME Init PROVE FatesInv
    OBVIOUS
  <1>1. TypeOK /\ \A r \in Reqs : OnItsPath(r)
    BY TypeInit DEF Init, OnItsPath, LetThrough, Exchange, UpgradeLabels, Tunnels
  <1>2. \A c \in Exact : Counted(c) = {}
    BY DEF Init, Exact, Counted, Counts
  <1>3. {r \in Reqs : Failed(r)} = {}
    BY DEF Init, Failed, Unavailable
  <1>4. \A c \in Counters : metrics[c] = 0
    BY DEF Init
  <1>5. Exact \subseteq Counters /\ Upstream \subseteq Counters
    BY DEF Exact, Upstream, Counters
  <1> QED
    BY <1>1, <1>2, <1>3, <1>4, <1>5, FS_EmptySet DEF FatesInv, Upstream

\* The counters in S are those that count a request where it is going, l, and did
\* not where it was.
LEMMA FatesMoves ==
    ASSUME FatesInv, TypeOK', NEW r \in Reqs, NEW l \in Labels, Goto(r, l), NEW S, Count(S),
           UNCHANGED <<kind, decision>>,
           \/ S = {} /\ l \notin {"malformed", "bad_body", "denied", "forbidden", "limited",
                                  "too_large", "408", "served", "502", "504", "failed"}
           \/ S = {"upgrade_total"} /\ l = "rules"
           \/ S = {"requests_denied"} /\ l = "denied"
           \/ S = {"body_too_large"} /\ l = "too_large"
           \/ S = {"bad_request"} /\ l = "bad_body"
           \/ S = {"request_timeouts"} /\ l = "408"
           \/ S = {"requests_allowed"} /\ l = "served" /\ kind[r] # "upgrade"
           \/ \E u \in Upstream : S = {u} /\ l \in {"502", "504", "failed"},
           pc[r] \in InHandler \cup {"resolve_client", "resolve_docker", "copying"},
           l # "unborn",
           pc'[r] = l => OnItsPath(r)'
    PROVE  FatesInv'
  <1>1. pc'[r] = l /\ \A q \in Reqs \ {r} : pc'[q] = pc[q]
    BY DEF FatesInv, TypeOK, Goto
  <1>2. Advances(r, S) /\ OnItsPath(r)'
    BY <1>1 DEF Advances
  <1>3. pc[r] \notin {"unborn", "malformed", "bad_body", "denied", "forbidden", "limited",
                      "too_large", "408", "served", "502", "504", "failed"}
    BY DEF InHandler, Awaits
  <1>4. Settles(r, S)
    <2> USE <1>1, <1>3 DEF Settles, Exact, Counts, Failed, Unavailable, Upstream
    <2>1. CASE S = {} /\ l \notin {"malformed", "bad_body", "denied", "forbidden", "limited",
                                   "too_large", "408", "served", "502", "504", "failed"}
      BY <2>1
    <2>2. CASE S = {"upgrade_total"} /\ l = "rules"
      BY <2>2
    <2>3. CASE S = {"requests_denied"} /\ l = "denied"
      BY <2>3
    <2>4. CASE S = {"body_too_large"} /\ l = "too_large"
      BY <2>4
    <2>5. CASE S = {"bad_request"} /\ l = "bad_body"
      BY <2>5
    <2>6. CASE S = {"request_timeouts"} /\ l = "408"
      BY <2>6
    <2>7. CASE S = {"requests_allowed"} /\ l = "served" /\ kind[r] # "upgrade"
      BY <2>7
    <2>8. ASSUME NEW u \in Upstream, S = {u}, l \in {"502", "504", "failed"}
          PROVE  Settles(r, S)
      <3>1. S \cap Exact = {} /\ S \cap Upstream = {u}
        BY <2>8
      <3>2. \A c \in Exact : Counts(r, c)' <=> Counts(r, c)
        BY <2>8
      <3>3. ~Failed(r) /\ Failed(r)'
        BY <2>8
      <3> HIDE DEF Exact, Counts, Failed, Unavailable, Upstream
      <3> QED
        BY <2>8, <3>1, <3>2, <3>3
    <2> QED
      BY <2>1, <2>2, <2>3, <2>4, <2>5, <2>6, <2>7, <2>8
  <1> QED
    BY <1>2, <1>4, SettledFates

\* Arrival and the rule engine, the steps that change more than the label.
LEMMA FatesReceive ==
    ASSUME FatesInv, TypeOK', NEW r \in Reqs, Receive(r)
    PROVE  FatesInv'
  <1>1. /\ pc[r] = "unborn" /\ decision[r] = "none" /\ UNCHANGED decision
        /\ \A q \in Reqs \ {r} : pc'[q] = pc[q] /\ kind'[q] = kind[q]
        /\ \/ pc'[r] = "malformed" /\ Count({"requests_total", "bad_request"})
           \/ pc'[r] = "auth" /\ Count({"requests_total"})
    BY DEF FatesInv, TypeOK, OnItsPath, EarlyLabels, Receive, Goto
  <1>2. OnItsPath(r)'
    BY <1>1 DEF OnItsPath, EarlyLabels, LetThrough, Exchange, UpgradeLabels, Tunnels
  <1>3. CASE pc'[r] = "malformed" /\ Count({"requests_total", "bad_request"})
    <2>1. Settles(r, {"requests_total", "bad_request"})
      BY <1>1, <1>3 DEF Settles, Exact, Counts, Failed, Unavailable, Upstream
    <2>2. Advances(r, {"requests_total", "bad_request"})
      BY <1>1, <1>3 DEF Advances
    <2> QED
      BY <1>2, <2>1, <2>2, SettledFates
  <1>4. CASE pc'[r] = "auth" /\ Count({"requests_total"})
    <2>1. Settles(r, {"requests_total"})
      BY <1>1, <1>4 DEF Settles, Exact, Counts, Failed, Unavailable, Upstream
    <2>2. Advances(r, {"requests_total"})
      BY <1>1, <1>4 DEF Advances
    <2> QED
      BY <1>2, <2>1, <2>2, SettledFates
  <1> QED
    BY <1>1, <1>3, <1>4

LEMMA FatesEvaluate ==
    ASSUME FatesInv, TypeOK', NEW r \in Reqs, Evaluate(r)
    PROVE  FatesInv'
  <1>1. PICK d \in Decisions(r) :
           /\ decision' = [decision EXCEPT ![r] = d]
           /\ Count(CountersOf(r, d))
           /\ CASE d = "deny"    -> Goto(r, "forbidden") /\ Emit(<<r, "deny">>)
                [] d = "limited" -> Goto(r, "limited") /\ Emit(<<r, "deny">>)
                [] d = "dry_run" -> Goto(r, "connect") /\ Emit(<<r, "dry_run">>)
                [] d = "pass"    -> Goto(r, "connect") /\ UNCHANGED auditVars
    BY DEF Evaluate
  <1>2. /\ d \in {"pass", "deny", "dry_run", "limited"}
        /\ pc[r] = "rules" /\ decision[r] = "none" /\ UNCHANGED kind
    <2>1. pc[r] = "rules" /\ UNCHANGED kind
      BY DEF Evaluate
    <2>2. snap[r] \in Policies
      BY <2>1 DEF FatesInv, TypeOK
    <2>3. d \in {"pass", "deny", "dry_run", "limited"}
      BY <2>2, PoliciesAssumption DEF Decisions, Policy
    <2>4. decision[r] = "none"
      BY <2>1 DEF FatesInv, OnItsPath, EarlyLabels
    <2> QED
      BY <2>1, <2>3, <2>4
  <1>3. /\ pc'[r] = CASE d = "deny" -> "forbidden" [] d = "limited" -> "limited" [] OTHER -> "connect"
        /\ \A q \in Reqs \ {r} : pc'[q] = pc[q]
    <2>1. pc \in [Reqs -> Labels]
      BY DEF FatesInv, TypeOK, Labels
    <2> QED
      BY <1>1, <1>2, <2>1 DEF Goto
  <1>4. decision'[r] = d /\ \A q \in Reqs \ {r} : decision'[q] = decision[q]
    BY <1>1 DEF FatesInv, TypeOK
  <1>5. Advances(r, CountersOf(r, d))
    BY <1>1, <1>2, <1>3, <1>4 DEF Advances
  <1>6. OnItsPath(r)'
    BY <1>2, <1>3, <1>4 DEF OnItsPath, EarlyLabels, LetThrough, Exchange, UpgradeLabels, Tunnels
  <1>7. ASSUME NEW S, S = CountersOf(r, d) PROVE Settles(r, S)
    <2>1. S \cap Upstream = {} /\ ~Failed(r) /\ ~Failed(r)'
      BY <1>2, <1>3, <1>7 DEF CountersOf, Upstream, Failed, Unavailable
    <2>2. \A c \in Exact : c # "requests_total" => ~Counts(r, c)
      BY <1>2 DEF Exact, Counts
    <2>3. CASE d \in {"deny", "limited"}
      <3>1. S \cap Exact = {"requests_denied", "rule_denied"}
        BY <1>7, <2>3 DEF CountersOf, Exact
      <3>2. \A c \in Exact : Counts(r, c)' <=> c \in {"requests_total", "requests_denied", "rule_denied"}
        BY <1>2, <1>3, <1>4, <2>3 DEF Exact, Counts
      <3>3. Counts(r, "requests_total")
        BY <1>2 DEF Counts
      <3> QED
        BY <2>1, <2>2, <3>1, <3>2, <3>3 DEF Settles
    <2>4. CASE d \in {"pass", "dry_run"}
      <3> DEFINE A == IF kind[r] = "upgrade" THEN {"requests_allowed"} ELSE {}
                 W == IF d = "dry_run" THEN {"requests_dry_run", "rule_dry_run"} ELSE {}
      <3>1. S \cap Exact = A \cup W
        BY <1>7, <2>4 DEF CountersOf, Exact
      <3>2. \A c \in Exact : Counts(r, c)' <=> c \in {"requests_total"} \cup A \cup W
        BY <1>2, <1>3, <1>4, <2>4 DEF Exact, Counts
      <3>3. Counts(r, "requests_total") /\ "requests_total" \notin A \cup W
        BY <1>2 DEF Counts
      <3> HIDE DEF A, W
      <3> QED
        BY <2>1, <2>2, <3>1, <3>2, <3>3 DEF Settles
    <2> QED
      BY <1>2, <2>3, <2>4
  <1> QED
    BY <1>5, <1>6, <1>7, SettledFates

\* Every other step of a request.
LEMMA FatesStep ==
    ASSUME FatesInv, TypeOK', NEW r \in Reqs,
           \/ Admit(r) \/ DenyAuth(r) \/ SendRequest(r) \/ BuildFails(r)
           \/ ReadBody(r) \/ Connected(r) \/ UpstreamError(r)
           \/ Respond(r) \/ Serve(r) \/ RelayRefusal(r) \/ TimeOut(r) \/ Cancel(r)
           \/ Resolve(r) \/ FailResolve(r)
    PROVE  FatesInv'
  <1>0. TypeOK /\ OnItsPath(r) /\ kind[r] \in Kinds /\ metrics \in [Counters -> Nat]
    BY DEF FatesInv, TypeOK
  <1>1. UNCHANGED <<kind, decision>>
    BY DEF Admit, DenyAuth, SendRequest, BuildFails, ReadBody, Connected, UpstreamError, Respond,
           Serve, RelayRefusal, TimeOut, Cancel, Resolve, FailResolve
  <1>2. UNCHANGED metrics => Count({})
    BY <1>0 DEF Count
  <1> USE DEF Labels, InHandler, Awaits, Answers, Unavailable, Tunnels, Upstream, OnItsPath, EarlyLabels,
              LetThrough, Exchange, UpgradeLabels
  <1>3. CASE Admit(r)
    <2>1. CASE kind[r] = "scrape"
      BY <1>0, <1>1, <1>2, <1>3, <2>1, FatesMoves DEF Admit
    <2>2. CASE kind[r] = "upgrade"
      BY <1>0, <1>1, <1>2, <1>3, <2>2, FatesMoves DEF Admit
    <2>3. CASE kind[r] = "plain"
      BY <1>0, <1>1, <1>2, <1>3, <2>3, FatesMoves DEF Admit
    <2> QED
      BY <1>0, <2>1, <2>2, <2>3 DEF Kinds
  <1>4. CASE DenyAuth(r)
    BY <1>0, <1>1, <1>4, FatesMoves DEF DenyAuth
  <1>5. CASE SendRequest(r) \/ BuildFails(r) \/ Connected(r) \/ RelayRefusal(r) \/ Cancel(r)
    BY <1>0, <1>1, <1>2, <1>5, FatesMoves DEF SendRequest, BuildFails, Connected, RelayRefusal, Cancel
  <1>6. CASE ReadBody(r)
    BY <1>0, <1>1, <1>2, <1>6, FatesMoves DEF ReadBody
  <1>7. CASE UpstreamError(r)
    BY <1>0, <1>1, <1>7, FatesMoves DEF UpstreamError
  <1>8. CASE Respond(r)
    BY <1>0, <1>1, <1>2, <1>8, FatesMoves DEF Respond
  <1>9. CASE Serve(r)
    BY <1>0, <1>1, <1>9, FatesMoves DEF Serve
  <1>10. CASE TimeOut(r)
    BY <1>0, <1>1, <1>2, <1>10, FatesMoves DEF TimeOut
  <1>11. CASE Resolve(r)
    BY <1>0, <1>1, <1>2, <1>11, FatesMoves DEF Resolve
  <1>12. CASE FailResolve(r)
    BY <1>0, <1>1, <1>12, FatesMoves DEF FailResolve
  <1> QED
    BY <1>3, <1>4, <1>5, <1>6, <1>7, <1>8, <1>9, <1>10, <1>11, <1>12

LEMMA FatesInvNext == FatesInv /\ [Next]_vars => FatesInv'
  <1> SUFFICES ASSUME FatesInv, [Next]_vars PROVE FatesInv'
    OBVIOUS
  <1>1. TypeOK'
    BY TypeNext DEF FatesInv
  <1>2. ASSUME UNCHANGED <<pc, kind, decision, metrics>> PROVE FatesInv'
    <2>1. \A r \in Reqs : OnItsPath(r)'
      BY <1>2 DEF FatesInv, OnItsPath
    <2>2. \A c \in Exact : Counted(c)' = Counted(c)
      BY <1>2 DEF Counted, Counts
    <2>3. \A r \in Reqs : Failed(r)' <=> Failed(r)
      BY <1>2 DEF Failed
    <2> QED
      BY <1>1, <1>2, <2>1, <2>2, <2>3 DEF FatesInv
  <1>3. CASE SwapConfig \/ Writer \/ UNCHANGED vars
    BY <1>2, <1>3 DEF SwapConfig, Writer, OpenLog, ReceiveEvent, WriteEvent, vars, reqVars
  <1> QED
    BY <1>1, <1>3, FatesReceive, FatesEvaluate, FatesStep DEF Next, Local

\* CountersTellFates for any number of requests: whatever path each takes, and
\* wherever the others stand, the counters are the numbers of requests refused,
\* waived and let through.
THEOREM CountersAlwaysTellFates == Spec => []CountersTellFates
  <1>1. ASSUME FatesInv PROVE CountersTellFates
    <2>1. /\ Counted("requests_total") = Reqs \ At({"unborn"})
          /\ Counted("requests_denied") = At({"denied", "forbidden", "limited"})
          /\ Counted("rule_denied") = Decided({"deny", "limited"})
          /\ Counted("requests_dry_run") = Decided({"dry_run"})
          /\ Counted("rule_dry_run") = Decided({"dry_run"})
          /\ Counted("bad_request") = At({"malformed", "bad_body"})
          /\ Counted("body_too_large") = At({"too_large"})
          /\ Counted("request_timeouts") = At({"408"})
          /\ {r \in Reqs : Failed(r)} = At(Unavailable \cup {"failed"})
      BY DEF Counted, Counts, At, Decided, Failed
    <2>2. /\ At({"served", "rejected"} \cup Tunnels) \subseteq Counted("requests_allowed")
          /\ Counted("requests_allowed") \subseteq Decided({"pass", "dry_run"})
      BY <1>1 DEF FatesInv, OnItsPath, LetThrough, UpgradeLabels, Counted, Counts, At, Decided
    <2>3. /\ IsFiniteSet(Decided({"pass", "dry_run"}))
          /\ IsFiniteSet(Counted("requests_allowed"))
      BY BoundsAssumption, FS_Subset DEF Decided, Counted
    <2>4. /\ Cardinality(At({"served", "rejected"} \cup Tunnels))
                <= Cardinality(Counted("requests_allowed"))
          /\ Cardinality(Counted("requests_allowed")) <= Cardinality(Decided({"pass", "dry_run"}))
      BY <2>2, <2>3, FS_Subset
    <2>5. \A c \in Exact : metrics[c] = Cardinality(Counted(c))
      BY <1>1 DEF FatesInv
    <2>6. metrics["upstream_errors"] + metrics["upstream_timeouts"]
            = Cardinality({r \in Reqs : Failed(r)})
      BY <1>1 DEF FatesInv
    <2> QED
      BY <2>1, <2>4, <2>5, <2>6 DEF CountersTellFates, Exact
  <1> QED
    BY <1>1, FatesInvInit, FatesInvNext, PTL DEF Spec

=============================================================================
