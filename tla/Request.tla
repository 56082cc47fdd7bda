------------------------------ MODULE Request ------------------------------
(***************************************************************************)
(* The life of a request in docker-proxy: handle() and handle_upgrade() in *)
(* src/main.rs, with the counters of src/metrics.rs and the audit channel  *)
(* of src/audit.rs that they feed.                                         *)
(*                                                                         *)
(* Requests run concurrently with one another, with the SIGHUP reloader    *)
(* and with the audit writer.  An action is what a request does up to its  *)
(* next await or its next look at shared state.  hyper drops the future of *)
(* a request whose client is gone, at any await.  Docker may answer, fail  *)
(* or hang; only a timeout ends a wait for sure.                           *)
(*                                                                         *)
(* Of a configuration a request sees whether authenticate() admits it and  *)
(* what the rule engine decides.  The two limiters have modules of their   *)
(* own: here either may refuse whenever it is asked.                       *)
(***************************************************************************)
EXTENDS Naturals, Sequences, FiniteSets, Functions

CONSTANTS
    Reqs,           \* requests, each received at most once
    Policies,       \* the configurations the file may hold
    None,
    AuditCap,       \* capacity of the audit channel
    MaxReloads      \* bound on the reloads

Policy == [admits : BOOLEAN, verdict : {"pass", "deny", "dry_run", "rate_limit"}]

Kinds == {"plain", "upgrade", "scrape"}

\* An audit event: the request it is about and the event's type.
Event == Reqs \X {"auth_denied", "deny", "dry_run"}

ASSUME PoliciesAssumption == Policies \subseteq Policy /\ None \notin Policies

ASSUME BoundsAssumption ==
    /\ AuditCap \in Nat \ {0} /\ MaxReloads \in Nat
    /\ IsFiniteSet(Reqs) /\ None \notin Event

Counters ==
    {"requests_total", "requests_allowed", "requests_denied", "requests_dry_run", "bad_request",
     "body_too_large", "request_timeouts", "upstream_errors", "upstream_timeouts",
     "rate_limited", "upgrade_total", "rule_denied", "rule_dry_run"}

\* Where handle() and handle_upgrade() await; elsewhere they only compute.
Awaits == {"body", "connect", "handshake", "awaiting", "reading", "refused"}
InHandler == {"auth", "rules"} \cup Awaits

\* Answered with the status that handle() chose, or never.
Unavailable == {"502", "504"}
Answers ==
    {"malformed", "denied", "scraped", "too_large", "bad_body", "408", "forbidden", "limited",
     "unbuilt", "served", "rejected"} \cup Unavailable

\* After a 101: the tunnel's own task.
Tunnels == {"resolve_client", "resolve_docker", "copying", "closed", "failed"}

VARIABLES
    config,     \* the policy behind the RwLock
    reloads,    \* how often it was swapped
    pc,         \* where each request stands
    kind,       \* what it turned out to be
    snap,       \* its clone of the configuration
    decision,   \* what the rule engine said to it
    forwarded,  \* send_request was called: Docker may act on it
    seen,       \* history: the policies in force since it was received
    metrics,
    phase,      \* the audit writer: "disabled", "opening", "writing" or "closed"
    queue,      \* the audit channel
    inhand,     \* the event the writer has received and not yet written
    log,        \* the audit file
    lost        \* history: events dropped

auditVars == <<phase, queue, inhand, log, lost>>
reqVars == <<pc, kind, snap, decision, forwarded, seen>>
vars == <<config, reloads, reqVars, metrics, auditVars>>

----------------------------------------------------------------------------
Init ==
    /\ config \in Policies /\ reloads = 0
    /\ pc = [r \in Reqs |-> "unborn"]
    /\ kind = [r \in Reqs |-> "plain"]
    /\ snap = [r \in Reqs |-> None]
    /\ decision = [r \in Reqs |-> "none"]
    /\ forwarded = [r \in Reqs |-> FALSE]
    /\ seen = [r \in Reqs |-> {}]
    /\ metrics = [c \in Counters |-> 0]
    /\ phase \in {"disabled", "opening"}
    /\ queue = <<>> /\ inhand = None /\ log = <<>> /\ lost = {}

Goto(r, l) == pc' = [pc EXCEPT ![r] = l]

Count(S) == metrics' = [c \in Counters |-> IF c \in S THEN metrics[c] + 1 ELSE metrics[c]]

\* Mutant: the event is queued even when the channel is full.
EmitUnbounded(event) ==
    /\ queue' = IF phase \in {"opening", "writing"} THEN Append(queue, event) ELSE queue
    /\ UNCHANGED <<phase, inhand, log, lost>>

\* AuditSink::send, if enabled: try_send never waits, and drops the event when the
\* channel is full or its receiver gone.
Emit(event) ==
    /\ IF phase \in {"opening", "writing"} /\ Len(queue) < AuditCap
       THEN queue' = Append(queue, event) /\ UNCHANGED lost
       ELSE /\ UNCHANGED queue
            /\ lost' = IF phase = "disabled" THEN lost ELSE lost \cup {event}
    /\ UNCHANGED <<phase, inhand, log>>

----------------------------------------------------------------------------
(* handle(), up to the rule engine.                                         *)

\* Mutant: the configuration is not cloned on arrival.
ReceiveUnconfigured(r) ==
    /\ pc[r] = "unborn"
    /\ Count({"requests_total"})
    /\ Goto(r, "auth")
    /\ seen' = [seen EXCEPT ![r] = {config}]
    /\ UNCHANGED <<config, reloads, kind, snap, decision, forwarded, auditVars>>

\* Arrival: the request is counted, its path and query are checked, and the current
\* configuration is cloned.
Receive(r) ==
    /\ pc[r] = "unborn"
    /\ \/ \* a malformed path or query
          /\ Count({"requests_total", "bad_request"})
          /\ Goto(r, "malformed")
          /\ UNCHANGED <<kind, snap, seen>>
       \/ /\ Count({"requests_total"})
          /\ Goto(r, "auth")
          /\ \E k \in Kinds : kind' = [kind EXCEPT ![r] = k]
          /\ snap' = [snap EXCEPT ![r] = config]
          /\ seen' = [seen EXCEPT ![r] = {config}]
    /\ UNCHANGED <<config, reloads, decision, forwarded, auditVars>>

\* authenticate() refuses: by the policy, or because the IP is locked out.
DenyAuth(r) ==
    /\ pc[r] = "auth"
    /\ Goto(r, "denied")
    /\ Count({"requests_denied"})
    /\ Emit(<<r, "auth_denied">>)
    /\ UNCHANGED <<config, reloads, kind, snap, decision, forwarded, seen>>

\* It admits: the metrics endpoint answers at once, an upgrade request goes to the
\* rules without a body, any other has its body read.
Admit(r) ==
    /\ pc[r] = "auth" /\ snap[r].admits
    /\ CASE kind[r] = "scrape"  -> Goto(r, "scraped") /\ UNCHANGED metrics
         [] kind[r] = "upgrade" -> Goto(r, "rules") /\ Count({"upgrade_total"})
         [] kind[r] = "plain"   -> Goto(r, "body") /\ UNCHANGED metrics
    /\ UNCHANGED <<config, reloads, kind, snap, decision, forwarded, seen, auditVars>>

\* The body arrives, is too large, or is broken or not the JSON it has to be.
ReadBody(r) ==
    /\ pc[r] = "body"
    /\ \/ Goto(r, "rules") /\ UNCHANGED metrics
       \/ Goto(r, "too_large") /\ Count({"body_too_large"})
       \/ Goto(r, "bad_body") /\ Count({"bad_request"})
    /\ UNCHANGED <<config, reloads, kind, snap, decision, forwarded, seen, auditVars>>

\* Mutant: the rules are read from the current configuration, not the clone.
DecisionsNow(r) ==
    IF config.verdict = "rate_limit" THEN {"pass", "limited"} ELSE {config.verdict}

\* evaluate_request_detailed() over the request's own clone of the rules.
Decisions(r) ==
    IF snap[r].verdict = "rate_limit" THEN {"pass", "limited"} ELSE {snap[r].verdict}

\* Mutant: a refusal that a dry-run rule waives is counted as a refusal all the same.
CountersOfWaived(r, d) ==
    CASE d = "deny"    -> {"requests_denied", "rule_denied"}
      [] d = "limited" -> {"requests_denied", "rule_denied"}
                             \cup (IF kind[r] = "plain" THEN {"rate_limited"} ELSE {})
      [] OTHER         -> (IF kind[r] = "upgrade" THEN {"requests_allowed"} ELSE {})
                             \cup (IF d = "dry_run"
                                   THEN {"requests_denied", "requests_dry_run", "rule_dry_run"}
                                   ELSE {})

\* A rate-limited upgrade is not counted as such.
CountersOf(r, d) ==
    CASE d = "deny"    -> {"requests_denied", "rule_denied"}
      [] d = "limited" -> {"requests_denied", "rule_denied"}
                             \cup (IF kind[r] = "plain" THEN {"rate_limited"} ELSE {})
      [] OTHER         -> (IF kind[r] = "upgrade" THEN {"requests_allowed"} ELSE {})
                             \cup (IF d = "dry_run" THEN {"requests_dry_run", "rule_dry_run"} ELSE {})

Evaluate(r) ==
    /\ pc[r] = "rules"
    /\ \E d \in Decisions(r) :
          /\ decision' = [decision EXCEPT ![r] = d]
          /\ Count(CountersOf(r, d))
          /\ CASE d = "deny"    -> Goto(r, "forbidden") /\ Emit(<<r, "deny">>)
               [] d = "limited" -> Goto(r, "limited") /\ Emit(<<r, "deny">>)
               [] d = "dry_run" -> Goto(r, "connect") /\ Emit(<<r, "dry_run">>)
               [] d = "pass"    -> Goto(r, "connect") /\ UNCHANGED auditVars
    /\ UNCHANGED <<config, reloads, kind, snap, forwarded, seen>>

----------------------------------------------------------------------------
(* The exchange with Docker, alike in handle() and handle_upgrade() up to   *)
(* the response.                                                            *)
Connected(r) ==
    /\ pc[r] = "connect"
    /\ Goto(r, "handshake")
    /\ UNCHANGED <<config, reloads, kind, snap, decision, forwarded, seen, metrics, auditVars>>

\* The request built for Docker is invalid: answered 502, but not counted.
BuildFails(r) ==
    /\ pc[r] = "handshake"
    /\ Goto(r, "unbuilt")
    /\ UNCHANGED <<config, reloads, kind, snap, decision, forwarded, seen, metrics, auditVars>>

SendRequest(r) ==
    /\ pc[r] = "handshake"
    /\ Goto(r, "awaiting")
    /\ forwarded' = [forwarded EXCEPT ![r] = TRUE]
    /\ UNCHANGED <<config, reloads, kind, snap, decision, seen, metrics, auditVars>>

\* Connecting, the handshake, the request or reading the response fails.
UpstreamError(r) ==
    /\ pc[r] \in {"connect", "handshake", "awaiting", "reading"}
    /\ Goto(r, "502")
    /\ Count({"upstream_errors"})
    /\ UNCHANGED <<config, reloads, kind, snap, decision, forwarded, seen, auditVars>>

\* The head of Docker's response: for an upgrade 101 or a refusal.
Respond(r) ==
    /\ pc[r] = "awaiting"
    /\ \E l \in (IF kind[r] = "upgrade" THEN {"resolve_client", "refused"} ELSE {"reading"}) :
          Goto(r, l)
    /\ UNCHANGED <<config, reloads, kind, snap, decision, forwarded, seen, metrics, auditVars>>

\* The whole response has been read, filtered and counted.
Serve(r) ==
    /\ pc[r] = "reading"
    /\ Goto(r, "served")
    /\ Count({"requests_allowed"})
    /\ UNCHANGED <<config, reloads, kind, snap, decision, forwarded, seen, auditVars>>

\* A refused upgrade is relayed, with an empty body if that cannot be read.
RelayRefusal(r) ==
    /\ pc[r] = "refused"
    /\ Goto(r, "rejected")
    /\ UNCHANGED <<config, reloads, kind, snap, decision, forwarded, seen, metrics, auditVars>>

\* Mutant: reading Docker's response body has no timeout.
TimeOutUnread(r) ==
    /\ \/ pc[r] = "body" /\ Goto(r, "408") /\ Count({"request_timeouts"})
       \/ /\ pc[r] \in {"connect", "awaiting"}
          /\ Goto(r, "504") /\ Count({"upstream_timeouts"})
       \/ pc[r] = "refused" /\ Goto(r, "rejected") /\ UNCHANGED metrics
    /\ UNCHANGED <<config, reloads, kind, snap, decision, forwarded, seen, auditVars>>

\* BODY_READ_TIMEOUT, CONNECT_TIMEOUT and the two UPSTREAM_TIMEOUTs.
TimeOut(r) ==
    /\ \/ pc[r] = "body" /\ Goto(r, "408") /\ Count({"request_timeouts"})
       \/ /\ pc[r] \in {"connect", "awaiting", "reading"}
          /\ Goto(r, "504") /\ Count({"upstream_timeouts"})
       \/ pc[r] = "refused" /\ Goto(r, "rejected") /\ UNCHANGED metrics
    /\ UNCHANGED <<config, reloads, kind, snap, decision, forwarded, seen, auditVars>>

\* The client is gone, or the connection's hour is over: the future is dropped.
Cancel(r) ==
    /\ pc[r] \in Awaits
    /\ Goto(r, "cancelled")
    /\ UNCHANGED <<config, reloads, kind, snap, decision, forwarded, seen, metrics, auditVars>>

(* The tunnel: both ends must be upgraded, one after the other, then bytes  *)
(* are copied until both directions are done.                               *)
Resolve(r) ==
    /\ \/ pc[r] = "resolve_client" /\ Goto(r, "resolve_docker")
       \/ pc[r] = "resolve_docker" /\ Goto(r, "copying")
       \/ pc[r] = "copying" /\ Goto(r, "closed")
    /\ UNCHANGED <<config, reloads, kind, snap, decision, forwarded, seen, metrics, auditVars>>

FailResolve(r) ==
    /\ pc[r] \in {"resolve_client", "resolve_docker"}
    /\ Goto(r, "failed")
    /\ \E c \in {"upstream_errors", "upstream_timeouts"} : Count({c})
    /\ UNCHANGED <<config, reloads, kind, snap, decision, forwarded, seen, auditVars>>

----------------------------------------------------------------------------
\* swap_config, by the SIGHUP reloader.
SwapConfig ==
    /\ reloads < MaxReloads
    /\ reloads' = reloads + 1
    /\ config' \in Policies
    /\ seen' = [r \in Reqs |-> IF pc[r] \in InHandler THEN seen[r] \cup {config'} ELSE seen[r]]
    /\ UNCHANGED <<pc, kind, snap, decision, forwarded, metrics, auditVars>>

\* The audit writer opens its file once; if it cannot, the channel closes and what
\* it holds is gone.
OpenLog ==
    /\ phase = "opening"
    /\ \/ phase' = "writing" /\ UNCHANGED <<queue, lost>>
       \/ phase' = "closed" /\ queue' = <<>> /\ lost' = lost \cup Range(queue)
    /\ UNCHANGED <<config, reloads, reqVars, metrics, inhand, log>>

ReceiveEvent ==
    /\ phase = "writing" /\ inhand = None /\ queue # <<>>
    /\ inhand' = Head(queue)
    /\ queue' = Tail(queue)
    /\ UNCHANGED <<config, reloads, reqVars, metrics, phase, log, lost>>

\* An event that cannot be written is reported and dropped.
WriteEvent ==
    /\ inhand # None
    /\ inhand' = None
    /\ \/ log' = Append(log, inhand) /\ UNCHANGED lost
       \/ lost' = lost \cup {inhand} /\ UNCHANGED log
    /\ UNCHANGED <<config, reloads, reqVars, metrics, phase, queue>>

Writer == OpenLog \/ ReceiveEvent \/ WriteEvent

\* What a request does without waiting for anyone.
Local(r) == Admit(r) \/ DenyAuth(r) \/ Evaluate(r) \/ SendRequest(r) \/ BuildFails(r)

Next ==
    \/ \E r \in Reqs :
          \/ Receive(r) \/ Local(r) \/ ReadBody(r) \/ Connected(r) \/ UpstreamError(r)
          \/ Respond(r) \/ Serve(r) \/ RelayRefusal(r) \/ TimeOut(r) \/ Cancel(r)
          \/ Resolve(r) \/ FailResolve(r)
    \/ SwapConfig
    \/ Writer

Spec == Init /\ [][Next]_vars

\* The runtime polls every task that is ready and its timers fire; neither the
\* client nor Docker ever has to answer.
FairSpec == Spec /\ \A r \in Reqs : WF_vars(Local(r)) /\ WF_vars(TimeOut(r))

----------------------------------------------------------------------------
(* Properties.                                                              *)

\* Every variable keeps its type, and a request past its arrival has a snapshot.
TypeOK ==
    /\ config \in Policies /\ reloads \in 0..MaxReloads
    /\ pc \in [Reqs -> {"unborn", "cancelled"} \cup InHandler \cup Answers \cup Tunnels]
    /\ kind \in [Reqs -> Kinds]
    /\ snap \in [Reqs -> Policies \cup {None}]
    /\ \A r \in Reqs : pc[r] \notin {"unborn", "malformed"} => snap[r] \in Policies
    /\ decision \in [Reqs -> {"none", "pass", "deny", "dry_run", "limited"}]
    /\ forwarded \in [Reqs -> BOOLEAN]
    /\ seen \in [Reqs -> SUBSET Policies]
    /\ metrics \in [Counters -> Nat]
    /\ phase \in {"disabled", "opening", "writing", "closed"}
    /\ queue \in Seq(Event) /\ log \in Seq(Event)
    /\ inhand \in Event \cup {None} /\ lost \subseteq Event

\* A reload never lets a request through between two configurations: whatever was
\* sent to Docker was admitted and allowed by one and the same configuration, in
\* force at some moment while the request was in progress.
ForwardedUnderOnePolicy ==
    \A r \in Reqs : forwarded[r] =>
        \E p \in seen[r] : p.admits /\ p.verdict # "deny"

At(labels) == {r \in Reqs : pc[r] \in labels}
Decided(decisions) == {r \in Reqs : decision[r] \in decisions}

\* The counters tell what became of the requests, wherever each of them stands.
\* A refusal is counted once and under its own cause: authenticate() or a rule, the
\* path, query or body, the timeout of the body, Docker or the tunnel failing.  What
\* a dry-run rule waives is counted as that and is no refusal.  A request counted as
\* allowed was let through by the rules, and one whose answer came from Docker is
\* counted as allowed.  (A request that could not be built for Docker, and one that
\* was dropped, are counted under no refusal.)
CountersTellFates ==
    /\ metrics["requests_total"] = Cardinality(Reqs \ At({"unborn"}))
    /\ metrics["requests_denied"] = Cardinality(At({"denied", "forbidden", "limited"}))
    /\ metrics["rule_denied"] = Cardinality(Decided({"deny", "limited"}))
    /\ metrics["requests_dry_run"] = Cardinality(Decided({"dry_run"}))
    /\ metrics["rule_dry_run"] = Cardinality(Decided({"dry_run"}))
    /\ metrics["bad_request"] = Cardinality(At({"malformed", "bad_body"}))
    /\ metrics["body_too_large"] = Cardinality(At({"too_large"}))
    /\ metrics["request_timeouts"] = Cardinality(At({"408"}))
    /\ metrics["upstream_errors"] + metrics["upstream_timeouts"]
          = Cardinality(At(Unavailable \cup {"failed"}))
    /\ Cardinality(At({"served", "rejected"} \cup Tunnels)) <= metrics["requests_allowed"]
    /\ metrics["requests_allowed"] <= Cardinality(Decided({"pass", "dry_run"}))

\* The events handle() should have reported: every refusal by authenticate() or by
\* a rule, and every refusal that a dry-run rule waived.
Reportable ==
    {e \in Event : \/ e[2] = "auth_denied" /\ pc[e[1]] = "denied"
                   \/ e[2] = "deny" /\ decision[e[1]] \in {"deny", "limited"}
                   \/ e[2] = "dry_run" /\ decision[e[1]] = "dry_run"}

Pending == IF inhand = None THEN {} ELSE {inhand}

\* The audit trail is exact: a reportable event is in the file, on its way to it or
\* was dropped, in one of them only and only once, however the writer falls behind
\* or fails, and the channel stays within its capacity.
AuditTrailExact ==
    phase # "disabled" =>
        /\ Range(log) \cup Pending \cup Range(queue) \cup lost = Reportable
        /\ Len(log) + Cardinality(Pending) + Len(queue) + Cardinality(lost) = Cardinality(Reportable)
        /\ Len(queue) <= AuditCap

\* Every request is answered or dropped, whatever Docker and the client do: no wait
\* in handle() or handle_upgrade() is without its timeout.
RequestsEnd == \A r \in Reqs : pc[r] \in InHandler ~> pc[r] \notin InHandler

=============================================================================
