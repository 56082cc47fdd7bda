# A TLA+ verification of docker-proxy

docker-proxy is an authenticating, filtering HTTP proxy in front of the Docker socket. This directory
models the proxy (`src/main.rs`, `src/rules.rs`, `src/config.rs`, `src/tls.rs`, `src/upgrade.rs`,
`src/audit.rs` and the counters of `src/metrics.rs`) in TLA+, checks it with TLC on small instances, and proves the most important safety properties with TLAPS for
every value of the constants. `PROJECT.json` has the exact source lines of every definition, the hazards
with the properties that cover them, the mutants and the findings.

## 1. The system

| Part | State | Operations | Hard because |
|------|-------|------------|--------------|
| Authentication limiter (`rules.rs`, `authenticate()`) | a mutex-protected map from IP to failure count, window start and lockout; two metrics | `is_blocked`, `record_failure`, `record_success`, `cleanup` | a request locks the map twice and others come in between; a cap on the map; windows and lockouts end at boundaries |
| Rate limiter (`rules.rs`) | a mutex-protected map of token buckets | `check`, `cleanup` | the clock is read before the mutex; a reload changes a bucket's settings; a cap on the map |
| Listener and hot reload (`main()`, `spawn_sighup_reloader`) | the configuration behind a lock, a `Notify` permit, the listener, one semaphore per listener, connections | load, swap, notify, clone, bind, retry, accept, finish | two tasks; signals and notifications merge; a bind may fail; old connections outlive their listener |
| Request pipeline (`handle()`, `handle_upgrade()`) | each request's progress and its snapshot of the configuration | arrival, authentication, body, rules, exchange with Docker, upgrade | an await at every turn, where the configuration may change, the client may leave or Docker may hang; some twenty exits with counters of their own |
| Upgrade tunnel (`handle_upgrade()`'s task) | two byte streams, two loops with an idle timer each | resolve both ends, read, write, shut down, join | one side may close, stall or idle alone; reads and writes are partial |
| Audit sink (`audit.rs`) | a bounded channel, a writer task, a file | `send`, open, receive, write | the writer lags or fails; `try_send` never waits |
| Metrics (`metrics.rs`) | atomic counters, per-rule counters, a latency histogram | increments, `render_prometheus` | an observation is three atomic steps |
| Rule engine (`rules.rs`, `config.rs`) | the rules in their order; the rate limiter; the response on its way out | load and sort, `evaluate_request_detailed`, `collect_response_filters`, `apply_response_filters` | order and ties, dry run, `require_role` falling through, tokens taken by requests that are refused later, filters on one another's paths |
| Conditions (`rules.rs`, `config.rs`) | none | the operators on each field, condition trees, JSON paths | what is missing, lists, types, negations |
| Configuration (`config.rs`, `main()`) | the file, the environment, what is fixed at the start | choose, load, expand, override, validate, reload | precedence of sources, at the start and at every reload |
| Roles, certificates, TLS (`tls.rs`, `main.rs`) | the listener's TLS settings | token and certificate to role, handshake | first match wins, fall-backs; a connection outlives the settings it was accepted with |
| Paths and client addresses (`main.rs`, `upgrade.rs`) | none | `canonicalize_path`, `compute_client_ip`, `is_upgrade_request` | encoded segments, chains of trusted proxies |
| Setup wizard, command line, logging | – | – | sequential, apart from the proxy |

How they interact. `main()` runs the listener loop and spawns the reloader, the cleanup task of both
limiters, the audit writer and one task per connection. A connection (keep-alive is off) carries one
request. `handle()` clones the current configuration once, asks `authenticate()` (which calls the
authentication limiter), then the rule engine (which calls the rate limiter), then Docker, and feeds the
metrics and the audit channel on the way. The reloader shares the configuration with both the requests
and the listener, and wakes the listener up.

What makes each part correct: a locked-out IP stays locked out and failures are neither lost nor counted
twice; a client gets no more than its burst and rate; the last configuration signalled is the one served,
and no permit is lost; a request is judged under one configuration, ends, is counted for what became of it and
is audited once; only declared credentials get in, and all of them do; the path and the address that the rules see are
not the client's to forge; the first matching rule with a terminating action decides, and what a filter names does not get out;
a tunnel relays every byte in order and ends.

## 2. The modules

| Module | Models | Uses |
|--------|--------|------|
| `AuthLockout` | abstract: what the limiter promises each IP | |
| `AuthLimiter` | `AuthLimiter` and `authenticate()`, one action per locked section or metric increment | `AuthLockout` through a refinement mapping |
| `AuthHistory` | history variables: the unpunished failures and the requests in flight when a lockout began | `AuthLimiter` |
| `RateLimiter` | `RateLimiter::check` and `cleanup` | |
| `RateBudget` | history variables: what a bucket gave away since it was full, and how far late calls set it back | `RateLimiter` |
| `Listener` | the listener loop, the reloader, `Notify`, semaphores, connections | |
| `Request` | `handle()`, `handle_upgrade()`, the counters, the audit sink, reloads, cancellation | |
| `UpgradeTunnel` | the two copy loops of an upgraded connection and its peers | |
| `JsonPaths` | `json_get`, `json_get_mut`, `json_remove` on a small type of documents | |
| `Environment` | `expand_env` | |
| `Matching` | matching one condition: the operators on each field | `JsonPaths` |
| `Conditions` | preparing conditions, and matching trees of them | `Matching`, `Environment` |
| `RuleEngine` | loading, evaluating rules and filtering responses | `JsonPaths`; how conditions match is a constant, which `MCRules` takes from `Conditions` |
| `RuleConditions` | what the conditions of the rules in force say of the request | `RuleEngine`, `Matching` |
| `RequestHead` | path, client address, bearer token and upgrade of a request | |
| `Credentials` | a file and the environment to a configuration; tokens and certificates to roles | `Environment`, `RequestHead` |
| `Access` | start, reloads, the listener's TLS settings, a connection, `authenticate()` on it | `Credentials` |
| `MCAuthLimiter`, `MCRateLimiter`, `MCRateCleanup`, `MCRequest`, `MCRules`, `MCAccess` | instances for TLC | |
| `AuthLimiterProofs` (for `AuthHistory` too), `RateLimiterProofs`, `ListenerProofs`, `RequestProofs`, `UpgradeTunnelProofs`, `RuleEngineProofs`, `AccessProofs` | theorems | the module each is named after; `RuleEngineProofs` is about `RuleConditions` too |
| `FiniteSums` | lemmas: induction over numbers, sequences and finite sets, sums over finite sets, and concatenations | |

Operators whose comment begins with "Mutant" are plausible mistakes in the operator that follows them. No
specification uses them; with one put in place of its original, TLC finds the property that
`PROJECT.json` pairs it with violated.

### State and actions against the code

*AuthLimiter.* `state` is the `HashMap`; `None` is a missing entry. A thread is `idle`, `passed`
(`is_blocked` said no), `failing` (`auth_failures_total` was incremented) or `tripped` (`record_failure`
returned true, `auth_lockouts_total` not yet incremented). `authenticate()` never awaits, so a call in
progress is a worker thread. The credentials and the authentication type are chosen freely; `Verdict` says
whether `authenticate()` counts them as a success, a failure or neither. Time is in ticks; the limiter
reads the clock under its mutex, so each locked section has one time.

*RateLimiter.* `call[t]` is a `check()` between reading the clock and getting the mutex. The rest of
`check()` is atomic and is split by its exits: `DenyNewKey`, `DenyPenalised`, `Grant`, `StartPenalty`.
Tokens are counted in units, `Scale` to a token, chosen such that every refill per tick is whole; the
rounding of `f64` is left out. A call picks any setting for its key, which includes a rule whose settings
a reload has changed. Subtracting a later `Instant` gives zero, as in the standard library.

*Listener.* Versions of the file are numbers; what is told apart is whether a version loads (`BadFiles`) and
whether `create_listener` accepts it (`DeadConfigs`); a bind may also fail for reasons of its own. The
reloader is three steps (load, swap, notify) and the listener loop clones, binds, serves, sleeps. `permit`
is the one permit that tokio's `Notify` stores. A connection that is upgraded ends its task and gives back
its permit while the tunnel goes on.

*Request.* An action is what a request does up to its next await or its next look at shared state. A
configuration is a pair: does `authenticate()` admit the request, and what does the rule engine say. The
limiters may refuse whenever they are asked. `DenyAuth`, `Evaluate` and so on update the same counters and
send the same audit events as the lines they stand for. Errors from Docker are possible at connect,
handshake, request and response; `TimeOut` has the four timeouts of the code. hyper's client handshake
waits for nobody, so its await needs no timeout. `Cancel` is hyper dropping the future of a request. The
tunnel's copying is one step here and is the subject of `UpgradeTunnel`.

*UpgradeTunnel.* A byte is its place in its stream, `c2d` and `d2c` are the two `async` blocks. `got` counts
what a loop has read, `off` what of it is written: the buffer holds the bytes in between. `read()` returns
any part of what has arrived; `write_all` proceeds as the sockets have room (`Window`). The idle timer only
covers the read, so a write waits for as long as the peer does not read. A peer that is gone makes reads and
writes fail, but they need not fail at once. Shutting down a TLS stream needs room for its last message.

*RuleEngine, Matching, Conditions, JsonPaths.* An action of `RuleEngine` is one turn of the code's loops: a rule, or a
filter. Rules keep the place they have in the file, and `order` is what sorting makes of it, so that the
properties can be stated of the file as it was written. `asked` and `refused` are what the rate limiter was
asked and what it said, which is a free choice. Texts are sequences of symbols; regular expressions and CIDR
ranges are the sets they match. `Matching` has all that is said of a single condition; what recurs, trees of
conditions, values to expand in depth and the JSON of a document (`Serialised`, the constant `ToJson` of
`Matching`), is in `Conditions`. An upgrade's context has no body and its response is not filtered. A path is
followed one segment at a time (`Walk`), and an assignment through `json_get_mut` rebuilds the containers on
its way (`Rebuild`). Which segments parse as an index, and as which, is a constant: `1`, `01` and `+1` are the
same `usize`, so paths that are spelled differently may lead to the same element, and `Apart`, which says
which paths a filter has nothing to do with, takes that into account.

*Access, Credentials, RequestHead.* A scenario fixes the environment, the files, and what clients may send.
`load_from_path` yields the set of the configuration, or of nothing if loading fails. `startup` is what
`main()` keeps for good. A reload replaces `config` at once, and the listener's `tls` when it restarts;
what happens in between, and the loop itself, is in `Listener`. `file`, `since`, `valid` and `snapFile` are
history: which file a configuration was made of, and which files were in force since the listener was
bound. `Scan` is the loop of `canonicalize_path` over `split('/')`, read symbol by symbol: the segments kept
so far and the one that has begun. The properties compare the code's answer with what the *file* declares, so they cover loading,
overriding and reloading as much as the look-up.

## 3. The runs

| Run | Expected | Checks |
|-----|----------|--------|
| `auth` | pass | `TypeOK`, `NoMissedLockout`, `TrackedWithinCap`, `FailuresPayForLockouts`, `DoubleFailuresLockOut`, `EarlyReleaseOnlyByInflight`, `ImplementsLockout` |
| `auth_window` | violation | `FailuresWithinWindowLockOut` |
| `rate` | pass | `TypeOK`, `TableWithinCap`, `TokensConserved`, `GrantsWithinBudget`, `PenaltyFreezesBucket`, `CleanupUnnoticed` |
| `rate_cleanup` | violation | `IdleBucketsCleanedUp` |
| `listener` | pass | `TypeOK`, `PermitsConserved`, `StaleListenerNotified`, `RestartsJustified`, `SignalledFileServed` |
| `listener_limit` | violation | `ConnectionLimit` |
| `request` | pass | `TypeOK`, `ForwardedUnderOnePolicy`, `CountersTellFates`, `AuditTrailExact`, `RequestsEnd` |
| `tunnel` | pass | `TypeOK`, `RelayedInOrder`, `DeliveredBeforeShutdown`, `EndsUnlessBlocked` |
| `rules` | pass | `TypeOK`, `FirstRuleDecides`, `LimitersAskedInTurn`, `NamedFieldsHidden`, `OthersUntouched`, `NegationsComplement` |
| `rules_role` | violation | `TerminatingRuleWins` |
| `access` | pass | `TypeOK`, `AdmissionsDeclared`, `DeclarationsHonoured`, `CertificatesVerified`, `ForgedHopsIgnored`, `PathsCanonical` |
| `access_certs` | violation | `FirstEntryWins` |

What the passing runs show.

- `auth`: with requests racing between their two locked sections, an entry without a lockout is always
  below the threshold; every lockout was paid for by failures of its own; only a request that was already
  in flight can lift a lockout early, by succeeding; cleanup shows in nobody's status; and although the
  window is fixed, `2 * AUTH_FAIL_MAX - 1` failures within its length always lock out.
- `rate`: a bucket gives away at most a full bucket and the refill of the time since. A call that read its
  clock before another one's and got the mutex after it sets `last_check` back, and that time is credited
  twice; `drift` measures it, and the bounds hold with it and not without it. A running penalty holds for
  every call. A bucket that `cleanup()` removes was free of penalties and full, so that its client, who gets a
  new one at the next call, gains nothing by it.
- `listener`: swap and notification are two steps, yet no reload is overlooked, because the permit is
  stored and is taken before the configuration is cloned; a file that loads and binds is served after a
  SIGHUP for it, even if binds failed in between.
- `request`: a reload between authentication and rules, or during any await, never lets a request through
  that no single configuration would have let through; the counters tell what became of the requests: each refusal
  and each failure of Docker is counted once under its own cause, and a refusal that a dry run waives is
  counted as that and as no refusal; what Docker answered is counted as allowed, and nothing that the
  rules refused is. Three things the counters do not tell: an upgrade is counted as allowed before Docker is
  asked, and as failed too when Docker fails; a request that cannot be built for Docker has no counter; and a
  request that is dropped keeps what was counted before. Every audit event is written, on its way or dropped,
  and only once; and every request ends whatever Docker and its client do.
- `tunnel`: through partial reads and writes bytes arrive in order; a direction shuts its sink down at the end
  of its stream only after the whole stream has been written, and after an idle hour only after all that was
  read; and a tunnel whose peers are silent ends by itself, unless a write waits for a peer that stopped
  reading, the one wait without a timer.
- `rules`: the first matching rule with a terminating action, by priority and then by place in the file,
  decides, and a dry-run refusal allows; a request takes a token from each matching limit up to that rule, and
  from none behind it. After all filters nothing they name shows, and nothing else has changed. Where the code
  has both, a negative operator is the complement of the positive one. Three cases are left out of these
  statements: a `require_role` rule that the user satisfies (`rules_role` is about it), an element of an array
  that a filter removes, and a negative operator on a field that the body lacks.
- `access`: a request gets in exactly with the credentials that the file in force when it arrived, or the
  environment, declares, and in a role declared for them; a reload changes nothing about the environment's
  secret. A certificate of one name has the role of the first entry that fits it, and was verified with the CA
  of a file in force since its listener was bound. A hop that a client puts in front of the others in the
  X-Forwarded-For line to which a trusted proxy appends does not change its address; a proxy that adds a
  line of its own, `X-Real-Ip` and `Forwarded` are not covered. The path has no dot segments
  and is its own canonical form; a second version prefix and a percent sign (from `%25`) are left in.

What the violated ones show: the documentation says otherwise than the code does.

- `auth_window`: "10 failures from the same IP within 60 seconds trigger a 5-minute lockout". The window
  starts at its first failure and does not slide, so failures on both sides of its end are not added up.
- `rate_cleanup`: "Idle buckets are cleaned up every 60 seconds". `cleanup()` looks at tokens that were not
  refilled since the last use, and a bucket of two or more requests never looks full.
- `listener_limit`: "Concurrent connections | 1,024". Each bind makes a new semaphore, and the connections
  of the old listener go on.
- `rules_role`: "The first matching rule with a terminating action (`deny`, `allow`, `require_role`) wins". A
  `require_role` rule that the user's role satisfies does not end the evaluation, and a later `deny` refuses.
- `access_certs`: "Ordered list of `{cn, role}` entries. [...] First match wins." `resolve_mtls_role` searches
  the map name by name, so an entry that fits the CN wins over an earlier one that fits a SAN.

More differences of this kind came up while modelling, for which there is no run. The model follows the code:

- `README.md:390` and `391` say that paths support array indices and that `remove` deletes the field; an
  element of an array stays (`rules.rs:267`).
- `README.md:323` has `not_matches` for headers; `match_header_condition` has no such operator and the
  condition never holds. `README.md:317`, `319` and `325` make `not_equals`, `not_contains` and
  `not_in` negations for fields of the body too; of a field that the body lacks neither holds
  (`match_body_condition`), and an upgrade is evaluated without its body (`main.rs:764`).
- `README.md:293` says that `response_filter` is used only with that action; it is used with every action.
- `README.md:506` and `514` describe one idle timeout of a tunnel, which lasts until either side closes;
  each direction has a timer of its own and the tunnel lasts until both have ended.
- `README.md:214` counts as allowed what is past the rule engine; a plain request is counted once Docker has
  answered (`main.rs:1205`), an upgrade before (`822`). `README.md:219` has `rate_limited_total` for requests denied
  due to rate limiting; upgrades are not counted in it (`main.rs:792`, `967`). `README.md:220` has
  `upgrade_total` for successful upgrades; attempts are counted (`main.rs:758`).
- `README.md:252` assigns `default_role` if no entry matches and the certificate has no CN, `254` if no entry
  matches; the code does the latter.
- `README.md:711` uses the rightmost untrusted address of X-Forwarded-For; the code takes it from the first
  line of that header only (`main.rs:321`).
- `README.md:295` says that dry-run rules emit events; a dry-run `rate_limit` is skipped without one.

### Bounds

- `auth`: three threads, so that one can be in flight while two others bring about a lockout or its end;
  two IPs and room for one, so that the map is full; threshold 3, window 1 and lockout 2 ticks, a clock of
  4 ticks and 6 counted failures: enough for a lockout, its end, and a second one.
- `rate`: two threads, so that one may be late; two keys and room for one bucket; four settings, with a
  burst of two, a bucket that `cleanup()` can find full, `period: 0` and `requests: 0`; a clock of 4 ticks,
  enough to exhaust a bucket, wait out a penalty and start again.
- `listener`: three edits, of which one does not load and one cannot be bound, three signals, one bind error
  beyond that, two connections and one permit. A fourth generation of listeners is reached.
- `request`: two requests of any kind, so that one may fill the audit channel (capacity 1) for the other;
  one reload among four configurations that admit or do not, deny, waive or limit.
- `tunnel`: three bytes each way, chunks of up to two and sockets with room for one, so that chunks are
  partial, written in pieces and blocked in the middle.
- `rules`: all operators with 15 values on 16 fields, for each the requests that tell them apart; files of two
  and three rules with all actions, two priorities, dry run or not, simple and nested conditions, for six
  combinations of role and header; filters on one another's paths. Three rules are enough for a rule to be
  hidden by one that is hidden by another.
- `access`: two reloads, so that the configuration may be replaced before and after the listener restarts; 13
  files and three environments for tokens, six files and five certificates of two CAs, 1,000 paths of
  three segments out of ten, and up to three hops in X-Forwarded-For. A scenario varies one of these; a
  request's token, certificate, path and address are read by separate code. Lengths are cut to 9 symbols
  for a path and 2 for a token.

Symmetry is used for threads and keys in `auth` and `rate`, whose properties are safety properties; the runs
with liveness properties use none. `auth` and `rate` check for deadlock. The other passing runs do not: there a process
may have exited, and every request may have been answered.

### Fairness

- `rate_cleanup`: weak fairness of `Cleanup`. The interval timer of the cleanup task never stops.
- `listener`: weak fairness of the reloader and of the listener loop. The runtime polls both; `select!`
  tries its branches in random order, so accepting cannot hold back a notification forever; bind errors
  that are not the version's fault are finitely many by their bound.
- `tunnel`: weak fairness of each copy loop, its idle timer and the join, which the runtime polls when a
  socket is ready or a timer fires. Nothing is assumed of the peers. While a read has data, `timeout`
  returns it even if the timer has expired, so a loop is idle only if nothing has arrived.
- `request`: weak fairness of what a request does on its own (`Local`) and of its timeouts. Nothing is
  assumed of Docker, the client, the reloader or the audit writer.

## 4. The proofs

Each theorem holds for every value of the constants that satisfies the assumptions named in the module
that declares them: numbers are naturals, sets are finite where their elements are counted, `None` is none
of the values, the threshold is reached before `u32` saturates, an entry old enough for `cleanup()` is
older than the window, refills are whole, files, filters and request heads have the types that serde and
hyper give them (a filter's path, split at its dots, has at least one segment; a condition has its four
fields and a request at most one body), and no escape of a path stands for an escape or is the slash. TLC
evaluates them on every run.

| Theorem | Says |
|---------|------|
| `AuthLimiterProofs!TypeCorrect`, `LockoutNeverMissed`, `MapStaysWithinCap` | `TypeOK`, `NoMissedLockout`, `TrackedWithinCap` |
| `AuthLimiterProofs!Refinement` | `Spec => ImplementsLockout` |
| `AuthLimiterProofs!LockoutsArePaidFor`, `DoubleFailuresAlwaysLockOut`, `OnlyInflightReleases` | `FailuresPayForLockouts`, `DoubleFailuresLockOut`, `EarlyReleaseOnlyByInflight` |
| `RateLimiterProofs!TypeCorrect`, `TableStaysWithinCap`, `PenaltyIsFinal`, `CleanupGivesNothingAway` | `TypeOK`, `TableWithinCap`, `PenaltyFreezesBucket`, `CleanupUnnoticed` |
| `RateLimiterProofs!Conservation`, `BudgetHolds` | `TokensConserved`, `GrantsWithinBudget` |
| `ListenerProofs!TypeCorrect`, `NoReloadOverlooked`, `OnlyReloadsRestart`, `NoPermitLost` | `TypeOK`, `StaleListenerNotified`, `RestartsJustified`, `PermitsConserved` |
| `RequestProofs!TypeCorrect`, `NoMixedConfigurations` | `TypeOK`, `ForwardedUnderOnePolicy` |
| `RequestProofs!CountersAlwaysTellFates`, `AuditTrailComplete` | `CountersTellFates`, `AuditTrailExact` |
| `UpgradeTunnelProofs!TypeCorrect`, `RelaysInOrder`, `DeliversBeforeShutdown` | `TypeOK`, `RelayedInOrder`, `DeliveredBeforeShutdown` |
| `RuleEngineProofs!DecisionsTyped`, `DecidesByFirstRule`, `AsksLimitersInTurn` | `TypeOK`, `FirstRuleDecides`, `LimitersAskedInTurn` |
| `RuleEngineProofs!FiltersHideWhatTheyName`, `FiltersTouchNothingElse` | `NamedFieldsHidden`, `OthersUntouched` |
| `RuleEngineProofs!NegationsAreComplements` | `NegationsComplement` |
| `AccessProofs!AccessTyped`, `OnlyDeclaredAdmitted`, `AllDeclaredAdmitted`, `OnlyVerifiedCertificates` | `TypeOK`, `AdmissionsDeclared`, `DeclarationsHonoured`, `CertificatesVerified` |
| `AccessProofs!ForgedHopsNeverCount`, `PathsAlwaysCanonical` | `ForgedHopsIgnored`, `PathsCanonical` |

The arguments.

- *AuthLimiter.* The inductive invariant `Inv` has the types, the fact that no window begins in the future,
  `NoMissedLockout` and `TrackedWithinCap`. The refinement needs it: an entry stands for a clear IP once
  its window or lockout is over, so `cleanup()` is a stutter (it keeps entries for longer than a window),
  a tick of the clock is the abstract `Tick`, and a locked section of `record_failure` is an abstract
  `Fail` only because an unlocked entry is below the threshold.
  `FailuresPayForLockouts` compares totals, and a step changes an entry: `PaymentInv` also counts the
  failures that entries without a lockout hold, a sum over all keys, and those counted by the metrics but
  not yet recorded. `EarlyReleaseOnlyByInflight` needs that during a lockout everybody who has passed
  `is_blocked` for the key was in flight when it began (`InflightInv`). `DoubleFailuresLockOut` is about
  times, while the entry only has the beginning of its window and a count: `MemoryInv` says where in the
  remembered failures the window of the entry begins, and that all but `AUTH_FAIL_MAX - 2` of the failures
  before it are more than a window older than its beginning.
- *RateLimiter.* `TypeInv` adds that no clock is ahead of `now`. `CleanupUnnoticed` rests on `GrantLeavesRoom`:
  a bucket without a penalty lacks at least the token its last `check()` granted, so a bucket that `cleanup()`
  removes is one whose penalty has run out, and the next `check()` would have started it from full.
  The budget rests on conservation of tokens (`BudgetInv`); `GrantsWithinBudget` alone is not
  inductive, since it says nothing of the tokens a bucket still holds.
- *Listener.* `StaleListenerNotified` is inductive as it stands. `RestartsJustified` needs the sum
  `NotificationsSpent` (restarts, the stored permit and the restart in progress against calls of
  `notify_one`). `PermitsConserved` needs that semaphores of later generations are unused.
- *Request.* `PolicyInv` relates progress to the snapshot: a request past authentication was admitted by its
  snapshot, a request past the rules was allowed by it, and the snapshot was in force after the
  request arrived. `CountersTellFates` is about numbers, and a step moves one request: `FatesInv` has for
  each counter the set of the requests that it counts (`Counted`), and which decisions and kinds of request can
  be at which step (`OnItsPath`). A step then moves its request into those sets whose counters it increments
  and into no other (`FatesMoves`, `FatesEvaluate`), and none ever leaves one. Requests are finitely many. For `AuditTrailExact`, `AuditInv` has that the places
  an event may be in are disjoint, that file and channel hold none twice, and that a request not yet decided
  has nothing to report, so that what is sent is new.
- *UpgradeTunnel.* Order needs that a sink holds as many bytes as the loop's offset says; `DeliveredBeforeShutdown`
  needs that a stream at its end stays there, besides that offset and the reason for which a loop was left.
- *RuleEngine.* `LoadedInv`: the order is a permutation of the file in which `Ahead` holds from left to right,
  and all rules are valid. `TurnInv`: the rules whose turn is over were silent, and their limiters granted.
  `DecidedInv`: what is known when a rule has decided, or none has: the first rule with a verdict did
  (`FirstVerdict`), of which `FirstRuleDecides` follows, since a terminating rule has no verdict only when it is a
  `require_role` rule that is satisfied. How conditions match is a constant, so
  this holds for any conditions. The types of `decision` follow from `DecidedInv`.
  The filters: `FilterInv` says that what a filter names is hidden, or the filter is still to be applied, and
  that unnamed paths lead to what they led to in Docker's document. Its steps rest on lemmas about
  documents. `SetElsewhere` says what an assignment at path p does on any path q, by induction along q:
  as long as q goes the way of p, it meets a container that was rebuilt, of the type it had; where q leaves
  p, it finds what was there; below the new value it finds what was below the old one, or nothing. So
  whatever a later filter does, on a path that was hidden there is a mask, nothing, or a container
  where a container was (`Changed`), and a mask is no container (`HiddenStays`). `CollectedIs` says that the
  filters collected are exactly those of the matching rules.
  The conditions: `ConditionInv` has the types of the conditions and that a request has at most one body. The negations are then shown field by field, each pair of
  operators at a time (`CompareOpposite`, `CompareFieldOpposite`, `HeaderOpposite`, `AddressOpposite`). For
  the body, the positive operator asks for some value of the field and the negative one does too, which is
  its negation only because a path leads to at most one value (`BodyField`).
- *Access.* `Loaded(f, c)` says that configuration c was made of file f, and `Inv` that this holds of the
  configuration in force and of the one a request has cloned, and that the TLS settings are those of a
  file in force since the bind. The rest is about the operators: `LoadedFacts` (what loading does to a
  file), `TokenWorth` and `CertWorth` (the code's searches find a role exactly where the file declares one, and for a
  single name that of the first entry),
  joined in `Authentication`. `ForgedHopsNeverCount` is about the rightmost untrusted address of a
  header with one entry more on its left: it is the same address, one place further on.
  `PathsAlwaysCanonical`: along the loop every segment kept is clean, that is neither empty nor a dot segment
  and without a slash, and together with the one being read they are no longer than what has been read
  (`StateFacts`, `ResolveFacts`), so a canonical path is not refused for its length when it is read again. A
  path put together of clean segments has no dot segments anywhere (`NoDotSegments`), and reading it gives
  the same segments back (`ResolveSlashed`), with or without its last slash (`JoinedFacts`). Decoding leaves
  a path without percent signs and escapes as it is.

Induction. The library's induction theorems take the predicate as an operator, which the provers cannot
instantiate. `FiniteSums` therefore states induction with the predicate as a set and proves it by a least
counterexample (`NumbersByInduction`, `SequencesByInduction`, `SubsetsByInduction`). With it the recursive
functions of the model are shown to exist (`WalkIs`, `RebuildIs`, `ScanIs`, `FlatExists`, `PartialSumsExist`)
and what they compute is proved for paths, documents and sets of any size.

What the proofs changed in the model: the `CASE` expression for a step of `json_get` had
branches that overlap, of which the provers may take either; they now exclude one another. A segment
was compared with the decimal form of an index; the proof that a filter touches nothing else asked
when two segments lead to the same element, and the code's `parse` accepts more than one spelling. Single
conditions moved out of the module with the recursive operators, and the loop of `canonicalize_path` became
a recursive function of the symbols read, which the provers can follow.

Only model-checked: `SignalledFileServed`, `RequestsEnd` and `EndsUnlessBlocked`. They are liveness properties, which the prover does not handle, as it does not handle `ENABLED`. It cannot
work with `RECURSIVE` operators either. `Conditions` has these for values and trees of conditions nested to
any depth; what they compute is used by the run `rules` and stays with TLC, while the theorems about
`RuleEngine` hold however trees of conditions match. Every invariant and every action property of the passing
runs is stated by a theorem.

## 5. Not modelled

- The latency histogram and the rendering of the metrics: a scrape may see an observation half done, which
  no document excludes.
- YAML, JSON, X.509, regular expressions, CIDR arithmetic, TLS and HTTP themselves are libraries' work.
  Whether a file parses, a certificate is readable and a text is an address are inputs.
- Which headers are passed on to Docker, and the check that the body of some requests is JSON
  (`requires_json_body`): both lead to exits that `Request` has.
- The setup wizard, the command line and the log output are sequential and apart from the proxy.
- A panic while a mutex is held, and a penalty so large that adding it to an `Instant` overflows.

## 6. The plan

Done: the limiters, the listener, the requests with the audit sink, the tunnel, the rules with conditions and
filters, loading and reloading, authentication, paths and addresses; theorems about each. Next:

1. A composition of `Request` with `AuthLimiter` and `RateLimiter` in place of free choices.
2. `Metrics`: `observe` as atomic steps against a scrape.
