---------------------------- MODULE AuthLimiter ----------------------------
(***************************************************************************)
(* The per-IP authentication lockout of docker-proxy: AuthLimiter in       *)
(* src/rules.rs, and authenticate() in src/main.rs, which is its only      *)
(* client.  authenticate() never awaits, so the calls in progress are one  *)
(* per worker thread of the runtime; each takes the limiter's mutex twice, *)
(* in is_blocked and in record_failure or record_success, and the calls of *)
(* other threads may come between the two.  Each locked section is one     *)
(* action here, and so is each atomic increment of a metric.               *)
(***************************************************************************)
EXTENDS Naturals, FiniteSets

CONSTANTS
    Keys,           \* source IPs, the keys of the limiter's map
    Threads,        \* worker threads of the runtime
    None,           \* Rust's None, and the absence of a map entry
    MaxFailures,    \* AUTH_FAIL_MAX
    Window,         \* AUTH_FAIL_WINDOW, in ticks
    Lockout,        \* AUTH_FAIL_LOCKOUT, in ticks
    CleanupAge,     \* the 600 seconds of AuthLimiter::cleanup, in ticks
    MaxKeys,        \* MAX_AUTH_LIMITER_KEYS
    U32Max,         \* u32::MAX, where `failures` saturates
    MaxTime,        \* bound on the clock
    MaxCounted      \* bound on auth_failures_total

Entry == [failures : Nat, first_failure : Nat, blocked_until : Nat \cup {None}]

ASSUME LimitsAssumption ==
    /\ MaxFailures \in Nat \ {0}
    /\ Window \in Nat
    /\ Lockout \in Nat \ {0}
    /\ CleanupAge \in Nat
    /\ MaxKeys \in Nat
    /\ U32Max \in Nat
    /\ MaxTime \in Nat
    /\ MaxCounted \in Nat

\* The failures counter reaches the threshold before it saturates, and an entry
\* old enough for cleanup() is older than the window it counts in (600 s > 60 s).
ASSUME OrderAssumption == MaxFailures <= U32Max /\ Window < CleanupAge

ASSUME NoneAssumption == None \notin Nat /\ None \notin Entry

ASSUME KeysAssumption == IsFiniteSet(Keys) /\ None \notin Keys

\* The runtime has finitely many workers.
ASSUME ThreadsAssumption == IsFiniteSet(Threads)

VARIABLES
    now,                    \* Instant::now()
    state,                  \* the mutex-protected HashMap<ip, AuthLockoutState>
    pc,                     \* where each thread stands in authenticate()
    key,                    \* the auth_key of its call, the peer's IP
    auth_failures_total,    \* metrics
    auth_lockouts_total

vars == <<now, state, pc, key, auth_failures_total, auth_lockouts_total>>

----------------------------------------------------------------------------
(* What a request brings: the auth.type of its config snapshot ("unset" for *)
(* a configuration with no usable secret or token) and its credentials.     *)
AuthTypes   == {"none", "mtls", "token", "unset"}
Credentials == {"missing", "malformed", "unknown", "known"}

\* Which of its four endings authenticate() takes once the IP is not blocked.
Verdict(type, cred) ==
    CASE type = "none"                         -> "open"
      [] type = "mtls" /\ cred \in {"missing", "malformed"} -> "refused"
      [] type = "unset"                        -> "refused"
      [] type \in {"mtls", "token"} /\ cred = "known"       -> "success"
      [] OTHER                                 -> "failure"

----------------------------------------------------------------------------
(* The state of the limiter.                                                *)
Tracked == {k \in Keys : state[k] # None}

\* is_blocked(k)
Locked(k) ==
    /\ state[k] # None
    /\ state[k].blocked_until # None
    /\ now < state[k].blocked_until

Fresh == [failures |-> 0, first_failure |-> now, blocked_until |-> None]

EntryOf(k) == IF state[k] = None THEN Fresh ELSE state[k]

LockoutOver(e) == e.blocked_until # None /\ now >= e.blocked_until

WindowOver(e) == now - e.first_failure > Window

\* Mutant: an expired lockout is lifted but its failures are kept.
RestartedKeepingCount(e) ==
    IF LockoutOver(e)
    THEN [e EXCEPT !.blocked_until = None]
    ELSE IF WindowOver(e)
         THEN [Fresh EXCEPT !.blocked_until = e.blocked_until]
         ELSE e

\* The two resets at the head of record_failure.
Restarted(e) ==
    IF LockoutOver(e)
    THEN Fresh
    ELSE IF WindowOver(e)
         THEN [Fresh EXCEPT !.blocked_until = e.blocked_until]
         ELSE e

SaturatingInc(n) == IF n < U32Max THEN n + 1 ELSE U32Max

\* The entry of k after one more failure, before the threshold is looked at.
Counted(k) ==
    LET e == Restarted(EntryOf(k))
    IN  [e EXCEPT !.failures = SaturatingInc(e.failures)]

\* Mutant: one address too many.
AtCapacityLate(k) == Cardinality(Tracked) > MaxKeys /\ k \notin Tracked

\* The map is full and k is not in it.
AtCapacity(k) == Cardinality(Tracked) >= MaxKeys /\ k \notin Tracked

\* Mutant: one failure too late.
TripsLate(e) == e.failures > MaxFailures /\ e.blocked_until = None

Trips(e) == e.failures >= MaxFailures /\ e.blocked_until = None

\* Mutant: age alone counts, and a lockout can be cleaned away.
RetainedByAge(e) == now - e.first_failure < CleanupAge

\* Mutant: an entry is dropped while its window still runs.
RetainedBriefly(e) ==
    IF e.blocked_until # None
    THEN now < e.blocked_until
    ELSE now - e.first_failure < Window

\* cleanup() retains e.
Retained(e) ==
    IF e.blocked_until # None
    THEN now < e.blocked_until
    ELSE now - e.first_failure < CleanupAge

----------------------------------------------------------------------------
Init ==
    /\ now = 0
    /\ state = [k \in Keys |-> None]
    /\ pc = [t \in Threads |-> "idle"]
    /\ key = [t \in Threads |-> None]
    /\ auth_failures_total = 0
    /\ auth_lockouts_total = 0

\* Mutant: a missing return, the call goes on without its key.
ReturnMissing(t) ==
    /\ UNCHANGED pc
    /\ key' = [key EXCEPT ![t] = None]

\* authenticate() returns: the thread is free for another request.
Return(t) ==
    /\ pc' = [pc EXCEPT ![t] = "idle"]
    /\ key' = [key EXCEPT ![t] = None]

\* First locked section: is_blocked.  A blocked IP is answered 429 at once.
CheckBlocked(t, k) ==
    /\ pc[t] = "idle"
    /\ IF Locked(k)
       THEN Return(t)
       ELSE /\ pc' = [pc EXCEPT ![t] = "passed"]
            /\ key' = [key EXCEPT ![t] = k]
    /\ UNCHANGED <<now, state, auth_failures_total, auth_lockouts_total>>

\* auth.type none is allowed; a missing client certificate, or no authentication
\* configured, is refused with a 401 that the limiter does not count.
ReturnUncounted(t) ==
    /\ pc[t] = "passed"
    /\ \E type \in AuthTypes, cred \in Credentials :
           Verdict(type, cred) \in {"open", "refused"}
    /\ Return(t)
    /\ UNCHANGED <<now, state, auth_failures_total, auth_lockouts_total>>

\* Second locked section, on success: record_success drops the IP's entry.
RecordSuccess(t) ==
    /\ pc[t] = "passed"
    /\ \E type \in AuthTypes, cred \in Credentials : Verdict(type, cred) = "success"
    /\ state' = [state EXCEPT ![key[t]] = None]
    /\ Return(t)
    /\ UNCHANGED <<now, auth_failures_total, auth_lockouts_total>>

\* A failure is counted in the metrics first ...
CountFailure(t) ==
    /\ pc[t] = "passed"
    /\ auth_failures_total < MaxCounted
    /\ \E type \in AuthTypes, cred \in Credentials : Verdict(type, cred) = "failure"
    /\ auth_failures_total' = auth_failures_total + 1
    /\ pc' = [pc EXCEPT ![t] = "failing"]
    /\ UNCHANGED <<now, state, key, auth_lockouts_total>>

\* ... then record_failure, the second locked section: a full map ignores a new
\* IP,
IgnoreFailure(t) ==
    /\ pc[t] = "failing"
    /\ AtCapacity(key[t])
    /\ Return(t)
    /\ UNCHANGED <<now, state, auth_failures_total, auth_lockouts_total>>

\* and any other failure is entered, and starts a lockout at the threshold.
RecordFailure(t) ==
    /\ pc[t] = "failing"
    /\ ~AtCapacity(key[t])
    /\ LET e == Counted(key[t])
       IN  IF Trips(e)
           THEN /\ state' = [state EXCEPT ![key[t]] =
                                [e EXCEPT !.blocked_until = now + Lockout]]
                /\ pc' = [pc EXCEPT ![t] = "tripped"]
                /\ UNCHANGED key
           ELSE /\ state' = [state EXCEPT ![key[t]] = e]
                /\ Return(t)
    /\ UNCHANGED <<now, auth_failures_total, auth_lockouts_total>>

\* record_failure returned true: the lockout is counted after the mutex is free.
CountLockout(t) ==
    /\ pc[t] = "tripped"
    /\ auth_lockouts_total' = auth_lockouts_total + 1
    /\ Return(t)
    /\ UNCHANGED <<now, state, auth_failures_total>>

\* The cleanup task of main(); its timer may fire at any tick.
Cleanup ==
    /\ state' = [k \in Keys |->
                    IF k \in Tracked /\ Retained(state[k]) THEN state[k] ELSE None]
    /\ UNCHANGED <<now, pc, key, auth_failures_total, auth_lockouts_total>>

Tick ==
    /\ now < MaxTime
    /\ now' = now + 1
    /\ UNCHANGED <<state, pc, key, auth_failures_total, auth_lockouts_total>>

Authenticate(t) ==
    \/ \E k \in Keys : CheckBlocked(t, k)
    \/ ReturnUncounted(t)
    \/ RecordSuccess(t)
    \/ CountFailure(t)
    \/ IgnoreFailure(t)
    \/ RecordFailure(t)
    \/ CountLockout(t)

Next ==
    \/ \E t \in Threads : Authenticate(t)
    \/ Cleanup
    \/ Tick

Spec == Init /\ [][Next]_vars

----------------------------------------------------------------------------
(* Properties.                                                              *)

\* Every variable keeps the type its Rust declaration gives it, and a thread has
\* an IP exactly while it is inside authenticate().
TypeOK ==
    /\ now \in 0..MaxTime
    /\ state \in [Keys -> Entry \cup {None}]
    /\ pc \in [Threads -> {"idle", "passed", "failing", "tripped"}]
    /\ key \in [Threads -> Keys \cup {None}]
    /\ \A t \in Threads : pc[t] # "idle" => key[t] \in Keys
    /\ auth_failures_total \in 0..MaxCounted
    /\ auth_lockouts_total \in Nat

\* record_failure never misses a lockout: an entry that carries no lockout is
\* below the threshold, whatever resets, late failures of in-flight requests,
\* successes and cleanups came before; and no lockout outlasts its term.
NoMissedLockout ==
    \A k \in Tracked :
        /\ state[k].first_failure <= now
        /\ state[k].blocked_until = None => state[k].failures \in 1..(MaxFailures - 1)
        /\ state[k].blocked_until # None => state[k].blocked_until <= now + Lockout

\* The map never holds more than MAX_AUTH_LIMITER_KEYS addresses.
TrackedWithinCap == Cardinality(Tracked) <= MaxKeys

\* Every lockout the metrics report was paid for by AUTH_FAIL_MAX failures of its
\* own: failures of in-flight requests during a lockout never count towards the
\* next one.  A lockout that is set but not yet counted is included.
FailuresPayForLockouts ==
    auth_failures_total
        >= MaxFailures * (auth_lockouts_total + Cardinality({t \in Threads : pc[t] = "tripped"}))

----------------------------------------------------------------------------
(* The limiter implements AuthLockout.                                      *)

\* An entry whose window or lockout has run out stands for a clear IP, whether or
\* not cleanup() has removed it.
Abstraction(e) ==
    LET clear == [kind |-> "clear", count |-> 0, at |-> 0]
    IN  IF e = None
        THEN clear
        ELSE IF e.blocked_until # None
             THEN IF now < e.blocked_until
                  THEN [kind |-> "locked", count |-> 0, at |-> e.blocked_until]
                  ELSE clear
             ELSE IF WindowOver(e)
                  THEN clear
                  ELSE [kind |-> "counting", count |-> e.failures, at |-> e.first_failure]

\* A call is AuthLockout's from the moment it passed is_blocked until the limiter
\* has recorded how it ended.
Inside(t) == IF pc[t] \in {"passed", "failing"} THEN key[t] ELSE None

Promise == INSTANCE AuthLockout WITH
    status <- [k \in Keys |-> Abstraction(state[k])],
    inside <- [t \in Threads |-> Inside(t)],
    failed <- {t \in Threads : pc[t] = "failing"}

\* What AuthLockout promises each IP holds of the hash map, its cleanup task and
\* the racing requests: a locked IP starts no call, a failure always counts unless
\* nothing is held against its IP, only a call that has not failed clears its IP,
\* and cleanup shows in nobody's status.
ImplementsLockout == Promise!Spec

=============================================================================
