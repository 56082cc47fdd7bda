---------------------------- MODULE RateLimiter ----------------------------
(***************************************************************************)
(* The token buckets of docker-proxy: RateLimiter in src/rules.rs.  A rule *)
(* with action rate_limit calls check(key, requests, period, penalty) with *)
(* the key "<rule name>:<client ip>".  check() reads the clock BEFORE it   *)
(* takes the mutex, so a thread may enter the locked section with a time   *)
(* older than the one the bucket was last used at.  cleanup() runs every   *)
(* minute.                                                                 *)
(*                                                                         *)
(* Tokens are counted in units, Scale of them to a token, fine enough that *)
(* what a tick refills is a whole number; f64 rounding is left out.        *)
(***************************************************************************)
EXTENDS Naturals, FiniteSets

CONSTANTS
    Keys,           \* "<rule name>:<client ip>"
    Threads,        \* worker threads of the runtime
    Settings,       \* the rate_limit settings a rule may have, over reloads
    None,           \* Rust's None, and the absence of a map entry
    Scale,          \* units in a token
    Tolerance,      \* the 0.001 token of cleanup(), in units
    MaxBuckets,     \* MAX_RATE_LIMIT_BUCKETS
    MaxTime         \* bound on the clock

Setting == [requests : Nat, period : Nat, penalty : Nat]

Bucket == [last_check : Nat, tokens : Nat, max_tokens : Nat, blocked_until : Nat \cup {None}]

Call == [key : Keys, setting : Settings, at : Nat]

ASSUME SettingsAssumption == Settings \subseteq Setting

ASSUME ScaleAssumption ==
    /\ Scale \in Nat \ {0}
    /\ Tolerance \in Nat /\ Tolerance < Scale
    /\ \A s \in Settings : s.period # 0 => (s.requests * Scale) % s.period = 0

ASSUME BoundsAssumption == MaxBuckets \in Nat /\ MaxTime \in Nat

ASSUME NoneAssumption == None \notin Nat /\ None \notin Bucket /\ None \notin Call

ASSUME KeysAssumption == IsFiniteSet(Keys)

VARIABLES
    now,        \* Instant::now()
    buckets,    \* the mutex-protected HashMap<key, RateBucket>
    call        \* per thread, its check() between the clock and the mutex

vars == <<now, buckets, call>>

----------------------------------------------------------------------------
Tracked == {k \in Keys : buckets[k] # None}

Capacity(s) == s.requests * Scale

\* What one tick refills: requests / period, or all of it when period is 0.
Refill(s) == IF s.period = 0 THEN Capacity(s) ELSE Capacity(s) \div s.period

\* Mutant: one bucket too many.
AtCapacityLate(k) == k \notin Tracked /\ Cardinality(Tracked) > MaxBuckets

AtCapacity(k) == k \notin Tracked /\ Cardinality(Tracked) >= MaxBuckets

FullBucket(s, at) ==
    [last_check |-> at, tokens |-> Capacity(s), max_tokens |-> Capacity(s), blocked_until |-> None]

\* Mutant: a penalty holds only for calls that started after the bucket's last use.
PenalisedUnlessLate(c) ==
    /\ buckets[c.key] # None
    /\ buckets[c.key].blocked_until # None
    /\ c.at < buckets[c.key].blocked_until
    /\ c.at >= buckets[c.key].last_check

\* The call c finds its bucket under a penalty that, by its clock, still runs.
Penalised(c) ==
    /\ buckets[c.key] # None
    /\ buckets[c.key].blocked_until # None
    /\ c.at < buckets[c.key].blocked_until

\* The bucket is created, or its penalty has run out: it starts again from full.
StartsFull(c) == buckets[c.key] = None \/ buckets[c.key].blocked_until # None

\* Mutant: the distance between the two clocks, whichever is ahead.
ElapsedAbsolute(c) ==
    IF c.at > buckets[c.key].last_check
    THEN c.at - buckets[c.key].last_check
    ELSE buckets[c.key].last_check - c.at

\* now - last_check; Instant's subtraction gives zero when the result is negative.
Elapsed(c) ==
    IF c.at > buckets[c.key].last_check THEN c.at - buckets[c.key].last_check ELSE 0

\* Mutant: the refill is not capped.
AvailableUncapped(c) ==
    IF StartsFull(c)
    THEN Capacity(c.setting)
    ELSE buckets[c.key].tokens + Elapsed(c) * Refill(c.setting)

\* The tokens the call c finds once the bucket is refilled.
Available(c) ==
    IF StartsFull(c)
    THEN Capacity(c.setting)
    ELSE LET refilled == buckets[c.key].tokens + Elapsed(c) * Refill(c.setting)
         IN  IF refilled < Capacity(c.setting) THEN refilled ELSE Capacity(c.setting)

\* Mutant: only a running penalty keeps a bucket, tokens still owed to it do not.
RetainedWhilePenalised(b) ==
    b.blocked_until # None /\ now < b.blocked_until

\* cleanup() retains b.
Retained(b) ==
    \/ b.blocked_until # None /\ now < b.blocked_until
    \/ b.tokens + Tolerance < b.max_tokens

----------------------------------------------------------------------------
Init ==
    /\ now = 0
    /\ buckets = [k \in Keys |-> None]
    /\ call = [t \in Threads |-> None]

\* check() up to the mutex.  requests: 0 is denied without looking further.
Enter(t, k, s) ==
    /\ call[t] = None
    /\ call' = [call EXCEPT ![t] =
                   IF s.requests = 0 THEN None ELSE [key |-> k, setting |-> s, at |-> now]]
    /\ UNCHANGED <<now, buckets>>

\* The rest of check(), under the mutex: a full table denies a new key,
DenyNewKey(t) ==
    /\ call[t] # None
    /\ AtCapacity(call[t].key)
    /\ call' = [call EXCEPT ![t] = None]
    /\ UNCHANGED <<now, buckets>>

\* a running penalty denies and leaves the bucket as it is,
DenyPenalised(t) ==
    /\ call[t] # None
    /\ Penalised(call[t])
    /\ call' = [call EXCEPT ![t] = None]
    /\ UNCHANGED <<now, buckets>>

\* Mutant: last_check is not moved on when a token is granted.
GrantWithoutClock(t) ==
    /\ call[t] # None
    /\ LET c == call[t]
       IN  /\ ~AtCapacity(c.key) /\ ~Penalised(c)
           /\ Available(c) >= Scale
           /\ buckets' = [buckets EXCEPT ![c.key] =
                  [FullBucket(c.setting, IF StartsFull(c) THEN c.at ELSE buckets[c.key].last_check)
                      EXCEPT !.tokens = Available(c) - Scale]]
    /\ call' = [call EXCEPT ![t] = None]
    /\ UNCHANGED now

\* a bucket with a token gives it away,
Grant(t) ==
    /\ call[t] # None
    /\ LET c == call[t]
       IN  /\ ~AtCapacity(c.key) /\ ~Penalised(c)
           /\ Available(c) >= Scale
           /\ buckets' = [buckets EXCEPT ![c.key] =
                  [FullBucket(c.setting, c.at) EXCEPT !.tokens = Available(c) - Scale]]
    /\ call' = [call EXCEPT ![t] = None]
    /\ UNCHANGED now

\* and one without starts a penalty, counted from the caller's clock.
StartPenalty(t) ==
    /\ call[t] # None
    /\ LET c == call[t]
       IN  /\ ~AtCapacity(c.key) /\ ~Penalised(c)
           /\ Available(c) < Scale
           /\ buckets' = [buckets EXCEPT ![c.key] =
                  [last_check |-> c.at, tokens |-> Available(c),
                   max_tokens |-> Capacity(c.setting),
                   blocked_until |-> c.at + c.setting.penalty]]
    /\ call' = [call EXCEPT ![t] = None]
    /\ UNCHANGED now

\* The cleanup task of main(); its timer may fire at any tick.
Cleanup ==
    /\ buckets' = [k \in Keys |->
                      IF k \in Tracked /\ Retained(buckets[k]) THEN buckets[k] ELSE None]
    /\ UNCHANGED <<now, call>>

Tick ==
    /\ now < MaxTime
    /\ now' = now + 1
    /\ UNCHANGED <<buckets, call>>

Check(t) ==
    \/ \E k \in Keys, s \in Settings : Enter(t, k, s)
    \/ DenyNewKey(t)
    \/ DenyPenalised(t)
    \/ Grant(t)
    \/ StartPenalty(t)

Next ==
    \/ \E t \in Threads : Check(t)
    \/ Cleanup
    \/ Tick

Spec == Init /\ [][Next]_vars

\* The cleanup task's interval timer keeps firing.
FairSpec == Spec /\ WF_vars(Cleanup)

----------------------------------------------------------------------------
(* Properties.                                                              *)

\* Every variable keeps its type; a bucket never holds more than its capacity.
TypeOK ==
    /\ now \in 0..MaxTime
    /\ buckets \in [Keys -> Bucket \cup {None}]
    /\ call \in [Threads -> Call \cup {None}]
    /\ \A k \in Tracked : buckets[k].tokens <= buckets[k].max_tokens

\* The table never holds more than MAX_RATE_LIMIT_BUCKETS buckets.
TableWithinCap == Cardinality(Tracked) <= MaxBuckets

\* A running penalty is final: until it has run out no check() of any thread,
\* however old its clock, and no cleanup() changes the bucket.
PenaltyFreezesBucket ==
    [][\A k \in Keys :
          /\ buckets[k] # None
          /\ buckets[k].blocked_until # None
          /\ now < buckets[k].blocked_until
          => buckets'[k] = buckets[k]]_vars

\* A bucket unused for so long that a refill would fill it, whatever its rule's
\* settings have become.
Idle(k) ==
    /\ k \in Tracked
    /\ buckets[k].blocked_until = None
    /\ \A s \in Settings :
          buckets[k].tokens + (now - buckets[k].last_check) * Refill(s) >= buckets[k].max_tokens

\* The README's "Idle buckets are cleaned up every 60 seconds": an idle bucket is
\* removed or used again.
IdleBucketsCleanedUp == \A k \in Keys : Idle(k) ~> ~Idle(k)

\* Cleaning up gives nothing away: a bucket that cleanup() removes is one that the
\* key's next check(), whatever its rule's settings have become, would have found
\* free of any penalty and full, as the new bucket will be.
CleanupUnnoticed ==
    [][\A k \in Tracked \ Tracked', s \in Settings :
          LET c == [key |-> k, setting |-> s, at |-> now]
          IN  ~Penalised(c) /\ Available(c) = Capacity(s)]_vars

=============================================================================
