----------------------------- MODULE RateBudget -----------------------------
(***************************************************************************)
(* RateLimiter with history variables that add up what each bucket gave    *)
(* away since it was last full.                                            *)
(***************************************************************************)
EXTENDS RateLimiter, Integers

CONSTANTS
    BurstCap,       \* the largest `requests` of any setting
    RateCap         \* the largest refill of any setting, in units per tick

ASSUME CapsAssumption ==
    /\ BurstCap \in Nat /\ RateCap \in Nat
    /\ \A s \in Settings : s.requests <= BurstCap /\ Refill(s) <= RateCap

VARIABLES
    granted,    \* per key, the requests allowed since the bucket last started full
    since,      \* when that was, by the clock of the check() that did it
    drift       \* by how much last_check was set back since then, in total

bvars == <<vars, granted, since, drift>>

BInit ==
    /\ Init
    /\ granted = [k \in Keys |-> 0]
    /\ since = [k \in Keys |-> 0]
    /\ drift = [k \in Keys |-> 0]

\* How far the call c sets last_check back.
SetBack(c) ==
    IF c.at < buckets[c.key].last_check THEN buckets[c.key].last_check - c.at ELSE 0

BGrant(t) ==
    /\ Grant(t)
    /\ LET c == call[t]
       IN  IF StartsFull(c)
           THEN /\ granted' = [granted EXCEPT ![c.key] = 1]
                /\ since' = [since EXCEPT ![c.key] = c.at]
                /\ drift' = [drift EXCEPT ![c.key] = 0]
           ELSE /\ granted' = [granted EXCEPT ![c.key] = @ + 1]
                /\ drift' = [drift EXCEPT ![c.key] = @ + SetBack(c)]
                /\ UNCHANGED since

BStartPenalty(t) ==
    /\ StartPenalty(t)
    /\ drift' = [drift EXCEPT ![call[t].key] = @ + SetBack(call[t])]
    /\ UNCHANGED <<granted, since>>

BOther ==
    /\ \/ \E t \in Threads : \/ \E k \in Keys, s \in Settings : Enter(t, k, s)
                            \/ DenyNewKey(t)
                            \/ DenyPenalised(t)
       \/ Cleanup
       \/ Tick
    /\ UNCHANGED <<granted, since, drift>>

BNext ==
    \/ \E t \in Threads : BGrant(t) \/ BStartPenalty(t)
    \/ BOther

BSpec == BInit /\ [][BNext]_bvars

----------------------------------------------------------------------------
\* The time a bucket was refilled for since it started full.
Credited(k) == buckets[k].last_check - since[k] + drift[k]

\* Tokens are conserved: what a bucket gave away and what it holds is at most a
\* full bucket and the refill of the time credited to it.
TokensConserved ==
    \A k \in Tracked :
        granted[k] * Scale + buckets[k].tokens <= BurstCap * Scale + RateCap * Credited(k)

\* The limit a client sees: from any moment its bucket was full, at most `requests`
\* at once and requests / period per second from then on.  Calls that enter with
\* an old clock are credited the time they set the bucket back, and only that.
GrantsWithinBudget ==
    \A k \in Tracked :
        granted[k] * Scale <= BurstCap * Scale + RateCap * (now - since[k] + drift[k])

=============================================================================
