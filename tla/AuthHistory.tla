---------------------------- MODULE AuthHistory ----------------------------
(***************************************************************************)
(* AuthLimiter with two history variables, for the properties that relate  *)
(* a lockout to the requests that came before it.                          *)
(***************************************************************************)
EXTENDS AuthLimiter, Sequences

VARIABLES
    unpunished,     \* per IP, the times of the last failures since the IP was
                    \* last locked out or cleared by a success
    inflight        \* per IP, the threads whose request had passed is_blocked
                    \* when its last lockout began

hvars == <<vars, unpunished, inflight>>

\* How many failure times are kept: enough for DoubleFailuresLockOut.
Remembered == 2 * MaxFailures - 1

Remember(times, t) ==
    LET all == Append(times, t)
    IN  IF Len(all) > Remembered THEN Tail(all) ELSE all

HInit ==
    /\ Init
    /\ unpunished = [k \in Keys |-> <<>>]
    /\ inflight = [k \in Keys |-> {}]

HRecordFailure(t) ==
    /\ RecordFailure(t)
    /\ unpunished' = [unpunished EXCEPT ![key[t]] =
           CASE pc'[t] = "tripped" -> <<>>
             [] Locked(key[t])     -> @
             [] OTHER              -> Remember(@, now)]
    /\ inflight' = [inflight EXCEPT ![key[t]] =
           IF pc'[t] = "tripped" THEN {u \in Threads : u # t /\ key[u] = key[t]} ELSE @]

HRecordSuccess(t) ==
    /\ RecordSuccess(t)
    /\ unpunished' = [unpunished EXCEPT ![key[t]] = <<>>]
    /\ UNCHANGED inflight

HOther ==
    /\ \/ \E t \in Threads : \/ \E k \in Keys : CheckBlocked(t, k)
                            \/ ReturnUncounted(t)
                            \/ CountFailure(t)
                            \/ IgnoreFailure(t)
                            \/ CountLockout(t)
       \/ Cleanup
       \/ Tick
    /\ UNCHANGED <<unpunished, inflight>>

HNext ==
    \/ \E t \in Threads : HRecordFailure(t) \/ HRecordSuccess(t)
    \/ HOther

HSpec == HInit /\ [][HNext]_hvars

----------------------------------------------------------------------------
(* The n last unpunished failures of k, when there are n, all fall within   *)
(* one window's length.                                                     *)
Burst(k, n) ==
    LET f == unpunished[k]
    IN  Len(f) >= n /\ f[Len(f)] - f[Len(f) - n + 1] <= Window

\* The README's rule: AUTH_FAIL_MAX failures from one IP within the window lock
\* it out.  record_failure counts in a window fixed at the first failure, so the
\* failures on both sides of a window's end are never added up.
FailuresWithinWindowLockOut ==
    \A k \in Keys : ~Burst(k, MaxFailures)

\* What the fixed window of record_failure does guarantee: 2 * AUTH_FAIL_MAX - 1
\* failures within one window's length always include one that locks out.  Failures
\* that it ignores, because the map is full, are no failures here.
DoubleFailuresLockOut ==
    \A k \in Keys : ~Burst(k, 2 * MaxFailures - 1)

\* A lockout ends before its time only through the record_success of a request
\* that had passed is_blocked before the lockout began; cleanup, late failures
\* and requests that arrive during the lockout never end or shorten it.
EarlyReleaseOnlyByInflight ==
    [][\A k \in Keys :
          Locked(k) /\ (state'[k] = None \/ state'[k].blocked_until # state[k].blocked_until)
          => \E t \in inflight[k] : key[t] = k /\ pc[t] = "passed" /\ pc'[t] = "idle"]_hvars

=============================================================================
