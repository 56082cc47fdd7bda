---------------------------- MODULE AuthLockout ----------------------------
(***************************************************************************)
(* What the authentication limiter promises each source IP, without its    *)
(* hash map, its cleanup task, its metrics or the steps of a request.  An  *)
(* IP is clear, has some failures counted in a window that began at a      *)
(* given time, or is locked out until a given time.  A locked IP starts no *)
(* call.  A call that started ends once, and only its failure or success   *)
(* is held against its IP or for it; apart from that, time alone ends a    *)
(* window or a lockout.                                                    *)
(***************************************************************************)
EXTENDS Naturals

CONSTANTS Keys, Threads, None, MaxFailures, Window, Lockout

VARIABLES
    now,
    status,     \* per IP, what is held against it
    inside,     \* per thread, the IP whose call it is serving, or None
    failed      \* the threads whose call was found to be a failure

Clear          == [kind |-> "clear", count |-> 0, at |-> 0]
Counting(n, t) == [kind |-> "counting", count |-> n, at |-> t]
LockedTill(t)  == [kind |-> "locked", count |-> 0, at |-> t]

\* The status s at time t: a window is over when more than Window has passed.
Expire(s, t) ==
    IF \/ s.kind = "counting" /\ t - s.at > Window
       \/ s.kind = "locked" /\ t >= s.at
    THEN Clear
    ELSE s

\* The status after one more failure at time t.
Punish(s, t) ==
    IF s.kind = "locked"
    THEN s
    ELSE IF s.count + 1 >= MaxFailures
         THEN LockedTill(t + Lockout)
         ELSE Counting(s.count + 1, IF s.kind = "clear" THEN t ELSE s.at)

Init ==
    /\ now = 0
    /\ status = [k \in Keys |-> Clear]
    /\ inside = [t \in Threads |-> None]
    /\ failed = {}

Enter(t, k) ==
    /\ inside[t] = None
    /\ status[k].kind # "locked"
    /\ inside' = [inside EXCEPT ![t] = k]
    /\ UNCHANGED <<now, status, failed>>

\* The call's credentials are found wrong.
Judge(t) ==
    /\ inside[t] # None /\ t \notin failed
    /\ failed' = failed \cup {t}
    /\ UNCHANGED <<now, status, inside>>

\* A call ends, and what is held against its IP becomes s.
End(t, s) ==
    /\ inside[t] # None
    /\ status' = [status EXCEPT ![inside[t]] = s]
    /\ inside' = [inside EXCEPT ![t] = None]
    /\ failed' = failed \ {t}
    /\ UNCHANGED now

\* A failure counts, except that an IP with nothing against it may go unnoticed.
Fail(t) ==
    /\ t \in failed
    /\ \/ End(t, Punish(status[inside[t]], now))
       \/ status[inside[t]] = Clear /\ End(t, Clear)

Succeed(t) == t \notin failed /\ End(t, Clear)

\* A call that is neither: authentication is off, or is not configured.
Leave(t) == t \notin failed /\ End(t, status[inside[t]])

Tick ==
    /\ now' = now + 1
    /\ status' = [k \in Keys |-> Expire(status[k], now')]
    /\ UNCHANGED <<inside, failed>>

Next ==
    \/ \E t \in Threads :
          \/ \E k \in Keys : Enter(t, k)
          \/ Judge(t)
          \/ Fail(t)
          \/ Succeed(t)
          \/ Leave(t)
    \/ Tick

Spec == Init /\ [][Next]_<<now, status, inside, failed>>

=============================================================================
