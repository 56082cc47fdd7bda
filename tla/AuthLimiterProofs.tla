------------------------- MODULE AuthLimiterProofs -------------------------
(***************************************************************************)
(* Proofs about AuthLimiter and AuthHistory, for any number of IPs and     *)
(* threads and any values of the limits.                                   *)
(***************************************************************************)
EXTENDS AuthHistory, FiniteSums, TLAPS

\* The entry record_failure computes is an entry, it counts at least this one
\* failure, and a lockout that is not over is carried along as it is.
LEMMA CountedEntry ==
    ASSUME now \in Nat, state \in [Keys -> Entry \cup {None}], NEW k \in Keys,
           k \in Tracked => state[k].first_failure <= now
    PROVE  /\ Counted(k) \in Entry
           /\ Counted(k).failures >= 1
           /\ Counted(k).first_failure <= now
           /\ Counted(k).blocked_until \in {None, EntryOf(k).blocked_until}
  <1>1. EntryOf(k) \in Entry /\ EntryOf(k).first_failure <= now
    BY NoneAssumption DEF EntryOf, Fresh, Entry, Tracked
  <1>2. /\ Restarted(EntryOf(k)) \in Entry
        /\ Restarted(EntryOf(k)).first_failure <= now
        /\ Restarted(EntryOf(k)).blocked_until \in {None, EntryOf(k).blocked_until}
    <2> DEFINE d == EntryOf(k)
    <2>1. CASE LockoutOver(d)
      BY <2>1 DEF Restarted, Fresh, Entry
    <2>2. CASE ~LockoutOver(d) /\ WindowOver(d)
      <3>1. Restarted(d) = [failures |-> 0, first_failure |-> now,
                            blocked_until |-> d.blocked_until]
        BY <2>2 DEF Restarted, Fresh
      <3> QED
        BY <1>1, <3>1 DEF Entry
    <2>3. CASE ~LockoutOver(d) /\ ~WindowOver(d)
      BY <1>1, <2>3 DEF Restarted
    <2> QED
      BY <2>1, <2>2, <2>3
  <1> DEFINE e == Restarted(EntryOf(k))
  <1>3. e.failures \in Nat
    BY <1>2 DEF Entry
  <1>4. SaturatingInc(e.failures) \in Nat /\ SaturatingInc(e.failures) >= 1
    BY <1>3, LimitsAssumption, OrderAssumption DEF SaturatingInc
  <1>5. Counted(k) = [e EXCEPT !.failures = SaturatingInc(e.failures)]
    BY DEF Counted
  <1> QED
    BY <1>2, <1>4, <1>5 DEF Entry

----------------------------------------------------------------------------
\* Type correctness, with first_failure never in the future: without it the
\* difference now - first_failure would not be a natural number.
TypeInv == TypeOK /\ \A k \in Tracked : state[k].first_failure <= now

LEMMA TypeInvInit == Init => TypeInv
  BY LimitsAssumption DEF Init, TypeInv, TypeOK, Tracked

LEMMA TypeInvNext == TypeInv /\ [Next]_vars => TypeInv'
  <1> SUFFICES ASSUME TypeInv, [Next]_vars PROVE TypeInv'
    OBVIOUS
  <1> USE LimitsAssumption, NoneAssumption
  <1>1. ASSUME NEW t \in Threads, NEW k \in Keys, CheckBlocked(t, k) PROVE TypeInv'
    BY <1>1 DEF TypeInv, TypeOK, Tracked, CheckBlocked, Return
  <1>2. ASSUME NEW t \in Threads, ReturnUncounted(t) PROVE TypeInv'
    BY <1>2 DEF TypeInv, TypeOK, Tracked, ReturnUncounted, Return
  <1>3. ASSUME NEW t \in Threads, RecordSuccess(t) PROVE TypeInv'
    BY <1>3 DEF TypeInv, TypeOK, Tracked, RecordSuccess, Return
  <1>4. ASSUME NEW t \in Threads, CountFailure(t) PROVE TypeInv'
    BY <1>4 DEF TypeInv, TypeOK, Tracked, CountFailure
  <1>5. ASSUME NEW t \in Threads, IgnoreFailure(t) PROVE TypeInv'
    BY <1>5 DEF TypeInv, TypeOK, Tracked, IgnoreFailure, Return
  <1>6. ASSUME NEW t \in Threads, RecordFailure(t) PROVE TypeInv'
    <2> DEFINE k == key[t]
               e == Counted(k)
    <2>1. k \in Keys
      BY <1>6 DEF RecordFailure, TypeInv, TypeOK
    <2>2. e \in Entry /\ e.first_failure <= now
      BY <2>1, CountedEntry DEF TypeInv, TypeOK
    <2>3. [e EXCEPT !.blocked_until = now + Lockout] \in Entry
      BY <2>2 DEF Entry, TypeInv, TypeOK
    <2>4. CASE Trips(e)
      <3>1. /\ state' = [state EXCEPT ![k] = [e EXCEPT !.blocked_until = now + Lockout]]
            /\ pc' = [pc EXCEPT ![t] = "tripped"]
            /\ UNCHANGED <<now, key, auth_failures_total, auth_lockouts_total>>
        BY <1>6, <2>4 DEF RecordFailure
      <3>2. TypeOK'
        BY <1>6, <2>1, <2>3, <3>1 DEF TypeInv, TypeOK, RecordFailure
      <3>3. [e EXCEPT !.blocked_until = now + Lockout].first_failure = e.first_failure
        BY <2>2 DEF Entry
      <3> QED
        BY <2>1, <2>2, <3>1, <3>2, <3>3 DEF TypeInv, TypeOK, Tracked
    <2>5. CASE ~Trips(e)
      <3>1. /\ state' = [state EXCEPT ![k] = e]
            /\ Return(t)
            /\ UNCHANGED <<now, auth_failures_total, auth_lockouts_total>>
        BY <1>6, <2>5 DEF RecordFailure
      <3> QED
        BY <2>1, <2>2, <3>1 DEF TypeInv, TypeOK, Tracked, Return
    <2> QED
      BY <2>4, <2>5
  <1>7. ASSUME NEW t \in Threads, CountLockout(t) PROVE TypeInv'
    BY <1>7 DEF TypeInv, TypeOK, Tracked, CountLockout, Return
  <1>8. CASE Cleanup
    BY <1>8 DEF TypeInv, TypeOK, Tracked, Cleanup
  <1>9. CASE Tick
    BY <1>9 DEF TypeInv, TypeOK, Tracked, Tick, Entry
  <1>10. CASE UNCHANGED vars
    BY <1>10 DEF TypeInv, TypeOK, Tracked, vars
  <1> QED
    BY <1>1, <1>2, <1>3, <1>4, <1>5, <1>6, <1>7, <1>8, <1>9, <1>10 DEF Next, Authenticate

\* The type invariant holds in every reachable state.
THEOREM TypeCorrect == Spec => []TypeOK
  <1>1. Spec => []TypeInv
    BY TypeInvInit, TypeInvNext, PTL DEF Spec
  <1>2. TypeInv => TypeOK
    BY DEF TypeInv
  <1> QED
    BY <1>1, <1>2, PTL

----------------------------------------------------------------------------
\* What an action other than record_failure may do to the map: drop entries.
Dropping == \A k \in Keys : state'[k] \in {state[k], None}

\* What record_failure does to the map, with its cases named.
Entering(k) ==
    /\ ~AtCapacity(k)
    /\ \/ /\ Trips(Counted(k))
          /\ state' = [state EXCEPT ![k] =
                          [Counted(k) EXCEPT !.blocked_until = now + Lockout]]
       \/ /\ ~Trips(Counted(k))
          /\ state' = [state EXCEPT ![k] = Counted(k)]

\* Every step but the clock's only drops entries, or enters one failure.
LEMMA StepShape ==
    ASSUME TypeInv, [Next]_vars
    PROVE  \/ now' = now /\ Dropping
           \/ now' = now /\ \E k \in Keys : Entering(k)
           \/ now' = now + 1 /\ UNCHANGED state
  <1>1. ASSUME NEW t \in Threads, RecordSuccess(t) PROVE now' = now /\ Dropping
    BY <1>1 DEF RecordSuccess, Dropping, TypeInv, TypeOK
  <1>2. ASSUME NEW t \in Threads, RecordFailure(t)
        PROVE  now' = now /\ \E k \in Keys : Entering(k)
    <2>1. key[t] \in Keys
      BY <1>2 DEF RecordFailure, TypeInv, TypeOK
    <2>2. now' = now /\ Entering(key[t])
      BY <1>2 DEF RecordFailure, Entering
    <2> QED
      BY <2>1, <2>2
  <1>3. CASE Cleanup
    BY <1>3 DEF Cleanup, Dropping
  <1>4. CASE Tick
    BY <1>4 DEF Tick
  <1>5. CASE UNCHANGED vars
    BY <1>5 DEF vars, Dropping
  <1>6. ASSUME NEW t \in Threads,
               \/ \E k \in Keys : CheckBlocked(t, k)
               \/ ReturnUncounted(t) \/ CountFailure(t)
               \/ IgnoreFailure(t) \/ CountLockout(t)
        PROVE  now' = now /\ Dropping
    BY <1>6 DEF CheckBlocked, ReturnUncounted, CountFailure, IgnoreFailure,
                CountLockout, Dropping
  <1> QED
    BY <1>1, <1>2, <1>3, <1>4, <1>5, <1>6 DEF Next, Authenticate

\* The entry of k after record_failure, as NoMissedLockout describes it.
LEMMA EnteringEntry ==
    ASSUME TypeInv, NoMissedLockout, now' = now, NEW k \in Keys, Entering(k)
    PROVE  /\ state'[k] \in Entry
           /\ state'[k].first_failure <= now
           /\ state'[k].blocked_until = None => state'[k].failures \in 1..(MaxFailures - 1)
           /\ state'[k].blocked_until # None => state'[k].blocked_until <= now + Lockout
  <1> USE LimitsAssumption, NoneAssumption
  <1> DEFINE e == Counted(k)
  <1>1. now \in Nat /\ state \in [Keys -> Entry \cup {None}]
    BY DEF TypeInv, TypeOK
  <1>2. k \in Tracked => state[k].first_failure <= now
    BY DEF TypeInv
  <1>3. /\ e \in Entry /\ e.failures >= 1 /\ e.first_failure <= now
        /\ e.blocked_until \in {None, EntryOf(k).blocked_until}
    BY <1>1, <1>2, CountedEntry
  <1>4. EntryOf(k).blocked_until # None => EntryOf(k).blocked_until <= now + Lockout
    BY DEF EntryOf, Fresh, NoMissedLockout, Tracked
  <1>5. CASE Trips(e)
    <2>1. state'[k] = [e EXCEPT !.blocked_until = now + Lockout]
      BY <1>1, <1>5 DEF Entering
    <2>2. /\ state'[k] \in Entry
          /\ state'[k].first_failure = e.first_failure
          /\ state'[k].blocked_until = now + Lockout
      BY <1>1, <1>3, <2>1 DEF Entry
    <2> QED
      BY <1>1, <1>3, <2>2
  <1>6. CASE ~Trips(e)
    <2>1. state'[k] = e
      BY <1>1, <1>6 DEF Entering
    <2>2. e.blocked_until = None => e.failures < MaxFailures
      BY <1>3, <1>6 DEF Trips, Entry
    <2> QED
      BY <1>3, <1>4, <2>1, <2>2 DEF Entry
  <1> QED
    BY <1>5, <1>6

----------------------------------------------------------------------------
\* The inductive invariant: the types, NoMissedLockout and the capacity bound.
Inv == TypeInv /\ NoMissedLockout /\ TrackedWithinCap

LEMMA TrackedFinite == IsFiniteSet(Tracked)
  BY KeysAssumption, FS_Subset DEF Tracked

LEMMA InvInit == Init => Inv
  <1> SUFFICES ASSUME Init PROVE Inv
    OBVIOUS
  <1>1. Tracked = {}
    BY DEF Init, Tracked
  <1>2. Cardinality(Tracked) = 0
    BY <1>1, FS_EmptySet
  <1> QED
    BY <1>1, <1>2, TypeInvInit, LimitsAssumption DEF Inv, NoMissedLockout, TrackedWithinCap

LEMMA NoMissedLockoutNext == Inv /\ [Next]_vars => NoMissedLockout'
  <1> SUFFICES ASSUME Inv, [Next]_vars PROVE NoMissedLockout'
    OBVIOUS
  <1> USE LimitsAssumption, NoneAssumption
  <1>1. CASE now' = now /\ Dropping
    BY <1>1 DEF Inv, Dropping, NoMissedLockout, Tracked
  <1>2. ASSUME now' = now, NEW k \in Keys, Entering(k) PROVE NoMissedLockout'
    <2>1. \A j \in Keys \ {k} : state'[j] = state[j]
      BY <1>2 DEF Entering, Inv, TypeInv, TypeOK
    <2>2. \A j \in Tracked' \ {k} : j \in Tracked /\ state'[j] = state[j]
      BY <2>1 DEF Tracked
    <2> QED
      BY <1>2, <2>2, EnteringEntry DEF Inv, NoMissedLockout
  <1>3. CASE now' = now + 1 /\ UNCHANGED state
    <2>1. now \in Nat
      BY DEF Inv, TypeInv, TypeOK
    <2>2. \A k \in Tracked' : /\ state'[k] = state[k] /\ k \in Tracked /\ state[k] \in Entry
      BY <1>3 DEF Tracked, Inv, TypeInv, TypeOK
    <2> QED
      BY <1>3, <2>1, <2>2 DEF Inv, NoMissedLockout, Entry
  <1> QED
    BY <1>1, <1>2, <1>3, StepShape DEF Inv

LEMMA TrackedWithinCapNext == Inv /\ [Next]_vars => TrackedWithinCap'
  <1> SUFFICES ASSUME Inv, [Next]_vars PROVE TrackedWithinCap'
    OBVIOUS
  <1> USE LimitsAssumption
  <1>1. Cardinality(Tracked) \in Nat /\ Cardinality(Tracked) <= MaxKeys
    BY TrackedFinite, FS_CardinalityType DEF Inv, TrackedWithinCap
  <1>2. ASSUME Tracked' \subseteq Tracked PROVE TrackedWithinCap'
    BY <1>1, <1>2, TrackedFinite, FS_Subset, FS_CardinalityType DEF TrackedWithinCap
  <1>3. CASE now' = now /\ Dropping
    BY <1>2, <1>3 DEF Dropping, Tracked
  <1>4. ASSUME NEW k \in Keys, Entering(k) PROVE TrackedWithinCap'
    <2>1. Tracked' \subseteq Tracked \cup {k}
      BY <1>4 DEF Entering, Tracked, Inv, TypeInv, TypeOK
    <2>2. CASE k \in Tracked
      BY <1>2, <2>1, <2>2
    <2>3. CASE k \notin Tracked
      <3>1. Cardinality(Tracked) < MaxKeys
        BY <1>1, <1>4, <2>3 DEF Entering, AtCapacity
      <3>2. /\ IsFiniteSet(Tracked \cup {k})
            /\ Cardinality(Tracked \cup {k}) = Cardinality(Tracked) + 1
        BY <2>3, TrackedFinite, FS_AddElement
      <3>3. Cardinality(Tracked') <= Cardinality(Tracked \cup {k})
        BY <2>1, <3>2, FS_Subset
      <3>4. Cardinality(Tracked') \in Nat
        BY <2>1, <3>2, FS_Subset, FS_CardinalityType
      <3> QED
        BY <1>1, <3>1, <3>2, <3>3, <3>4 DEF TrackedWithinCap
    <2> QED
      BY <2>2, <2>3
  <1>5. CASE UNCHANGED state
    BY <1>2, <1>5 DEF Tracked
  <1> QED
    BY <1>3, <1>4, <1>5, StepShape DEF Inv

LEMMA Invariance == Spec => []Inv
  <1>1. Inv /\ [Next]_vars => Inv'
    BY TypeInvNext, NoMissedLockoutNext, TrackedWithinCapNext DEF Inv
  <1> QED
    BY <1>1, InvInit, PTL DEF Spec

\* No lockout is ever missed and none outlasts its term.
THEOREM LockoutNeverMissed == Spec => []NoMissedLockout
  <1>1. Inv => NoMissedLockout
    BY DEF Inv
  <1> QED
    BY <1>1, Invariance, PTL

\* The limiter's map stays within MAX_AUTH_LIMITER_KEYS.
THEOREM MapStaysWithinCap == Spec => []TrackedWithinCap
  <1>1. Inv => TrackedWithinCap
    BY DEF Inv
  <1> QED
    BY <1>1, Invariance, PTL

----------------------------------------------------------------------------
(* The refinement: Spec implements AuthLockout.  Shown(k) is the status that *)
(* AuthLockout sees for the IP k.                                            *)
Shown(k) == Abstraction(state[k])

\* One more failure moves the status as AuthLockout says.
LEMMA EnteringPunishes ==
    ASSUME Inv, now' = now, NEW k \in Keys, Entering(k)
    PROVE  Shown(k)' = Promise!Punish(Shown(k), now)
  <1> USE LimitsAssumption, OrderAssumption, NoneAssumption
  <1> DEFINE d == EntryOf(k)
             e == Counted(k)
  <1>1. now \in Nat /\ state \in [Keys -> Entry \cup {None}] /\ d \in Entry
    BY DEF Inv, TypeInv, TypeOK, EntryOf, Fresh, Entry
  <1>2. d.first_failure \in Nat /\ d.first_failure <= now
    BY <1>1 DEF Inv, TypeInv, EntryOf, Fresh, Tracked, Entry
  <1>3. CASE LockoutOver(d) \/ (d.blocked_until = None /\ WindowOver(d)) \/ state[k] = None
    <2>1. Shown(k) = Promise!Clear
      BY <1>1, <1>3 DEF Shown, Abstraction, Promise!Clear, LockoutOver, EntryOf, Entry
    <2>2. Restarted(d) = Fresh
      <3>1. CASE LockoutOver(d)
        BY <3>1 DEF Restarted
      <3>2. CASE ~LockoutOver(d) /\ WindowOver(d) /\ d.blocked_until = None
        BY <3>2 DEF Restarted, Fresh
      <3>3. CASE state[k] = None
        BY <3>3, <1>1 DEF Restarted, Fresh, EntryOf, LockoutOver, WindowOver
      <3> QED
        BY <1>3, <3>1, <3>2, <3>3
    <2>3. e = [failures |-> 1, first_failure |-> now, blocked_until |-> None]
      BY <2>2 DEF Counted, Fresh, SaturatingInc
    <2>4. Trips(e) <=> 1 >= MaxFailures
      BY <2>3 DEF Trips
    <2>5. CASE 1 >= MaxFailures
      <3>1. state'[k] = [failures |-> 1, first_failure |-> now, blocked_until |-> now + Lockout]
        BY <1>1, <2>3, <2>4, <2>5 DEF Entering
      <3>2. state'[k] # None
        BY <1>1, <3>1 DEF Entry
      <3>3. Shown(k)' = Promise!LockedTill(now + Lockout)
        BY <1>1, <3>1, <3>2 DEF Shown, Abstraction, Promise!LockedTill
      <3> QED
        BY <2>1, <2>5, <3>3 DEF Promise!Punish, Promise!Clear
    <2>6. CASE ~(1 >= MaxFailures)
      <3>1. state'[k] = [failures |-> 1, first_failure |-> now, blocked_until |-> None]
        BY <1>1, <2>3, <2>4, <2>6 DEF Entering
      <3>2. state'[k] # None
        BY <1>1, <3>1 DEF Entry
      <3>3. Shown(k)' = Promise!Counting(1, now)
        BY <1>1, <3>1, <3>2 DEF Shown, Abstraction, WindowOver, Promise!Counting
      <3> QED
        BY <2>1, <2>6, <3>3 DEF Promise!Punish, Promise!Clear
    <2> QED
      BY <2>5, <2>6
  <1>4. CASE ~LockoutOver(d) /\ d.blocked_until # None
    <2>1. state[k] = d /\ now < d.blocked_until
      BY <1>1, <1>4 DEF EntryOf, Fresh, LockoutOver, Entry
    <2>2. Shown(k) = Promise!LockedTill(d.blocked_until)
      BY <1>1, <1>4, <2>1 DEF Shown, Abstraction, Promise!LockedTill
    <2>3. Restarted(d) \in Entry /\ Restarted(d).blocked_until = d.blocked_until
      <3>1. CASE WindowOver(d)
        <4>1. Restarted(d) = [failures |-> 0, first_failure |-> now,
                              blocked_until |-> d.blocked_until]
          BY <1>4, <3>1 DEF Restarted, Fresh
        <4> QED
          BY <1>1, <4>1 DEF Entry
      <3>2. CASE ~WindowOver(d)
        BY <1>1, <1>4, <3>2 DEF Restarted
      <3> QED
        BY <3>1, <3>2
    <2>4. e.blocked_until = d.blocked_until /\ e # None
      <3> DEFINE R == Restarted(d)
      <3>1. e = [R EXCEPT !.failures = SaturatingInc(R.failures)]
        BY DEF Counted
      <3>2. e.blocked_until = d.blocked_until
        BY <2>3, <3>1 DEF Entry
      <3>3. e \in Entry
        BY <1>1, CountedEntry DEF Inv, TypeInv
      <3> QED
        BY <3>2, <3>3
    <2>5. state'[k] = e
      BY <1>1, <1>4, <2>4 DEF Entering, Trips
    <2>6. Shown(k)' = Promise!LockedTill(d.blocked_until)
      BY <1>4, <2>1, <2>4, <2>5 DEF Shown, Abstraction, Promise!LockedTill
    <2> QED
      BY <2>2, <2>6 DEF Promise!Punish, Promise!LockedTill
  <1>5. CASE state[k] # None /\ d.blocked_until = None /\ ~WindowOver(d)
    <2>1. state[k] = d /\ d.failures \in 1..(MaxFailures - 1)
      BY <1>5 DEF EntryOf, Inv, NoMissedLockout, Tracked
    <2>2. Shown(k) = Promise!Counting(d.failures, d.first_failure)
      BY <1>1, <1>5, <2>1 DEF Shown, Abstraction, Promise!Counting
    <2>3. e = [d EXCEPT !.failures = d.failures + 1]
      BY <1>5, <2>1 DEF Counted, Restarted, LockoutOver, SaturatingInc
    <2>4. /\ e \in Entry /\ e # None
          /\ e.failures = d.failures + 1
          /\ e.first_failure = d.first_failure
          /\ e.blocked_until = None
      BY <1>1, <1>5, <2>1, <2>3 DEF Entry
    <2>5. CASE Trips(e)
      <3>1. state'[k] = [e EXCEPT !.blocked_until = now + Lockout]
        BY <1>1, <2>5 DEF Entering
      <3>2. state'[k] # None /\ state'[k].blocked_until = now + Lockout
        BY <1>1, <2>4, <3>1 DEF Entry
      <3>3. Shown(k)' = Promise!LockedTill(now + Lockout)
        BY <1>1, <3>2 DEF Shown, Abstraction, Promise!LockedTill
      <3> QED
        BY <2>1, <2>2, <2>4, <2>5, <3>3 DEF Promise!Punish, Promise!Counting, Trips
    <2>6. CASE ~Trips(e)
      <3>1. state'[k] = e
        BY <1>1, <2>6 DEF Entering
      <3>2. Shown(k)' = Promise!Counting(d.failures + 1, d.first_failure)
        BY <1>1, <1>5, <2>4, <3>1 DEF Shown, Abstraction, WindowOver, Promise!Counting
      <3> QED
        BY <2>1, <2>2, <2>4, <2>6, <3>2 DEF Promise!Punish, Promise!Counting, Trips
    <2> QED
      BY <2>5, <2>6
  <1> QED
    BY <1>3, <1>4, <1>5

\* cleanup() removes only entries that stand for a clear IP.
LEMMA CleanupShowsNothing ==
    ASSUME Inv, Cleanup, NEW k \in Keys
    PROVE  Shown(k)' = Shown(k)
  <1> USE LimitsAssumption, OrderAssumption, NoneAssumption
  <1>1. now' = now /\ now \in Nat /\ state[k] \in Entry \cup {None}
    BY DEF Cleanup, Inv, TypeInv, TypeOK
  <1>2. CASE state'[k] = state[k]
    BY <1>1, <1>2 DEF Shown, Abstraction, WindowOver
  <1>3. CASE state'[k] # state[k]
    <2>1. state'[k] = None /\ k \in Tracked /\ ~Retained(state[k])
      BY <1>3 DEF Cleanup, Tracked
    <2>2. state[k] \in Entry /\ state[k].first_failure \in Nat
      BY <1>1, <2>1 DEF Tracked, Entry
    <2>3. Shown(k) = Promise!Clear
      BY <1>1, <2>1, <2>2 DEF Shown, Abstraction, Retained, WindowOver, Tracked, Entry,
                               Promise!Clear, Inv, TypeInv
    <2> QED
      BY <2>1, <2>3 DEF Shown, Abstraction, Promise!Clear
  <1> QED
    BY <1>2, <1>3

\* A tick of the clock lets windows and lockouts run out, as AuthLockout says.
LEMMA TickExpires ==
    ASSUME Inv, Tick, NEW k \in Keys
    PROVE  Shown(k)' = Promise!Expire(Shown(k), now')
  <1> USE LimitsAssumption, NoneAssumption
  <1>1. now' = now + 1 /\ state' = state /\ now \in Nat /\ state[k] \in Entry \cup {None}
    BY DEF Tick, Inv, TypeInv, TypeOK
  <1>2. CASE state[k] = None
    BY <1>1, <1>2 DEF Shown, Abstraction, Promise!Expire
  <1>3. CASE state[k] # None /\ state[k].blocked_until # None
    <2>1. state[k].blocked_until \in Nat
      BY <1>1, <1>3 DEF Entry
    <2> QED
      BY <1>1, <1>3, <2>1 DEF Shown, Abstraction, Promise!Expire, Promise!Clear
  <1>4. CASE state[k] # None /\ state[k].blocked_until = None
    <2>1. state[k].first_failure \in Nat
      BY <1>1, <1>4 DEF Entry
    <2> QED
      BY <1>1, <1>4, <2>1 DEF Shown, Abstraction, WindowOver, Promise!Expire, Promise!Clear
  <1> QED
    BY <1>2, <1>3, <1>4

\* What AuthLockout sees of the whole limiter.
Visible == <<now, [k \in Keys |-> Abstraction(state[k])],
             [t \in Threads |-> Inside(t)], {t \in Threads : pc[t] = "failing"}>>

\* Every step of the limiter is a step of AuthLockout or shows nothing.
LEMMA StepRefines ==
    ASSUME Inv, [Next]_vars
    PROVE  [Promise!Next]_Visible
  <1> DEFINE status == [k \in Keys |-> Abstraction(state[k])]
             inside == [t \in Threads |-> Inside(t)]
             failed == {t \in Threads : pc[t] = "failing"}
  <1> SUFFICES \/ Promise!Next
               \/ now' = now /\ status' = status /\ inside' = inside /\ failed' = failed
    BY DEF Visible
  <1>1. status = [k \in Keys |-> Shown(k)] /\ status' = [k \in Keys |-> Shown(k)']
    BY DEF Shown
  <1>2. /\ pc \in [Threads -> {"idle", "passed", "failing", "tripped"}]
        /\ key \in [Threads -> Keys \cup {None}] /\ None \notin Keys
        /\ state \in [Keys -> Entry \cup {None}]
    BY KeysAssumption DEF Inv, TypeInv, TypeOK
  <1>3. ASSUME now' = now, state' = state PROVE status' = status
    BY <1>1, <1>3 DEF Shown, Abstraction, WindowOver
  <1>4. ASSUME NEW t \in Threads, pc[t] \in {"passed", "failing"}
        PROVE  key[t] \in Keys /\ inside[t] = key[t] /\ (t \in failed <=> pc[t] = "failing")
    BY <1>2, <1>4 DEF Inv, TypeInv, TypeOK, Inside
  <1>5. ASSUME NEW t \in Threads, NEW l \in {"idle", "tripped"}, pc' = [pc EXCEPT ![t] = l],
               \A u \in Threads \ {t} : key'[u] = key[u]
        PROVE  inside' = [inside EXCEPT ![t] = None] /\ failed' = failed \ {t}
    BY <1>2, <1>5 DEF Inside
  <1>update. ASSUME NEW k \in Keys, NEW x, Shown(k)' = x, \A j \in Keys \ {k} : Shown(j)' = Shown(j)
        PROVE  status' = [status EXCEPT ![k] = x]
    BY <1>update, <1>1
  <1>6. CASE Cleanup
    <2>1. status' = status
      BY <1>1, <1>6, CleanupShowsNothing
    <2> QED
      BY <1>6, <2>1 DEF Cleanup, Inside
  <1>7. CASE Tick
    <2>1. Promise!Tick
      BY <1>1, <1>7, TickExpires DEF Tick, Promise!Tick, Shown, Inside
    <2> QED
      BY <2>1 DEF Promise!Next
  <1>8. ASSUME NEW t \in Threads, NEW k \in Keys, CheckBlocked(t, k)
        PROVE  \/ Promise!Next
               \/ now' = now /\ status' = status /\ inside' = inside /\ failed' = failed
    <2>1. now' = now /\ status' = status /\ pc[t] = "idle" /\ inside[t] = None
      BY <1>2, <1>3, <1>8 DEF CheckBlocked, Inside
    <2>2. CASE Locked(k)
      <3>1. inside' = [inside EXCEPT ![t] = None] /\ failed' = failed \ {t}
        BY <1>2, <1>5, <1>8, <2>2 DEF CheckBlocked, Return
      <3> QED
        BY <2>1, <3>1
    <2>3. CASE ~Locked(k)
      <3>1. inside' = [inside EXCEPT ![t] = k] /\ failed' = failed
        BY <1>2, <1>8, <2>1, <2>3 DEF CheckBlocked, Inside
      <3>2. status[k].kind # "locked"
        BY <1>1, <1>2, <2>3, NoneAssumption DEF Locked, Shown, Abstraction
      <3>3. Promise!Enter(t, k)
        BY <2>1, <3>1, <3>2 DEF Promise!Enter
      <3> QED
        BY <3>3 DEF Promise!Next
    <2> QED
      BY <2>2, <2>3
  <1>9. ASSUME NEW t \in Threads, ReturnUncounted(t) PROVE Promise!Next
    <2>1. /\ now' = now /\ status' = status /\ pc[t] = "passed"
          /\ inside' = [inside EXCEPT ![t] = None] /\ failed' = failed \ {t}
      BY <1>2, <1>3, <1>5, <1>9 DEF ReturnUncounted, Return
    <2>2. status' = [status EXCEPT ![inside[t]] = status[inside[t]]]
      BY <1>4, <2>1
    <2>3. Promise!Leave(t)
      BY <1>2, <1>4, <2>1, <2>2 DEF Promise!Leave, Promise!End
    <2> QED
      BY <2>3 DEF Promise!Next
  <1>10. ASSUME NEW t \in Threads, RecordSuccess(t) PROVE Promise!Next
    <2>1. /\ now' = now /\ pc[t] = "passed"
          /\ inside' = [inside EXCEPT ![t] = None] /\ failed' = failed \ {t}
      BY <1>2, <1>5, <1>10 DEF RecordSuccess, Return
    <2>2. \A k \in Keys : Shown(k)' = IF k = key[t] THEN Promise!Clear ELSE Shown(k)
      BY <1>2, <1>4, <1>10, <2>1 DEF RecordSuccess, Shown, Abstraction, WindowOver, Promise!Clear
    <2>3. status' = [status EXCEPT ![inside[t]] = Promise!Clear]
      <3>1. PICK k \in Keys : k = key[t] /\ k = inside[t]
        BY <1>4, <2>1
      <3>2. status' = [status EXCEPT ![k] = Promise!Clear]
        BY <1>update, <2>2, <3>1
      <3> HIDE DEF status, inside
      <3> QED
        BY <3>1, <3>2
    <2>4. Promise!Succeed(t)
      BY <1>2, <1>4, <2>1, <2>3 DEF Promise!Succeed, Promise!End
    <2> QED
      BY <2>4 DEF Promise!Next
  <1>11. ASSUME NEW t \in Threads, CountFailure(t) PROVE Promise!Next
    <2>1. /\ now' = now /\ status' = status /\ pc[t] = "passed"
          /\ inside' = inside /\ failed' = failed \cup {t}
      BY <1>2, <1>3, <1>11 DEF CountFailure, Inside
    <2>2. Promise!Judge(t)
      BY <1>2, <1>4, <2>1 DEF Promise!Judge
    <2> QED
      BY <2>2 DEF Promise!Next
  <1>12. ASSUME NEW t \in Threads, IgnoreFailure(t) PROVE Promise!Next
    <2>1. /\ now' = now /\ status' = status /\ pc[t] = "failing" /\ state[key[t]] = None
          /\ inside' = [inside EXCEPT ![t] = None] /\ failed' = failed \ {t}
      BY <1>2, <1>3, <1>4, <1>5, <1>12 DEF IgnoreFailure, Return, AtCapacity, Tracked
    <2>2. status[inside[t]] = Promise!Clear
      BY <1>4, <2>1 DEF Abstraction, Promise!Clear
    <2>3. status' = [status EXCEPT ![inside[t]] = Promise!Clear]
      BY <1>4, <2>1, <2>2
    <2>4. Promise!Fail(t)
      BY <1>2, <1>4, <2>1, <2>2, <2>3 DEF Promise!Fail, Promise!End
    <2> QED
      BY <2>4 DEF Promise!Next
  <1>13. ASSUME NEW t \in Threads, RecordFailure(t) PROVE Promise!Next
    <2>1. /\ now' = now /\ pc[t] = "failing" /\ Entering(key[t])
          /\ inside' = [inside EXCEPT ![t] = None] /\ failed' = failed \ {t}
      BY <1>2, <1>5, <1>13 DEF RecordFailure, Return, Entering
    <2>2. PICK k \in Keys : k = key[t] /\ k = inside[t]
      BY <1>4, <2>1
    <2>3. Shown(k)' = Promise!Punish(Shown(k), now)
      BY <2>1, <2>2, EnteringPunishes
    <2>4. \A j \in Keys \ {k} : Shown(j)' = Shown(j)
      BY <1>2, <2>1, <2>2 DEF Entering, Shown, Abstraction, WindowOver
    <2>5. status' = [status EXCEPT ![inside[t]] = Promise!Punish(status[inside[t]], now)]
      <3>1. status' = [status EXCEPT ![k] = Promise!Punish(Shown(k), now)] /\ status[k] = Shown(k)
        BY <1>update, <1>1, <2>3, <2>4
      <3> HIDE DEF status, inside
      <3> QED
        BY <2>2, <3>1
    <2>6. Promise!Fail(t)
      BY <1>2, <1>4, <2>1, <2>2, <2>5 DEF Promise!Fail, Promise!End
    <2> QED
      BY <2>6 DEF Promise!Next
  <1>14. ASSUME NEW t \in Threads, CountLockout(t)
         PROVE  now' = now /\ status' = status /\ inside' = inside /\ failed' = failed
    <2>1. /\ now' = now /\ status' = status /\ pc[t] = "tripped"
          /\ inside' = [inside EXCEPT ![t] = None] /\ failed' = failed \ {t}
      BY <1>2, <1>3, <1>5, <1>14 DEF CountLockout, Return
    <2> QED
      BY <2>1 DEF Inside
  <1>15. CASE UNCHANGED vars
    BY <1>3, <1>15 DEF vars, Inside
  <1> QED
    BY <1>6, <1>7, <1>8, <1>9, <1>10, <1>11, <1>12, <1>13, <1>14, <1>15 DEF Next, Authenticate

\* The limiter, with its map, its cleanup task and its racing threads, implements
\* AuthLockout.
THEOREM Refinement == Spec => ImplementsLockout
  <1>1. Init => Promise!Init
    BY DEF Init, Promise!Init, Abstraction, Promise!Clear, Inside
  <1>2. Inv /\ [Next]_vars => [Promise!Next]_Visible
    BY StepRefines
  <1> QED
    BY <1>1, <1>2, Invariance, PTL DEF Spec, ImplementsLockout, Promise!Spec, Visible

----------------------------------------------------------------------------
(* The inductive invariant behind FailuresPayForLockouts: besides the        *)
(* lockouts, the failures counted so far have paid for the failures under    *)
(* way to record_failure and for those that the entries hold, which no       *)
(* lockout has consumed yet.                                                 *)
Held == [k \in Keys |-> IF state[k] # None /\ state[k].blocked_until = None
                        THEN state[k].failures
                        ELSE 0]

Tripped == {t \in Threads : pc[t] = "tripped"}
Failing == {t \in Threads : pc[t] = "failing"}

PaidFor == MaxFailures * (auth_lockouts_total + Cardinality(Tripped))
               + Cardinality(Failing) + SumFunctionOnSet(Held, Keys)

PaymentInv == Inv /\ auth_failures_total >= PaidFor

LEMMA HeldNumbers ==
    ASSUME TypeInv
    PROVE  /\ Numbers(Held, Keys)
           /\ SumFunctionOnSet(Held, Keys) \in Nat
           /\ IsFiniteSet(Tripped) /\ Cardinality(Tripped) \in Nat
           /\ IsFiniteSet(Failing) /\ Cardinality(Failing) \in Nat
           /\ auth_lockouts_total \in Nat /\ auth_failures_total \in Nat
  <1>1. \A k \in Keys : Held[k] \in Nat
    <2> TAKE k \in Keys
    <2>1. state[k] # None => state[k].failures \in Nat
      BY DEF TypeInv, TypeOK, Entry
    <2> QED
      BY <2>1 DEF Held
  <1>2. Numbers(Held, Keys)
    BY <1>1 DEF Numbers
  <1>3. IsFiniteSet(Tripped) /\ IsFiniteSet(Failing)
    BY ThreadsAssumption, FS_Subset DEF Tripped, Failing
  <1> QED
    BY <1>2, <1>3, KeysAssumption, SumIsNumber, FS_CardinalityType DEF TypeInv, TypeOK

\* A failure raises what an entry holds by one at most.
LEMMA CountedHeld ==
    ASSUME TypeInv, NEW k \in Keys, Counted(k).blocked_until = None
    PROVE  Counted(k).failures \in Nat /\ Counted(k).failures <= Held[k] + 1
  <1> USE LimitsAssumption, OrderAssumption, NoneAssumption
  <1> DEFINE d == EntryOf(k)
             e == Restarted(d)
  <1>0. now \in Nat /\ state \in [Keys -> Entry \cup {None}] /\ d \in Entry
    BY DEF TypeInv, TypeOK, EntryOf, Fresh, Entry
  <1>1. Held[k] \in Nat
    BY HeldNumbers DEF Numbers
  <1>2. Counted(k) = [e EXCEPT !.failures = SaturatingInc(e.failures)]
    BY DEF Counted
  <1>3. CASE e = Fresh \/ e = [Fresh EXCEPT !.blocked_until = d.blocked_until]
    <2>1. e.failures = 0 /\ Counted(k).failures = SaturatingInc(0)
      BY <1>2, <1>3 DEF Fresh
    <2> QED
      BY <1>1, <2>1 DEF SaturatingInc
  <1>4. CASE e = d
    <2>1. d.blocked_until = None /\ Counted(k).failures = SaturatingInc(d.failures)
      BY <1>0, <1>2, <1>4 DEF Entry
    <2>2. CASE state[k] = None
      <3>1. d.failures = 0
        BY <2>2 DEF EntryOf, Fresh
      <3> QED
        BY <1>1, <2>1, <3>1 DEF SaturatingInc
    <2>3. CASE state[k] # None
      <3>1. Held[k] = d.failures
        BY <2>1, <2>3 DEF EntryOf, Held
      <3> QED
        BY <1>1, <2>1, <3>1 DEF SaturatingInc
    <2> QED
      BY <2>2, <2>3
  <1> QED
    BY <1>3, <1>4 DEF Restarted

\* What entries are dropped or grow older hold no more than before.
LEMMA HeldDrops ==
    ASSUME TypeInv, TypeInv', Dropping \/ UNCHANGED state
    PROVE  SumFunctionOnSet(Held', Keys) <= SumFunctionOnSet(Held, Keys)
  <1>1. Numbers(Held, Keys) /\ Numbers(Held', Keys)
    BY HeldNumbers DEF TypeInv, TypeOK, Tracked, Numbers, Held, Entry
  <1>2. \A k \in Keys : Held'[k] <= Held[k]
    <2> TAKE k \in Keys
    <2>1. Held[k] \in Nat
      BY <1>1 DEF Numbers
    <2>2. Held'[k] = 0 \/ Held'[k] = Held[k]
      BY DEF Dropping, Held
    <2> QED
      BY <2>1, <2>2
  <1> QED
    BY <1>1, <1>2, KeysAssumption, SumMonotone

LEMMA PaymentInit == Init => PaymentInv
  <1> SUFFICES ASSUME Init PROVE PaymentInv
    OBVIOUS
  <1>1. \A k \in Keys : Held[k] = 0
    BY DEF Init, Held
  <1>2. SumFunctionOnSet(Held, Keys) = 0
    BY <1>1, KeysAssumption, SumOfZeros
  <1>3. Cardinality(Tripped) = 0 /\ Cardinality(Failing) = 0
    <2>1. Tripped = {} /\ Failing = {}
      BY DEF Init, Tripped, Failing
    <2> QED
      BY <2>1, FS_EmptySet
  <1>4. PaidFor = 0 /\ auth_failures_total = 0
    BY <1>2, <1>3, LimitsAssumption DEF Init, PaidFor
  <1> QED
    BY <1>4, InvInit DEF PaymentInv

\* One thread more, or one less, in a set of threads.
LEMMA OneThread ==
    ASSUME NEW S, IsFiniteSet(S), NEW t
    PROVE  /\ t \notin S => Cardinality(S \cup {t}) = Cardinality(S) + 1
           /\ t \in S => Cardinality(S \ {t}) = Cardinality(S) - 1
  BY FS_AddElement, FS_RemoveElement

\* The failures paid for grow no faster than the failures counted.
LEMMA StillPaid ==
    ASSUME NEW paid \in Nat, NEW b \in Nat, NEW f \in Nat, NEW s \in Nat, paid >= b + f + s,
           NEW f2 \in Nat, NEW s2 \in Nat
    PROVE  /\ f2 = f /\ s2 <= s => paid >= b + f2 + s2
           /\ f2 = f + 1 /\ s2 <= s => paid + 1 >= b + f2 + s2
           /\ f2 = f - 1 /\ s2 <= s + 1 => paid >= b + f2 + s2
  OBVIOUS

LEMMA PaymentNext == PaymentInv /\ [Next]_vars => PaymentInv'
  <1> SUFFICES ASSUME PaymentInv, [Next]_vars PROVE PaymentInv'
    OBVIOUS
  <1> USE LimitsAssumption
  <1>0. Inv /\ TypeInv /\ Inv' /\ TypeInv'
    BY TypeInvNext, NoMissedLockoutNext, TrackedWithinCapNext DEF PaymentInv, Inv
  <1> SUFFICES auth_failures_total' >= PaidFor'
    BY <1>0 DEF PaymentInv
  <1> DEFINE sum == SumFunctionOnSet(Held, Keys)
             trips == Cardinality(Tripped)
             fails == Cardinality(Failing)
             bill == MaxFailures * (auth_lockouts_total + trips)
  <1>1. /\ sum \in Nat /\ trips \in Nat /\ fails \in Nat
        /\ IsFiniteSet(Tripped) /\ IsFiniteSet(Failing) /\ Numbers(Held, Keys)
        /\ auth_lockouts_total \in Nat /\ auth_failures_total \in Nat
        /\ bill \in Nat /\ auth_failures_total >= bill + fails + sum
    BY <1>0, HeldNumbers DEF PaymentInv, PaidFor
  <1>2. sum' \in Nat /\ Numbers(Held', Keys) /\ fails' \in Nat /\ auth_failures_total' \in Nat
    <2>1. \A k \in Keys : Held'[k] \in Nat
      BY <1>0 DEF TypeInv, TypeOK, Held, Entry
    <2>2. IsFiniteSet(Failing')
      BY ThreadsAssumption, FS_Subset DEF Failing
    <2>3. fails' \in Nat
      BY <2>2, FS_CardinalityType
    <2>4. auth_failures_total' \in Nat
      BY <1>0 DEF TypeInv, TypeOK
    <2> QED
      BY <2>1, <2>3, <2>4, KeysAssumption, SumIsNumber DEF Numbers
  <1>3. PaidFor' = bill' + fails' + sum'
    BY DEF PaidFor
  <1>4. pc \in [Threads -> {"idle", "passed", "failing", "tripped"}]
    BY <1>0 DEF TypeInv, TypeOK
  <1> HIDE DEF sum, trips, fails, bill
  \* Steps that count nothing, settle nothing and may drop entries.
  <1>5. ASSUME UNCHANGED <<auth_failures_total, auth_lockouts_total>>,
               Tripped' = Tripped, Failing' = Failing, Dropping \/ UNCHANGED state
        PROVE  auth_failures_total' >= PaidFor'
    <2>1. sum' <= sum
      BY <1>0, <1>5, HeldDrops DEF sum
    <2>2. bill' = bill /\ fails' = fails
      BY <1>5 DEF trips, fails, bill
    <2>3. auth_failures_total' >= bill + fails' + sum'
      BY <1>1, <1>2, <1>5, <2>1, <2>2, StillPaid
    <2> QED
      BY <1>3, <2>2, <2>3
  <1>6. ASSUME NEW t \in Threads, (\E k \in Keys : CheckBlocked(t, k)) \/ ReturnUncounted(t)
        PROVE  auth_failures_total' >= PaidFor'
    <2>1. Tripped' = Tripped /\ Failing' = Failing
      BY <1>4, <1>6 DEF CheckBlocked, ReturnUncounted, Return, Tripped, Failing
    <2> QED
      BY <1>5, <1>6, <2>1 DEF CheckBlocked, ReturnUncounted
  <1>7. ASSUME NEW t \in Threads, RecordSuccess(t) PROVE auth_failures_total' >= PaidFor'
    <2>1. Tripped' = Tripped /\ Failing' = Failing
      BY <1>4, <1>7 DEF RecordSuccess, Return, Tripped, Failing
    <2>2. Dropping
      BY <1>0, <1>7 DEF RecordSuccess, Dropping, TypeInv, TypeOK
    <2> QED
      BY <1>5, <1>7, <2>1, <2>2 DEF RecordSuccess
  <1>8. ASSUME NEW t \in Threads, CountFailure(t) PROVE auth_failures_total' >= PaidFor'
    <2>1. /\ Tripped' = Tripped /\ Failing' = Failing \cup {t} /\ t \notin Failing
          /\ auth_failures_total' = auth_failures_total + 1
          /\ auth_lockouts_total' = auth_lockouts_total /\ UNCHANGED state
      BY <1>4, <1>8 DEF CountFailure, Tripped, Failing
    <2>2. bill' = bill /\ fails' = fails + 1
      BY <1>1, <2>1, OneThread DEF trips, fails, bill
    <2>3. sum' <= sum
      BY <1>0, <2>1, HeldDrops DEF sum
    <2>4. auth_failures_total' >= bill + fails' + sum'
      BY <1>1, <1>2, <2>1, <2>2, <2>3, StillPaid
    <2> QED
      BY <1>3, <2>2, <2>4
  <1>9. ASSUME NEW t \in Threads, IgnoreFailure(t) PROVE auth_failures_total' >= PaidFor'
    <2>1. /\ Tripped' = Tripped /\ Failing' = Failing \ {t} /\ t \in Failing
          /\ UNCHANGED <<auth_failures_total, auth_lockouts_total, state>>
      BY <1>4, <1>9 DEF IgnoreFailure, Return, Tripped, Failing
    <2>2. bill' = bill /\ fails' = fails - 1
      BY <1>1, <2>1, OneThread DEF trips, fails, bill
    <2>3. sum' <= sum
      BY <1>0, <2>1, HeldDrops DEF sum
    <2>4. sum' <= sum + 1
      BY <1>1, <1>2, <2>3
    <2>5. auth_failures_total' >= bill + fails' + sum'
      BY <1>1, <1>2, <2>1, <2>2, <2>4, StillPaid
    <2> QED
      BY <1>3, <2>2, <2>5
  <1>10. ASSUME NEW t \in Threads, RecordFailure(t) PROVE auth_failures_total' >= PaidFor'
    <2> DEFINE k == key[t]
               e == Counted(k)
    <2>1. k \in Keys /\ state \in [Keys -> Entry \cup {None}] /\ now \in Nat
      BY <1>0, <1>10 DEF RecordFailure, TypeInv, TypeOK
    <2>2. e \in Entry
      BY <1>0, <2>1, CountedEntry DEF TypeInv
    <2>3. sum' + Held[k] = sum + Held'[k] /\ Held[k] \in Nat /\ Held'[k] \in Nat
      <3>1. \A j \in Keys \ {k} : Held'[j] = Held[j]
        <4> TAKE j \in Keys \ {k}
        <4>1. state'[j] = state[j]
          BY <1>10, <2>1 DEF RecordFailure
        <4> QED
          BY <4>1 DEF Held
      <3> HIDE DEF k
      <3> QED
        BY <1>1, <1>2, <2>1, <3>1, KeysAssumption, SumOfOneChange DEF sum, Numbers
    <2>4. UNCHANGED <<auth_failures_total, auth_lockouts_total>>
      BY <1>10 DEF RecordFailure
    <2>5. CASE Trips(e)
      <3>1. /\ state' = [state EXCEPT ![k] = [e EXCEPT !.blocked_until = now + Lockout]]
            /\ pc' = [pc EXCEPT ![t] = "tripped"] /\ pc[t] = "failing"
        BY <1>10, <2>5 DEF RecordFailure
      <3>2. Tripped' = Tripped \cup {t} /\ t \notin Tripped /\ Failing' = Failing \ {t} /\ t \in Failing
        BY <1>4, <3>1 DEF Tripped, Failing
      <3>3. trips' = trips + 1 /\ fails' = fails - 1
        BY <1>1, <3>2, OneThread DEF trips, fails
      <3>4. Held'[k] = 0
        <4>1. state'[k].blocked_until = now + Lockout
          BY <2>1, <2>2, <3>1 DEF Entry
        <4> QED
          BY <2>1, <4>1, NoneAssumption DEF Held
      <3>5. MaxFailures <= Held[k] + 1
        <4>1. e.failures >= MaxFailures /\ e.blocked_until = None
          BY <2>5 DEF Trips
        <4>2. e.failures \in Nat /\ e.failures <= Held[k] + 1
          BY <1>0, <2>1, <4>1, CountedHeld
        <4> QED
          BY <2>3, <4>1, <4>2
      <3>6. bill' = bill + MaxFailures
        BY <1>1, <2>4, <3>3 DEF bill
      <3>7. sum' = sum - Held[k]
        BY <1>1, <1>2, <2>3, <3>4
      <3> HIDE DEF k, e
      <3> QED
        BY <1>1, <1>2, <1>3, <2>3, <2>4, <3>3, <3>5, <3>6, <3>7
    <2>6. CASE ~Trips(e)
      <3>1. state' = [state EXCEPT ![k] = e] /\ Return(t) /\ pc[t] = "failing"
        BY <1>10, <2>6 DEF RecordFailure
      <3>2. Tripped' = Tripped /\ Failing' = Failing \ {t} /\ t \in Failing
        BY <1>4, <3>1 DEF Return, Tripped, Failing
      <3>3. bill' = bill /\ fails' = fails - 1
        BY <1>1, <2>4, <3>2, OneThread DEF trips, fails, bill
      <3>4. Held'[k] <= Held[k] + 1
        <4>1. state'[k] = e
          BY <2>1, <3>1
        <4>2. CASE e.blocked_until = None
          <5>1. Held'[k] = e.failures
            BY <2>1, <2>2, <4>1, <4>2, NoneAssumption DEF Held
          <5>2. e.failures <= Held[k] + 1
            BY <1>0, <2>1, <4>2, CountedHeld
          <5> QED
            BY <5>1, <5>2
        <4>3. CASE e.blocked_until # None
          <5>1. Held'[k] = 0
            BY <2>1, <4>1, <4>3 DEF Held
          <5> QED
            BY <2>3, <5>1
        <4> QED
          BY <4>2, <4>3
      <3> HIDE DEF k, e
      <3>5. sum' <= sum + 1
        BY <1>1, <1>2, <2>3, <3>4
      <3>6. auth_failures_total' >= bill + fails' + sum'
        BY <1>1, <1>2, <2>4, <3>3, <3>5, StillPaid
      <3> QED
        BY <1>3, <3>3, <3>6
    <2> QED
      BY <2>5, <2>6
  <1>11. ASSUME NEW t \in Threads, CountLockout(t) PROVE auth_failures_total' >= PaidFor'
    <2>1. /\ Tripped' = Tripped \ {t} /\ t \in Tripped /\ Failing' = Failing
          /\ auth_lockouts_total' = auth_lockouts_total + 1
          /\ UNCHANGED <<auth_failures_total, state>>
      BY <1>4, <1>11 DEF CountLockout, Return, Tripped, Failing
    <2>2. trips' = trips - 1 /\ fails' = fails
      BY <1>1, <2>1, OneThread DEF trips, fails
    <2>3. sum' <= sum
      BY <1>0, <2>1, HeldDrops DEF sum
    <2>4. bill' = bill
      <3>1. auth_lockouts_total' + trips' = auth_lockouts_total + trips
        BY <1>1, <2>1, <2>2
      <3> QED
        BY <3>1 DEF bill
    <2>5. auth_failures_total' >= bill + fails' + sum'
      BY <1>1, <1>2, <2>1, <2>2, <2>3, <2>4, StillPaid
    <2> QED
      BY <1>3, <2>4, <2>5
  <1>12. CASE Cleanup
    BY <1>5, <1>12 DEF Cleanup, Dropping, Tripped, Failing
  <1>13. CASE Tick \/ UNCHANGED vars
    BY <1>5, <1>13 DEF Tick, vars, Tripped, Failing
  <1> QED
    BY <1>6, <1>7, <1>8, <1>9, <1>10, <1>11, <1>12, <1>13 DEF Next, Authenticate

\* FailuresPayForLockouts for any number of threads and IPs: failures that arrive
\* during a lockout, resets and cleanups never make AUTH_FAIL_MAX failures serve
\* for two lockouts.
THEOREM LockoutsArePaidFor == Spec => []FailuresPayForLockouts
  <1>1. PaymentInv => FailuresPayForLockouts
    <2> SUFFICES ASSUME PaymentInv PROVE FailuresPayForLockouts
      OBVIOUS
    <2>1. /\ SumFunctionOnSet(Held, Keys) \in Nat /\ Cardinality(Failing) \in Nat
          /\ Cardinality(Tripped) \in Nat /\ auth_lockouts_total \in Nat
          /\ auth_failures_total \in Nat /\ auth_failures_total >= PaidFor
      BY HeldNumbers DEF PaymentInv, Inv
    <2>2. MaxFailures * (auth_lockouts_total + Cardinality(Tripped)) \in Nat
      BY <2>1, LimitsAssumption
    <2>3. auth_failures_total >= MaxFailures * (auth_lockouts_total + Cardinality(Tripped))
      BY <2>1, <2>2 DEF PaidFor
    <2> QED
      BY <2>3 DEF FailuresPayForLockouts, Tripped
  <1> QED
    BY <1>1, PaymentInit, PaymentNext, PTL DEF Spec

----------------------------------------------------------------------------
(* AuthHistory: the history variables watch the limiter and never steer it,  *)
(* so every behaviour of HSpec is one of Spec and Inv holds along it.        *)
LEMMA HistoryWatches ==
    /\ HInit => Init
    /\ [HNext]_hvars => [Next]_vars
  BY DEF HInit, HNext, HRecordFailure, HRecordSuccess, HOther, hvars, Next, Authenticate

LEMMA InvNext == Inv /\ [Next]_vars => Inv'
  BY TypeInvNext, NoMissedLockoutNext, TrackedWithinCapNext DEF Inv

(* The inductive invariant behind EarlyReleaseOnlyByInflight: whoever is     *)
(* inside authenticate() for a locked IP was there when the lockout began.   *)
OnlyInflightInside ==
    \A k \in Keys : Locked(k) =>
        \A t \in Threads : key[t] = k /\ pc[t] \in {"passed", "failing"} => t \in inflight[k]

InflightInv ==
    /\ Inv
    /\ inflight \in [Keys -> SUBSET Threads]
    /\ OnlyInflightInside

\* A failure during a lockout changes neither the lockout nor its end.
LEMMA LateFailureKeepsLockout ==
    ASSUME TypeInv, NEW k \in Keys, Locked(k)
    PROVE  ~Trips(Counted(k)) /\ Counted(k).blocked_until = state[k].blocked_until
  <1> USE NoneAssumption
  <1> DEFINE d == EntryOf(k)
             e == Restarted(d)
  <1>1. /\ d = state[k] /\ d \in Entry /\ d.blocked_until # None /\ d.blocked_until \in Nat
        /\ now \in Nat /\ now < d.blocked_until
    BY LimitsAssumption DEF TypeInv, TypeOK, EntryOf, Locked, Entry
  <1>2. ~LockoutOver(d)
    BY <1>1 DEF LockoutOver
  <1>3. e \in Entry /\ e.blocked_until = d.blocked_until
    <2>1. CASE WindowOver(d)
      <3>1. e = [failures |-> 0, first_failure |-> now, blocked_until |-> d.blocked_until]
        BY <1>2, <2>1 DEF Restarted, Fresh
      <3> QED
        BY <1>1, <3>1 DEF Entry
    <2>2. CASE ~WindowOver(d)
      BY <1>1, <1>2, <2>2 DEF Restarted
    <2> QED
      BY <2>1, <2>2
  <1>4. Counted(k) = [e EXCEPT !.failures = SaturatingInc(e.failures)]
    BY DEF Counted
  <1>5. Counted(k).blocked_until = d.blocked_until
    BY <1>3, <1>4 DEF Entry
  <1> QED
    BY <1>1, <1>5 DEF Trips

\* Outside record_failure's own call, a lock is never new.
LEMMA NoNewLock ==
    ASSUME TypeInv, [Next]_vars, NEW k \in Keys, Locked(k)',
           \A t \in Threads : RecordFailure(t) => key[t] # k \/ ~Trips(Counted(k))
    PROVE  Locked(k) /\ state'[k].blocked_until = state[k].blocked_until
  <1> USE LimitsAssumption, NoneAssumption
  <1>0. now \in Nat /\ state \in [Keys -> Entry \cup {None}]
    BY DEF TypeInv, TypeOK
  <1>1. ASSUME NEW t \in Threads, RecordFailure(t) PROVE Locked(k) /\ state'[k].blocked_until = state[k].blocked_until
    <2>0. key[t] \in Keys /\ now' = now
      BY <1>1 DEF RecordFailure, TypeInv, TypeOK
    <2>1. CASE key[t] # k
      BY <1>0, <1>1, <2>0, <2>1 DEF RecordFailure, Locked
    <2>2. CASE key[t] = k
      <3>1. state'[k] = Counted(k)
        BY <1>0, <1>1, <2>0, <2>2 DEF RecordFailure
      <3>2. Counted(k).blocked_until \in {None, EntryOf(k).blocked_until}
        BY <1>0, CountedEntry DEF TypeInv
      <3>3. EntryOf(k).blocked_until = Counted(k).blocked_until /\ EntryOf(k).blocked_until # None
        BY <3>1, <3>2 DEF Locked
      <3>4. state[k] # None /\ EntryOf(k) = state[k]
        BY <3>3 DEF EntryOf, Fresh
      <3> QED
        BY <2>0, <3>1, <3>3, <3>4 DEF Locked
    <2> QED
      BY <2>1, <2>2
  <1>2. CASE ~\E t \in Threads : RecordFailure(t)
    <2>1. \/ now' = now /\ Dropping
          \/ now' = now + 1 /\ UNCHANGED state
      <3>1. ASSUME NEW t \in Threads, RecordSuccess(t) PROVE now' = now /\ Dropping
        BY <3>1 DEF RecordSuccess, Dropping, TypeInv, TypeOK
      <3>2. CASE Cleanup
        BY <3>2 DEF Cleanup, Dropping
      <3>3. CASE Tick
        BY <3>3 DEF Tick
      <3>4. CASE UNCHANGED vars
        BY <3>4 DEF vars, Dropping
      <3>5. ASSUME NEW t \in Threads,
                   \/ \E j \in Keys : CheckBlocked(t, j)
                   \/ ReturnUncounted(t) \/ CountFailure(t)
                   \/ IgnoreFailure(t) \/ CountLockout(t)
            PROVE  now' = now /\ Dropping
        BY <3>5 DEF CheckBlocked, ReturnUncounted, CountFailure, IgnoreFailure,
                    CountLockout, Dropping
      <3> QED
        BY <1>2, <3>1, <3>2, <3>3, <3>4, <3>5 DEF Next, Authenticate
    <2>2. state'[k] = state[k]
      BY <2>1 DEF Dropping, Locked
    <2>3. state[k].blocked_until \in Nat
      BY <1>0, <2>2 DEF Locked, Entry
    <2> QED
      BY <1>0, <2>1, <2>2, <2>3 DEF Locked
  <1> QED
    BY <1>1, <1>2

LEMMA InflightInit == HInit => InflightInv
  <1> SUFFICES ASSUME HInit PROVE InflightInv
    OBVIOUS
  <1>1. Inv
    BY HistoryWatches, InvInit
  <1> QED
    BY <1>1 DEF HInit, Init, InflightInv, OnlyInflightInside, Locked

LEMMA InflightNext == InflightInv /\ [HNext]_hvars => InflightInv'
  <1> SUFFICES ASSUME InflightInv, [HNext]_hvars PROVE InflightInv'
    OBVIOUS
  <1>0. Inv /\ TypeInv /\ Inv' /\ [Next]_vars
    BY HistoryWatches, InvNext DEF InflightInv, Inv
  <1>1. /\ pc \in [Threads -> {"idle", "passed", "failing", "tripped"}]
        /\ key \in [Threads -> Keys \cup {None}]
        /\ state \in [Keys -> Entry \cup {None}]
        /\ inflight \in [Keys -> SUBSET Threads]
    BY <1>0 DEF TypeInv, TypeOK, InflightInv
  <1>2. inflight' \in [Keys -> SUBSET Threads]
    <2>1. ASSUME NEW t \in Threads, HRecordFailure(t) PROVE inflight' \in [Keys -> SUBSET Threads]
      BY <1>1, <2>1 DEF HRecordFailure
    <2> QED
      BY <1>1, <2>1 DEF HNext, HRecordSuccess, HOther, hvars
  <1>3. SUFFICES ASSUME NEW k \in Keys, Locked(k)', NEW t \in Threads,
                        key'[t] = k, pc'[t] \in {"passed", "failing"}
                 PROVE  t \in inflight'[k]
    BY <1>0, <1>2 DEF InflightInv, OnlyInflightInside
  <1>4. ASSUME NEW u \in Threads, HRecordFailure(u), key[u] = k, Trips(Counted(k))
        PROVE  t \in inflight'[k]
    <2>1. pc' = [pc EXCEPT ![u] = "tripped"] /\ key' = key
      BY <1>4 DEF HRecordFailure, RecordFailure
    <2>2. t # u /\ key[t] = key[u]
      BY <1>1, <1>3, <1>4, <2>1
    <2>3. inflight' = [inflight EXCEPT ![key[u]] = {v \in Threads : v # u /\ key[v] = key[u]}]
      BY <1>1, <1>4, <2>1 DEF HRecordFailure
    <2> QED
      BY <1>1, <1>3, <1>4, <2>2, <2>3
  <1>5. ASSUME \A u \in Threads : HRecordFailure(u) => key[u] # k \/ ~Trips(Counted(k)),
               \A u \in Threads : RecordFailure(u) => key[u] # k \/ ~Trips(Counted(k))
        PROVE  t \in inflight'[k]
    <2>1. Locked(k)
      BY <1>0, <1>3, <1>5, NoNewLock
    <2>2. inflight'[k] = inflight[k]
      <3>1. ASSUME NEW u \in Threads, HRecordFailure(u) PROVE inflight'[k] = inflight[k]
        <4>1. CASE key[u] # k
          BY <1>1, <3>1, <4>1 DEF HRecordFailure
        <4>2. CASE key[u] = k
          <5>1. pc'[u] = "idle"
            BY <1>1, <1>5, <3>1, <4>2 DEF HRecordFailure, RecordFailure, Return
          <5> QED
            BY <1>1, <3>1, <4>2, <5>1 DEF HRecordFailure
        <4> QED
          BY <4>1, <4>2
      <3> QED
        BY <3>1 DEF HNext, HRecordSuccess, HOther, hvars
    <2>3. key[t] = k /\ pc[t] \in {"passed", "failing"}
      <3>1. ASSUME NEW u \in Threads, \E j \in Keys : CheckBlocked(u, j)
            PROVE  key[t] = k /\ pc[t] \in {"passed", "failing"}
        BY <1>1, <1>3, <2>1, <3>1, KeysAssumption DEF CheckBlocked, Return
      <3>2. ASSUME NEW u \in Threads, ReturnUncounted(u) \/ RecordSuccess(u) \/ IgnoreFailure(u) \/ CountLockout(u)
            PROVE  key[t] = k /\ pc[t] \in {"passed", "failing"}
        BY <1>1, <1>3, <3>2, KeysAssumption DEF ReturnUncounted, RecordSuccess, IgnoreFailure,
                                                CountLockout, Return
      <3>3. ASSUME NEW u \in Threads, CountFailure(u)
            PROVE  key[t] = k /\ pc[t] \in {"passed", "failing"}
        BY <1>1, <1>3, <3>3 DEF CountFailure
      <3>4. ASSUME NEW u \in Threads, RecordFailure(u)
            PROVE  key[t] = k /\ pc[t] \in {"passed", "failing"}
        <4>1. \/ pc' = [pc EXCEPT ![u] = "tripped"] /\ key' = key
              \/ Return(u)
          BY <3>4 DEF RecordFailure
        <4> QED
          BY <1>1, <1>3, <4>1, KeysAssumption DEF Return
      <3>5. CASE Cleanup \/ Tick \/ UNCHANGED vars
        BY <1>3, <3>5 DEF Cleanup, Tick, vars
      <3> QED
        BY <1>0, <3>1, <3>2, <3>3, <3>4, <3>5 DEF Next, Authenticate
    <2> QED
      BY <2>1, <2>2, <2>3 DEF InflightInv, OnlyInflightInside
  <1>6. CASE \E u \in Threads : RecordFailure(u) /\ key[u] = k /\ Trips(Counted(k))
    <2>1. PICK u \in Threads : RecordFailure(u) /\ key[u] = k /\ Trips(Counted(k))
      BY <1>6
    <2>2. pc[u] = "failing" /\ pc' = [pc EXCEPT ![u] = "tripped"]
      BY <2>1 DEF RecordFailure
    <2>3. HRecordFailure(u)
      <3>1. ASSUME NEW v \in Threads, HRecordFailure(v) PROVE v = u
        BY <1>1, <2>2, <3>1 DEF HRecordFailure, RecordFailure, Return
      <3>2. ASSUME NEW v \in Threads, HRecordSuccess(v) PROVE FALSE
        BY <1>1, <2>2, <3>2 DEF HRecordSuccess, RecordSuccess, Return
      <3>3. ASSUME HOther PROVE FALSE
        <4>1. ASSUME NEW v \in Threads,
                     \/ \E j \in Keys : CheckBlocked(v, j)
                     \/ ReturnUncounted(v) \/ IgnoreFailure(v) \/ CountFailure(v) \/ CountLockout(v)
              PROVE  FALSE
          BY <1>1, <2>2, <4>1 DEF CheckBlocked, ReturnUncounted, IgnoreFailure, CountFailure,
                                  CountLockout, Return
        <4>2. CASE Cleanup \/ Tick
          BY <1>1, <2>2, <4>2 DEF Cleanup, Tick
        <4> QED
          BY <3>3, <4>1, <4>2 DEF HOther
      <3>4. ASSUME UNCHANGED hvars PROVE FALSE
        BY <1>1, <2>2, <3>4 DEF hvars, vars
      <3> QED
        BY <3>1, <3>2, <3>3, <3>4 DEF HNext
    <2> QED
      BY <1>4, <2>1, <2>3
  <1> QED
    BY <1>5, <1>6 DEF HRecordFailure

\* EarlyReleaseOnlyByInflight for any number of threads: only a request that was
\* already past is_blocked when a lockout began can end it early, by its success.
THEOREM OnlyInflightReleases == HSpec => EarlyReleaseOnlyByInflight
  <1> DEFINE Release ==
        \A k \in Keys :
          Locked(k) /\ (state'[k] = None \/ state'[k].blocked_until # state[k].blocked_until)
          => \E t \in inflight[k] : key[t] = k /\ pc[t] = "passed" /\ pc'[t] = "idle"
  <1>1. InflightInv /\ [HNext]_hvars => Release
    <2> SUFFICES ASSUME InflightInv, [HNext]_hvars, NEW k \in Keys, Locked(k),
                        state'[k] = None \/ state'[k].blocked_until # state[k].blocked_until
                 PROVE  \E t \in inflight[k] : key[t] = k /\ pc[t] = "passed" /\ pc'[t] = "idle"
      OBVIOUS
    <2>0. /\ TypeInv /\ [Next]_vars
          /\ pc \in [Threads -> {"idle", "passed", "failing", "tripped"}]
          /\ state \in [Keys -> Entry \cup {None}]
      BY HistoryWatches DEF InflightInv, Inv, TypeInv, TypeOK
    <2>1. ASSUME NEW t \in Threads, RecordSuccess(t)
          PROVE  \E u \in inflight[k] : key[u] = k /\ pc[u] = "passed" /\ pc'[u] = "idle"
      <3>0. state' = [state EXCEPT ![key[t]] = None] /\ state[k] # None
        BY <2>1 DEF RecordSuccess, Locked
      <3>1. pc[t] = "passed" /\ pc'[t] = "idle" /\ key[t] = k
        <4>1. pc[t] = "passed" /\ pc'[t] = "idle"
          BY <2>0, <2>1 DEF RecordSuccess, Return
        <4>2. key[t] # k => state'[k] = state[k]
          BY <2>0, <3>0
        <4> QED
          BY <3>0, <4>1, <4>2
      <3>2. t \in inflight[k]
        BY <3>1 DEF InflightInv, OnlyInflightInside
      <3> QED
        BY <3>1, <3>2
    <2>2. ASSUME NEW t \in Threads, RecordFailure(t) PROVE FALSE
      <3>1. CASE key[t] # k
        BY <2>0, <2>2, <3>1 DEF RecordFailure, Locked
      <3>2. CASE key[t] = k
        <4>1. ~Trips(Counted(k)) /\ Counted(k).blocked_until = state[k].blocked_until
          BY <2>0, LateFailureKeepsLockout
        <4>2. state'[k] = Counted(k)
          BY <2>0, <2>2, <3>2, <4>1 DEF RecordFailure
        <4>3. Counted(k) \in Entry
          BY <2>0, CountedEntry, LimitsAssumption DEF TypeInv, TypeOK
        <4> QED
          BY <4>1, <4>2, <4>3, NoneAssumption
      <3> QED
        BY <3>1, <3>2
    <2>3. CASE Cleanup
      <3>1. k \in Tracked /\ Retained(state[k])
        BY DEF Locked, Tracked, Retained
      <3> QED
        BY <2>3, <3>1 DEF Cleanup, Tracked, Locked
    <2>4. ASSUME UNCHANGED state PROVE FALSE
      BY <2>4 DEF Locked
    <2>5. ASSUME NEW t \in Threads,
                 \/ \E j \in Keys : CheckBlocked(t, j)
                 \/ ReturnUncounted(t) \/ CountFailure(t) \/ IgnoreFailure(t) \/ CountLockout(t)
          PROVE  FALSE
      BY <2>4, <2>5 DEF CheckBlocked, ReturnUncounted, CountFailure, IgnoreFailure, CountLockout
    <2>6. CASE Tick \/ UNCHANGED vars
      BY <2>4, <2>6 DEF Tick, vars
    <2> QED
      BY <2>0, <2>1, <2>2, <2>3, <2>5, <2>6 DEF Next, Authenticate
  <1>2. InflightInv /\ [HNext]_hvars => [Release]_hvars
    BY <1>1
  <1> QED
    BY <1>2, InflightInit, InflightNext, PTL DEF HSpec, EarlyReleaseOnlyByInflight

----------------------------------------------------------------------------
(* The inductive invariant behind DoubleFailuresLockOut.  The unpunished     *)
(* failures of an IP fall into the windows that record_failure counted them  *)
(* in, fewer than AUTH_FAIL_MAX in each: the last c of them are those of the *)
(* last window, and the AUTH_FAIL_MAX - 1 before them reach back to before   *)
(* the window's length before it began.                                      *)
Sorted(f) == \A i, j \in 1..Len(f) : i <= j => f[i] <= f[j]

\* When the last window, of c failures, began.
Began(f, c) == f[Len(f) - c + 1]

Windows(f, c) ==
    /\ c \in 1..(MaxFailures - 1) /\ c <= Len(f)
    /\ \A i \in 1..(Len(f) - c) :
           i <= Len(f) - c - MaxFailures + 2 => f[i] + Window < Began(f, c)

\* The next failure, at time t, will begin a window of its own.
WindowPassed(f, t) ==
    f = <<>> \/ \E c \in 1..(MaxFailures - 1) : Windows(f, c) /\ Began(f, c) + Window < t

\* The failures f of an IP agree with its entry e at time t.
Agrees(f, e, t) ==
    /\ f \in Seq(Nat) /\ Sorted(f) /\ \A i \in 1..Len(f) : f[i] <= t
    /\ e = None => WindowPassed(f, t)
    /\ e # None /\ e.blocked_until # None => f = <<>>
    /\ e # None /\ e.blocked_until = None =>
           Windows(f, e.failures) /\ Began(f, e.failures) = e.first_failure

MemoryInv ==
    /\ Inv /\ unpunished \in [Keys -> Seq(Nat)]
    /\ \A k \in Keys : Agrees(unpunished[k], state[k], now)

\* A failure at time t, no earlier than the others, joins the sequence.
LEMMA AppendTime ==
    ASSUME NEW f \in Seq(Nat), Sorted(f), NEW t \in Nat, \A i \in 1..Len(f) : f[i] <= t
    PROVE  LET a == Append(f, t)
           IN  /\ a \in Seq(Nat) /\ Len(a) = Len(f) + 1 /\ a[Len(f) + 1] = t
               /\ \A i \in 1..Len(f) : a[i] = f[i]
               /\ Sorted(a) /\ \A i \in 1..Len(a) : a[i] <= t
  <1> DEFINE a == Append(f, t)
  <1>1. /\ Len(f) \in Nat /\ a \in Seq(Nat) /\ Len(a) = Len(f) + 1 /\ a[Len(f) + 1] = t
        /\ \A i \in 1..Len(f) : a[i] = f[i] /\ f[i] \in Nat
    OBVIOUS
  <1> HIDE DEF a
  <1>2. \A i \in 1..Len(a) : i \in 1..Len(f) \/ i = Len(f) + 1
    BY <1>1
  <1>3. \A i \in 1..Len(a) : a[i] <= t
    BY <1>1, <1>2, SMTT(30)
  <1>4. Sorted(a)
    <2> SUFFICES ASSUME NEW i \in 1..Len(a), NEW j \in 1..Len(a), i <= j PROVE a[i] <= a[j]
      BY DEF Sorted
    <2>1. CASE j = Len(f) + 1
      BY <1>1, <1>3, <2>1
    <2>2. CASE j \in 1..Len(f)
      <3>1. i \in 1..Len(f)
        BY <1>1, <2>2
      <3>2. f[i] <= f[j]
        BY <2>2, <3>1 DEF Sorted
      <3> QED
        BY <1>1, <2>2, <3>1, <3>2
    <2> QED
      BY <1>2, <2>1, <2>2
  <1> QED
    BY <1>1, <1>3, <1>4 DEF a

\* One more failure in the last window.
LEMMA SameWindow ==
    ASSUME NEW f \in Seq(Nat), NEW a \in Seq(Nat), Len(a) = Len(f) + 1,
           \A i \in 1..Len(f) : a[i] = f[i], NEW c, Windows(f, c), c + 1 <= MaxFailures - 1
    PROVE  Windows(a, c + 1) /\ Began(a, c + 1) = Began(f, c)
  <1> USE LimitsAssumption
  <1>1. c \in Nat /\ c >= 1 /\ c <= Len(f) /\ Len(f) \in Nat
    BY DEF Windows
  <1>2. Len(a) - (c + 1) = Len(f) - c /\ Len(f) - c + 1 \in 1..Len(f)
    BY <1>1
  <1>3. Began(a, c + 1) = Began(f, c)
    BY <1>2 DEF Began
  <1>4. ASSUME NEW i \in 1..(Len(a) - (c + 1)), i <= Len(a) - (c + 1) - MaxFailures + 2
        PROVE  a[i] + Window < Began(a, c + 1)
    <2>1. i \in 1..(Len(f) - c) /\ i \in 1..Len(f) /\ i <= Len(f) - c - MaxFailures + 2
      BY <1>1, <1>2, <1>4
    <2>2. f[i] + Window < Began(f, c)
      BY <2>1 DEF Windows
    <2> QED
      BY <1>3, <2>1, <2>2
  <1>5. c + 1 \in 1..(MaxFailures - 1) /\ c + 1 <= Len(a)
    BY <1>1
  <1> QED
    BY <1>3, <1>4, <1>5 DEF Windows

\* A failure that begins a new window, after the last one has passed.
LEMMA NewWindow ==
    ASSUME NEW f \in Seq(Nat), Sorted(f), NEW a \in Seq(Nat), Len(a) = Len(f) + 1,
           NEW t \in Nat, a[Len(f) + 1] = t, \A i \in 1..Len(f) : a[i] = f[i],
           WindowPassed(f, t), 1 <= MaxFailures - 1
    PROVE  Windows(a, 1) /\ Began(a, 1) = t
  <1> USE LimitsAssumption
  <1>0. Len(f) \in Nat
    OBVIOUS
  <1>1. Began(a, 1) = t
    BY <1>0 DEF Began
  <1>2. ASSUME NEW i \in 1..Len(f), i <= Len(f) - MaxFailures + 2 PROVE f[i] + Window < t
    <2>1. f # <<>>
      BY <1>0
    <2>2. PICK c \in 1..(MaxFailures - 1) : Windows(f, c) /\ Began(f, c) + Window < t
      BY <2>1 DEF WindowPassed
    <2>3. Len(f) - c + 1 \in 1..Len(f) /\ i <= Len(f) - c + 1
      BY <1>0, <1>2, <2>2 DEF Windows
    <2> DEFINE j == Len(f) - c + 1
    <2>4. f[i] <= Began(f, c) /\ f[i] \in Nat /\ Began(f, c) \in Nat
      <3>1. j \in 1..Len(f) /\ i <= j /\ Began(f, c) = f[j]
        BY <2>3 DEF Began
      <3>2. \A m \in 1..Len(f) : f[m] \in Nat
        BY SMTT(30)
      <3> HIDE DEF j
      <3>3. f[i] <= f[j]
        BY <3>1 DEF Sorted
      <3> QED
        BY <3>1, <3>2, <3>3
    <2> DEFINE x == f[i]
               y == Began(f, c)
    <2>5. x <= y /\ x \in Nat /\ y \in Nat /\ y + Window < t
      BY <2>2, <2>4
    <2> HIDE DEF x, y
    <2>6. x + Window < t
      BY <2>5
    <2> QED
      BY <2>6 DEF x
  <1>3. \A i \in 1..(Len(a) - 1) : i <= Len(a) - 1 - MaxFailures + 2 => a[i] + Window < Began(a, 1)
    <2> SUFFICES ASSUME NEW i \in 1..(Len(a) - 1), i <= Len(a) - 1 - MaxFailures + 2
                 PROVE  a[i] + Window < t
      BY <1>1
    <2>1. i \in 1..Len(f) /\ i <= Len(f) - MaxFailures + 2
      BY <1>0
    <2> QED
      BY <1>2, <2>1
  <1> QED
    BY <1>0, <1>1, <1>3 DEF Windows

\* Forgetting the oldest failure.
LEMMA ForgetOldest ==
    ASSUME NEW a \in Seq(Nat), Sorted(a), NEW c, Windows(a, c), c < Len(a)
    PROVE  LET b == Tail(a)
           IN  /\ b \in Seq(Nat) /\ Sorted(b) /\ Windows(b, c) /\ Began(b, c) = Began(a, c)
               /\ \A i \in 1..Len(b) : \E j \in 1..Len(a) : b[i] = a[j]
  <1> USE LimitsAssumption
  <1> DEFINE b == Tail(a)
  <1>0. c \in Nat /\ c >= 1 /\ Len(a) \in Nat /\ a # <<>>
    BY DEF Windows
  <1>1. /\ b \in Seq(Nat) /\ Len(b) = Len(a) - 1
        /\ \A i \in 1..Len(b) : b[i] = a[i + 1]
    BY <1>0
  <1> HIDE DEF b
  <1>2. \A i \in 1..Len(b) : i + 1 \in 1..Len(a)
    BY <1>0, <1>1
  <1>3. Sorted(b)
    <2> SUFFICES ASSUME NEW i \in 1..Len(b), NEW j \in 1..Len(b), i <= j PROVE b[i] <= b[j]
      BY DEF Sorted
    <2>1. a[i + 1] <= a[j + 1]
      BY <1>2 DEF Sorted
    <2> QED
      BY <1>1, <2>1
  <1>4. Began(b, c) = Began(a, c)
    <2> DEFINE j == Len(b) - c + 1
    <2>1. j \in 1..Len(b) /\ j + 1 = Len(a) - c + 1
      BY <1>0, <1>1
    <2>2. Began(b, c) = b[j] /\ Began(a, c) = a[j + 1]
      BY <2>1 DEF Began
    <2> HIDE DEF j
    <2> QED
      BY <1>1, <2>1, <2>2
  <1>5. ASSUME NEW i \in 1..(Len(b) - c), i <= Len(b) - c - MaxFailures + 2
        PROVE  b[i] + Window < Began(b, c)
    <2>1. i + 1 \in 1..(Len(a) - c) /\ i + 1 <= Len(a) - c - MaxFailures + 2
      BY <1>0, <1>1, <1>5
    <2>2. a[i + 1] + Window < Began(a, c)
      BY <2>1 DEF Windows
    <2>3. i \in 1..Len(b)
      BY <1>0, <1>1
    <2> QED
      BY <1>1, <1>4, <2>2, <2>3
  <1>6. Windows(b, c)
    <2>1. c \in 1..(MaxFailures - 1) /\ c <= Len(b)
      BY <1>0, <1>1 DEF Windows
    <2> QED
      BY <1>5, <2>1 DEF Windows
  <1>7. \A i \in 1..Len(b) : \E j \in 1..Len(a) : b[i] = a[j]
    BY <1>1, <1>2
  <1> QED
    BY <1>1, <1>3, <1>4, <1>6, <1>7 DEF b
\* Time may pass.
LEMMA AgreesLater ==
    ASSUME NEW f, NEW e, NEW t \in Nat, Agrees(f, e, t), NEW u \in Nat, t <= u
    PROVE  Agrees(f, e, u)
  <1> USE LimitsAssumption
  <1>0. \A i \in 1..Len(f) : f[i] \in Nat /\ f[i] <= t
    BY DEF Agrees
  <1>1. \A i \in 1..Len(f) : f[i] <= u
    BY <1>0
  <1>2. ASSUME WindowPassed(f, t) PROVE WindowPassed(f, u)
    <2>1. CASE f = <<>>
      BY <2>1 DEF WindowPassed
    <2>2. CASE f # <<>>
      <3>1. PICK c \in 1..(MaxFailures - 1) : Windows(f, c) /\ Began(f, c) + Window < t
        BY <1>2, <2>2 DEF WindowPassed
      <3>2. Began(f, c) \in Nat
        <4>1. Len(f) \in Nat /\ Len(f) - c + 1 \in 1..Len(f)
          BY <3>1 DEF Agrees, Windows
        <4> QED
          BY <1>0, <4>1 DEF Began
      <3>3. Began(f, c) + Window < u
        BY <3>1, <3>2
      <3> QED
        BY <3>1, <3>3 DEF WindowPassed
    <2> QED
      BY <2>1, <2>2
  <1> QED
    BY <1>1, <1>2 DEF Agrees

\* cleanup() drops only entries whose lockout or window is over.
LEMMA AgreesDropped ==
    ASSUME NEW f, NEW e \in Entry, now \in Nat, Agrees(f, e, now), ~Retained(e)
    PROVE  Agrees(f, None, now)
  <1> USE LimitsAssumption, OrderAssumption, NoneAssumption
  <1>1. CASE e.blocked_until # None
    BY <1>1 DEF Agrees, WindowPassed
  <1>2. CASE e.blocked_until = None
    <2>1. Windows(f, e.failures) /\ Began(f, e.failures) = e.first_failure
      BY <1>2 DEF Agrees
    <2>2. ~(now - e.first_failure < CleanupAge) /\ e.first_failure \in Nat
      BY <1>2 DEF Retained, Entry
    <2>3. e.first_failure + Window < now
      BY <2>2
    <2>4. WindowPassed(f, now)
      BY <2>1, <2>3 DEF WindowPassed, Windows
    <2> QED
      BY <2>4 DEF Agrees
  <1> QED
    BY <1>1, <1>2

\* A failure of an IP that is not locked out begins a window, or counts in the
\* one of its entry.
LEMMA CountedWindow ==
    ASSUME Inv, NEW k \in Keys, ~Locked(k), NEW f, Agrees(f, state[k], now)
    PROVE  /\ Counted(k).blocked_until = None
           /\ \/ /\ Counted(k).failures = 1 /\ Counted(k).first_failure = now
                 /\ WindowPassed(f, now)
              \/ /\ state[k] # None /\ state[k].blocked_until = None
                 /\ Counted(k).failures = state[k].failures + 1
                 /\ Counted(k).first_failure = state[k].first_failure
  <1> USE LimitsAssumption, OrderAssumption, NoneAssumption
  <1> DEFINE d == EntryOf(k)
             e == Restarted(d)
  <1>0. now \in Nat /\ state[k] \in Entry \cup {None} /\ d \in Entry
    BY DEF Inv, TypeInv, TypeOK, EntryOf, Fresh, Entry
  <1>1. Counted(k) = [e EXCEPT !.failures = SaturatingInc(e.failures)]
    BY DEF Counted
  <1>2. SaturatingInc(0) = 1
    BY DEF SaturatingInc
  <1>3. e = Fresh => /\ Counted(k).failures = 1 /\ Counted(k).first_failure = now
                     /\ Counted(k).blocked_until = None
    BY <1>1, <1>2 DEF Fresh
  <1>4. CASE state[k] = None
    <2>1. d = Fresh
      BY <1>4 DEF EntryOf
    <2>2. e = Fresh
      BY <1>0, <2>1 DEF Restarted, LockoutOver, WindowOver, Fresh
    <2> QED
      BY <1>3, <1>4, <2>2 DEF Agrees
  <1>5. CASE state[k] # None /\ state[k].blocked_until # None
    <2>1. d = state[k] /\ d.blocked_until \in Nat
      BY <1>0, <1>5 DEF EntryOf, Entry
    <2>2. LockoutOver(d)
      BY <1>0, <1>5, <2>1 DEF Locked, LockoutOver
    <2>3. e = Fresh
      BY <2>2 DEF Restarted
    <2>4. f = <<>>
      BY <1>5 DEF Agrees
    <2> QED
      BY <1>3, <2>3, <2>4 DEF WindowPassed
  <1>6. CASE state[k] # None /\ state[k].blocked_until = None
    <2>1. d = state[k] /\ d.first_failure \in Nat /\ d.failures \in Nat
      BY <1>0, <1>6 DEF EntryOf, Entry
    <2>2. ~LockoutOver(d)
      BY <1>6, <2>1 DEF LockoutOver
    <2>3. Windows(f, d.failures) /\ Began(f, d.failures) = d.first_failure
      BY <1>6, <2>1 DEF Agrees
    <2>4. d.failures \in 1..(MaxFailures - 1)
      BY <2>3 DEF Windows
    <2>5. CASE WindowOver(d)
      <3>1. e = Fresh
        BY <1>6, <2>1, <2>2, <2>5 DEF Restarted, Fresh
      <3>2. d.first_failure + Window < now
        BY <1>0, <2>1, <2>5 DEF WindowOver
      <3>3. WindowPassed(f, now)
        BY <2>3, <2>4, <3>2 DEF WindowPassed
      <3> QED
        BY <1>3, <3>1, <3>3
    <2>6. CASE ~WindowOver(d)
      <3>1. e = d
        BY <2>2, <2>6 DEF Restarted
      <3>2. SaturatingInc(d.failures) = d.failures + 1
        BY <2>4 DEF SaturatingInc
      <3>3. /\ Counted(k).failures = d.failures + 1 /\ Counted(k).first_failure = d.first_failure
            /\ Counted(k).blocked_until = d.blocked_until
        BY <1>0, <1>1, <3>1, <3>2 DEF Entry
      <3> QED
        BY <1>6, <2>1, <3>3
    <2> QED
      BY <2>5, <2>6
  <1> QED
    BY <1>0, <1>4, <1>5, <1>6

\* A failure that is counted and does not lock out.
LEMMA AgreesCounted ==
    ASSUME Inv, NEW k \in Keys, ~Locked(k), NEW f, Agrees(f, state[k], now), ~Trips(Counted(k))
    PROVE  Agrees(Remember(f, now), Counted(k), now)
  <1> USE LimitsAssumption, NoneAssumption
  <1> DEFINE e == Counted(k)
             c == e.failures
             a == Append(f, now)
             b == Remember(f, now)
  <1>0. now \in Nat /\ f \in Seq(Nat) /\ Sorted(f) /\ (\A i \in 1..Len(f) : f[i] <= now)
    BY DEF Inv, TypeInv, TypeOK, Agrees
  <1>1. /\ a \in Seq(Nat) /\ Len(f) \in Nat /\ Len(a) = Len(f) + 1 /\ a[Len(f) + 1] = now
        /\ \A i \in 1..Len(f) : a[i] = f[i]
        /\ Sorted(a) /\ \A i \in 1..Len(a) : a[i] <= now
    BY <1>0, AppendTime
  <1>2. e.blocked_until = None
    BY CountedWindow
  <1>3. e \in Entry /\ e # None /\ c \in Nat
    BY CountedEntry DEF Inv, TypeInv, TypeOK, Entry
  <1>4. c < MaxFailures
    BY <1>2, <1>3 DEF Trips
  <1>5. b = IF Len(a) > 2 * MaxFailures - 1 THEN Tail(a) ELSE a
    BY DEF Remember, Remembered
  <1> HIDE DEF a, b
  <1>6. Windows(a, c) /\ Began(a, c) = e.first_failure
    <2>1. CASE c = 1 /\ e.first_failure = now /\ WindowPassed(f, now)
      <3>1. 1 <= MaxFailures - 1
        BY <1>4, <2>1
      <3>2. Windows(a, 1) /\ Began(a, 1) = now
        BY <1>0, <1>1, <2>1, <3>1, NewWindow
      <3> QED
        BY <2>1, <3>2
    <2>2. CASE /\ state[k] # None /\ state[k].blocked_until = None
               /\ c = state[k].failures + 1 /\ e.first_failure = state[k].first_failure
      <3> DEFINE d == state[k].failures
      <3>1. Windows(f, d) /\ Began(f, d) = e.first_failure
        BY <2>2 DEF Agrees
      <3>2. c = d + 1 /\ d + 1 <= MaxFailures - 1
        <4>1. d \in Nat
          BY <3>1 DEF Windows
        <4> QED
          BY <1>4, <2>2, <4>1
      <3> HIDE DEF d, e, c
      <3>3. Windows(a, d + 1) /\ Began(a, d + 1) = Began(f, d)
        BY <1>0, <1>1, <3>1, <3>2, SameWindow
      <3> QED
        BY <3>1, <3>2, <3>3
    <2> QED
      BY <2>1, <2>2, CountedWindow
  <1> HIDE DEF e, c
  <1>7. CASE Len(a) > 2 * MaxFailures - 1
    <2>1. c < Len(a)
      BY <1>1, <1>3, <1>4, <1>7
    <2>2. b = Tail(a)
      BY <1>5, <1>7
    <2>3. /\ b \in Seq(Nat) /\ Sorted(b) /\ Windows(b, c) /\ Began(b, c) = Began(a, c)
          /\ \A i \in 1..Len(b) : \E j \in 1..Len(a) : b[i] = a[j]
      BY <1>1, <1>6, <2>1, <2>2, ForgetOldest
    <2>4. \A i \in 1..Len(b) : b[i] <= now
      BY <1>1, <2>3
    <2> QED
      BY <1>2, <1>3, <1>6, <2>3, <2>4 DEF Agrees, b, c, e
  <1>8. CASE ~(Len(a) > 2 * MaxFailures - 1)
    <2>1. b = a
      BY <1>5, <1>8
    <2> QED
      BY <1>1, <1>2, <1>3, <1>6, <2>1 DEF Agrees, b, c, e
  <1> QED
    BY <1>7, <1>8

\* A failure that locks out, or meets a lockout, leaves no unpunished failure.
LEMMA AgreesLocked ==
    ASSUME NEW e, e # None, e.blocked_until # None, NEW t
    PROVE  Agrees(<<>>, e, t)
  BY DEF Agrees, Sorted

LEMMA AgreesCleared == ASSUME NEW t PROVE Agrees(<<>>, None, t)
  BY DEF Agrees, Sorted, WindowPassed

LEMMA MemoryInit == HInit => MemoryInv
  BY InvInit, AgreesCleared DEF HInit, Init, MemoryInv

LEMMA MemoryNext == MemoryInv /\ [HNext]_hvars => MemoryInv'
  <1> SUFFICES ASSUME MemoryInv, [HNext]_hvars PROVE MemoryInv'
    OBVIOUS
  <1> USE NoneAssumption
  <1>0. Inv /\ Inv' /\ [Next]_vars
    BY HistoryWatches, InvNext DEF MemoryInv
  <1>1. /\ now \in Nat /\ now' \in Nat /\ state \in [Keys -> Entry \cup {None}]
        /\ unpunished \in [Keys -> Seq(Nat)]
        /\ \A k \in Keys : Agrees(unpunished[k], state[k], now)
    BY <1>0, LimitsAssumption DEF Inv, TypeInv, TypeOK, MemoryInv
  <1> DEFINE Kept(k) == /\ unpunished'[k] \in Seq(Nat)
                        /\ Agrees(unpunished'[k], state'[k], now')
  <1> SUFFICES unpunished' = [k \in Keys |-> unpunished'[k]] /\ \A k \in Keys : Kept(k)
    BY <1>0 DEF MemoryInv
  <1>2. ASSUME NEW k \in Keys, Agrees(unpunished'[k], state'[k], now') PROVE Kept(k)
    BY <1>2 DEF Agrees
  <1>3. ASSUME NEW k \in Keys, UNCHANGED <<unpunished, now>>, state'[k] = state[k] PROVE Kept(k)
    BY <1>1, <1>2, <1>3
  <1>4. ASSUME NEW t \in Threads, HRecordFailure(t)
        PROVE  unpunished' = [k \in Keys |-> unpunished'[k]] /\ \A k \in Keys : Kept(k)
    <2> DEFINE j == key[t]
               e == Counted(j)
               f == unpunished[j]
    <2>1. j \in Keys /\ now' = now /\ RecordFailure(t)
      BY <1>0, <1>4 DEF HRecordFailure, RecordFailure, Inv, TypeInv, TypeOK
    <2>2. e \in Entry
      BY <1>0, <1>1, <2>1, CountedEntry DEF Inv, TypeInv
    <2>3. pc \in [Threads -> {"idle", "passed", "failing", "tripped"}]
      BY <1>0 DEF Inv, TypeInv, TypeOK
    <2>4. ASSUME NEW k \in Keys, k # j PROVE Kept(k)
      <3>1. unpunished'[k] = unpunished[k]
        BY <1>1, <1>4, <2>4 DEF HRecordFailure
      <3>2. state'[k] = state[k]
        BY <1>1, <2>1, <2>4 DEF RecordFailure
      <3> QED
        BY <1>1, <1>2, <2>1, <3>1, <3>2
    <2>5. CASE Trips(e)
      <3>1. /\ state'[j] = [e EXCEPT !.blocked_until = now + Lockout]
            /\ pc'[t] = "tripped"
        BY <1>1, <2>1, <2>3, <2>5 DEF RecordFailure
      <3>2. state'[j] # None /\ state'[j].blocked_until # None
        <4>1. state'[j] \in Entry /\ state'[j].blocked_until = now + Lockout /\ now + Lockout \in Nat
          BY <1>1, <2>2, <3>1, LimitsAssumption, SMTT(30) DEF Entry
        <4> QED
          BY <4>1
      <3>3. unpunished' = [unpunished EXCEPT ![j] = <<>>]
        <4>1. ~Locked(j)
          BY <1>0, <2>1, <2>5, LateFailureKeepsLockout DEF Inv, Trips
        <4> QED
          BY <1>4, <3>1, <4>1 DEF HRecordFailure
      <3>4. Kept(j)
        BY <1>1, <1>2, <2>1, <3>2, <3>3, AgreesLocked
      <3> QED
        BY <1>1, <2>4, <3>3, <3>4
    <2>6. CASE ~Trips(e)
      <3>1. state'[j] = e /\ pc'[t] = "idle"
        BY <1>1, <2>1, <2>3, <2>6 DEF RecordFailure, Return
      <3>2. CASE Locked(j)
        <4>1. unpunished' = [unpunished EXCEPT ![j] = f]
          BY <1>4, <3>1, <3>2 DEF HRecordFailure
        <4>2. e.blocked_until # None
          BY <1>0, <2>1, <3>2, LateFailureKeepsLockout DEF Inv, Locked
        <4>3. f = <<>>
          BY <1>1, <2>1, <3>2 DEF Agrees, Locked
        <4>4. unpunished'[j] = <<>> /\ Agrees(<<>>, e, now)
          BY <1>1, <2>1, <2>2, <4>1, <4>2, <4>3, AgreesLocked
        <4>5. Kept(j)
          BY <1>2, <2>1, <3>1, <4>4
        <4> QED
          BY <1>1, <2>4, <4>1, <4>5
      <3>3. CASE ~Locked(j)
        <4>1. unpunished' = [unpunished EXCEPT ![j] = Remember(f, now)]
          BY <1>4, <3>1, <3>3 DEF HRecordFailure
        <4>2. Agrees(Remember(f, now), e, now)
          BY <1>0, <1>1, <2>1, <2>6, <3>3, AgreesCounted
        <4>3. Kept(j)
          BY <1>1, <1>2, <2>1, <3>1, <4>1, <4>2
        <4> QED
          BY <1>1, <2>4, <4>1, <4>3
      <3> QED
        BY <3>2, <3>3
    <2> QED
      BY <2>5, <2>6
  <1>5. ASSUME NEW t \in Threads, HRecordSuccess(t)
        PROVE  unpunished' = [k \in Keys |-> unpunished'[k]] /\ \A k \in Keys : Kept(k)
    <2>1. /\ key[t] \in Keys /\ now' = now
          /\ state' = [state EXCEPT ![key[t]] = None]
          /\ unpunished' = [unpunished EXCEPT ![key[t]] = <<>>]
      BY <1>0, <1>5 DEF HRecordSuccess, RecordSuccess, Inv, TypeInv, TypeOK
    <2>2. ASSUME NEW k \in Keys PROVE Kept(k)
      <3>1. CASE k = key[t]
        BY <1>1, <1>2, <2>1, <3>1, AgreesCleared
      <3>2. CASE k # key[t]
        BY <1>1, <1>2, <2>1, <3>2
      <3> QED
        BY <3>1, <3>2
    <2> QED
      BY <1>1, <2>1, <2>2
  <1>6. ASSUME Cleanup, UNCHANGED unpunished
        PROVE  unpunished' = [k \in Keys |-> unpunished'[k]] /\ \A k \in Keys : Kept(k)
    <2>1. ASSUME NEW k \in Keys PROVE Kept(k)
      <3>1. now' = now /\ unpunished'[k] = unpunished[k]
        BY <1>6 DEF Cleanup
      <3>2. CASE state[k] # None /\ Retained(state[k])
        <4>1. state'[k] = state[k]
          BY <1>6, <3>2 DEF Cleanup, Tracked
        <4> QED
          BY <1>1, <1>2, <3>1, <4>1
      <3>3. CASE state[k] = None
        <4>1. state'[k] = state[k]
          BY <1>6, <3>3 DEF Cleanup, Tracked
        <4> QED
          BY <1>1, <1>2, <3>1, <4>1
      <3>4. CASE state[k] # None /\ ~Retained(state[k])
        <4>1. state'[k] = None /\ state[k] \in Entry
          BY <1>1, <1>6, <3>4 DEF Cleanup, Tracked
        <4>2. Agrees(unpunished[k], None, now)
          BY <1>1, <3>4, <4>1, AgreesDropped
        <4> QED
          BY <1>2, <3>1, <4>1, <4>2
      <3> QED
        BY <3>2, <3>3, <3>4
    <2> QED
      BY <1>1, <1>6, <2>1
  <1>7. ASSUME UNCHANGED <<unpunished, state>>, now <= now'
        PROVE  unpunished' = [k \in Keys |-> unpunished'[k]] /\ \A k \in Keys : Kept(k)
    <2>1. ASSUME NEW k \in Keys PROVE Kept(k)
      <3>1. Agrees(unpunished[k], state[k], now')
        BY <1>1, <1>7, AgreesLater
      <3> QED
        BY <1>2, <1>7, <3>1
    <2> QED
      BY <1>1, <1>7, <2>1
  <1>8. ASSUME HOther \/ UNCHANGED hvars, ~Cleanup
        PROVE  UNCHANGED <<unpunished, state>> /\ now <= now'
    BY <1>1, <1>8 DEF HOther, CheckBlocked, ReturnUncounted, CountFailure, IgnoreFailure,
                      CountLockout, Tick, hvars, vars
  <1>9. HOther => UNCHANGED unpunished
    BY DEF HOther
  <1>10. CASE HOther \/ UNCHANGED hvars
    <2>1. CASE Cleanup
      <3>1. UNCHANGED unpunished
        BY <1>9, <1>10 DEF hvars
      <3> QED
        BY <1>6, <2>1, <3>1
    <2> QED
      BY <1>7, <1>8, <1>10, <2>1
  <1> QED
    BY <1>4, <1>5, <1>10 DEF HNext

\* DoubleFailuresLockOut for any limits and any number of threads and IPs: two
\* adjoining windows hold at most 2 * (AUTH_FAIL_MAX - 1) unpunished failures, so
\* a window's length never holds 2 * AUTH_FAIL_MAX - 1 of them.
THEOREM DoubleFailuresAlwaysLockOut == HSpec => []DoubleFailuresLockOut
  <1>1. MemoryInv => DoubleFailuresLockOut
    <2> SUFFICES ASSUME MemoryInv, NEW k \in Keys, Burst(k, 2 * MaxFailures - 1) PROVE FALSE
      BY DEF DoubleFailuresLockOut
    <2> USE LimitsAssumption
    <2> DEFINE f == unpunished[k]
               n == Len(f)
               e == state[k]
    <2>1. Agrees(f, e, now) /\ f \in Seq(Nat) /\ n \in Nat /\ \A i \in 1..n : f[i] \in Nat
      BY DEF MemoryInv, Agrees
    <2>2. n >= 2 * MaxFailures - 1 /\ f[n] - f[n - (2 * MaxFailures - 1) + 1] <= Window
      BY DEF Burst
    <2> HIDE DEF f, e
    <2>3. f # <<>>
      <3>1. n >= 1
        BY <2>1, <2>2
      <3> QED
        BY <3>1
    <2>4. PICK c : Windows(f, c)
      <3>1. CASE e = None
        BY <2>1, <2>3, <3>1 DEF Agrees, WindowPassed
      <3>2. CASE e # None
        BY <2>1, <2>3, <3>2 DEF Agrees
      <3> QED
        BY <3>1, <3>2
    <2> HIDE DEF n
    <2>5. c \in Nat /\ c >= 1 /\ c <= MaxFailures - 1 /\ c <= n
      BY <2>4 DEF Windows, n
    <2> DEFINE i == n - (2 * MaxFailures - 1) + 1
               j == n - c + 1
    <2>6. i \in 1..(n - c) /\ i <= n - c - MaxFailures + 2 /\ i \in 1..n
      BY <2>1, <2>2, <2>5
    <2>7. j \in 1..n /\ n \in 1..n /\ j <= n /\ Began(f, c) = f[j]
      BY <2>1, <2>5 DEF Began, n
    <2> HIDE DEF i
    <2>8. f[i] + Window < f[j]
      BY <2>4, <2>6, <2>7 DEF Windows, n
    <2> HIDE DEF j
    <2>9. f[j] <= f[n]
      BY <2>1, <2>7 DEF Agrees, Sorted, n
    <2>10. f[n] - f[i] <= Window
      BY <2>2 DEF i
    <2> DEFINE x == f[i]
               y == f[j]
               z == f[n]
    <2>11. x \in Nat /\ y \in Nat /\ z \in Nat
      BY <2>1, <2>6, <2>7
    <2>12. x + Window < y /\ y <= z /\ z - x <= Window
      BY <2>8, <2>9, <2>10
    <2> HIDE DEF x, y, z
    <2> QED
      BY <2>11, <2>12
  <1> QED
    BY <1>1, MemoryInit, MemoryNext, PTL DEF HSpec


=============================================================================
