------------------------- MODULE RateLimiterProofs -------------------------
(***************************************************************************)
(* Proofs about RateLimiter and RateBudget, for any keys, threads and      *)
(* settings.                                                               *)
(***************************************************************************)
EXTENDS RateBudget, FiniteSetTheorems, TLAPS

\* Arithmetic the solver is given once: products are monotone and distribute.
LEMMA ProductMonotone ==
    ASSUME NEW a \in Nat, NEW b \in Nat, NEW c \in Nat, b <= c
    PROVE  a * b \in Nat /\ a * b <= a * c
  OBVIOUS

LEMMA QuotientNat ==
    ASSUME NEW a \in Nat, NEW b \in Nat \ {0}
    PROVE  a \div b \in Nat
  OBVIOUS

\* A setting's capacity and refill are natural numbers, and a setting that allows
\* anything has room for a token.
LEMMA SettingFacts ==
    ASSUME NEW s \in Settings
    PROVE  /\ s.requests \in Nat /\ s.penalty \in Nat
           /\ Capacity(s) \in Nat
           /\ Refill(s) \in Nat
           /\ s.requests # 0 => Capacity(s) >= Scale
  <1> USE ScaleAssumption
  <1>1. s.requests \in Nat /\ s.period \in Nat /\ s.penalty \in Nat
    BY SettingsAssumption DEF Setting
  <1>2. Capacity(s) \in Nat
    BY <1>1 DEF Capacity
  <1>3. Refill(s) \in Nat
    BY <1>1, <1>2, QuotientNat DEF Refill
  <1>4. s.requests # 0 => Capacity(s) >= Scale
    <2>1. s.requests # 0 => Scale * 1 <= Scale * s.requests
      BY <1>1, ProductMonotone
    <2>2. Scale * s.requests = Capacity(s)
      BY <1>1 DEF Capacity
    <2> QED
      BY <2>1, <2>2
  <1> QED
    BY <1>1, <1>2, <1>3, <1>4

----------------------------------------------------------------------------
\* Clocks: a call and a bucket never carry a time that is still to come, and only
\* a setting that allows something gets as far as the mutex.
ClocksOK ==
    /\ \A k \in Tracked : buckets[k].last_check <= now
    /\ \A t \in Threads : call[t] # None => call[t].at <= now /\ call[t].setting.requests # 0

\* A bucket that is under no penalty lacks the token its last check() granted.
GrantLeavesRoom ==
    \A k \in Tracked : buckets[k].blocked_until = None
                          => buckets[k].tokens + Scale <= buckets[k].max_tokens

TypeInv == TypeOK /\ ClocksOK

\* What a call finds in its bucket: at most the capacity, and no more than what
\* was there and the refill of the time that has passed.
LEMMA AvailableFacts ==
    ASSUME TypeInv, NEW t \in Threads, call[t] # None
    PROVE  LET c == call[t]
           IN  /\ c \in Call
               /\ Available(c) \in Nat
               /\ Available(c) <= Capacity(c.setting)
               /\ Capacity(c.setting) >= Scale
               /\ StartsFull(c) => Available(c) = Capacity(c.setting)
               /\ ~StartsFull(c) =>
                    /\ Elapsed(c) \in Nat
                    /\ Available(c)
                         <= buckets[c.key].tokens + Elapsed(c) * Refill(c.setting)
  <1> USE ScaleAssumption, NoneAssumption
  <1> DEFINE c == call[t]
  <1>1. /\ c \in Call /\ c.key \in Keys /\ c.setting \in Settings /\ c.at \in Nat
        /\ c.setting.requests # 0
    BY DEF TypeInv, TypeOK, ClocksOK, Call
  <1>2. /\ Capacity(c.setting) \in Nat /\ Refill(c.setting) \in Nat
        /\ Capacity(c.setting) >= Scale
    BY <1>1, SettingFacts
  <1>3. CASE StartsFull(c)
    BY <1>1, <1>2, <1>3 DEF Available
  <1>4. CASE ~StartsFull(c)
    <2>1. buckets[c.key] \in Bucket
      BY <1>1, <1>4 DEF StartsFull, TypeInv, TypeOK
    <2>2. buckets[c.key].tokens \in Nat /\ buckets[c.key].last_check \in Nat
      BY <2>1 DEF Bucket
    <2>3. Elapsed(c) \in Nat
      BY <1>1, <2>2 DEF Elapsed
    <2>4. Elapsed(c) * Refill(c.setting) \in Nat
      BY <1>2, <2>3, ProductMonotone
    <2> QED
      BY <1>1, <1>2, <1>4, <2>2, <2>3, <2>4 DEF Available
  <1> QED
    BY <1>3, <1>4

\* The bucket that Grant and StartPenalty leave behind.
LEMMA AfterGrant ==
    ASSUME TypeInv, NEW t \in Threads, Grant(t)
    PROVE  LET c == call[t]
           IN  /\ c.key \in Keys
               /\ \A k \in Keys \ {c.key} : buckets'[k] = buckets[k]
               /\ buckets'[c.key] \in Bucket
               /\ buckets'[c.key].last_check = c.at
               /\ buckets'[c.key].tokens = Available(c) - Scale
               /\ buckets'[c.key].max_tokens = Capacity(c.setting)
               /\ buckets'[c.key].blocked_until = None
  <1> USE ScaleAssumption
  <1> DEFINE c == call[t]
  <1>1. /\ c \in Call /\ Available(c) \in Nat /\ Available(c) >= Scale
        /\ c.key \in Keys /\ c.setting \in Settings /\ c.at \in Nat
    BY AvailableFacts DEF Grant, Call
  <1>2. Capacity(c.setting) \in Nat
    BY <1>1, SettingFacts
  <1>3. [FullBucket(c.setting, c.at) EXCEPT !.tokens = Available(c) - Scale]
          = [last_check |-> c.at, tokens |-> Available(c) - Scale,
             max_tokens |-> Capacity(c.setting), blocked_until |-> None]
    BY DEF FullBucket
  <1>4. buckets' = [buckets EXCEPT ![c.key] =
                       [last_check |-> c.at, tokens |-> Available(c) - Scale,
                        max_tokens |-> Capacity(c.setting), blocked_until |-> None]]
    BY <1>3 DEF Grant
  <1>5. Available(c) - Scale \in Nat
    BY <1>1
  <1>6. buckets \in [Keys -> Bucket \cup {None}]
    BY DEF TypeInv, TypeOK
  <1>7. buckets'[c.key] = [last_check |-> c.at, tokens |-> Available(c) - Scale,
                           max_tokens |-> Capacity(c.setting), blocked_until |-> None]
    BY <1>1, <1>4, <1>6
  <1>8. \A k \in Keys \ {c.key} : buckets'[k] = buckets[k]
    BY <1>4, <1>6
  <1> QED
    BY <1>1, <1>2, <1>5, <1>7, <1>8 DEF Bucket

LEMMA AfterPenalty ==
    ASSUME TypeInv, NEW t \in Threads, StartPenalty(t)
    PROVE  LET c == call[t]
           IN  /\ c.key \in Keys
               /\ \A k \in Keys \ {c.key} : buckets'[k] = buckets[k]
               /\ buckets'[c.key] \in Bucket
               /\ buckets'[c.key].last_check = c.at
               /\ buckets'[c.key].tokens = Available(c)
               /\ Available(c) < Scale
               /\ buckets'[c.key].max_tokens = Capacity(c.setting)
               /\ buckets'[c.key].blocked_until # None
               /\ ~StartsFull(c)
  <1> USE ScaleAssumption
  <1> DEFINE c == call[t]
  <1>1. /\ c \in Call /\ Available(c) \in Nat /\ Available(c) < Scale
        /\ c.key \in Keys /\ c.setting \in Settings /\ c.at \in Nat
        /\ ~StartsFull(c)
    BY AvailableFacts DEF StartPenalty, Call
  <1>2. Capacity(c.setting) \in Nat /\ c.setting.penalty \in Nat
    BY <1>1, SettingFacts
  <1>3. buckets \in [Keys -> Bucket \cup {None}]
    BY DEF TypeInv, TypeOK
  <1>4. buckets' = [buckets EXCEPT ![c.key] =
                       [last_check |-> c.at, tokens |-> Available(c),
                        max_tokens |-> Capacity(c.setting),
                        blocked_until |-> c.at + c.setting.penalty]]
    BY DEF StartPenalty
  <1>5. buckets'[c.key] = [last_check |-> c.at, tokens |-> Available(c),
                           max_tokens |-> Capacity(c.setting),
                           blocked_until |-> c.at + c.setting.penalty]
    BY <1>1, <1>3, <1>4
  <1>6. \A k \in Keys \ {c.key} : buckets'[k] = buckets[k]
    BY <1>3, <1>4
  <1> QED
    BY <1>1, <1>2, <1>5, <1>6, NoneAssumption DEF Bucket

----------------------------------------------------------------------------
\* Every step takes a token, starts a penalty, cleans up, lets time pass, or
\* leaves the table alone.
LEMMA StepShape ==
    ASSUME [Next]_vars
    PROVE  \/ \E t \in Threads : Grant(t)
           \/ \E t \in Threads : StartPenalty(t)
           \/ Cleanup
           \/ Tick
           \/ /\ now' = now /\ buckets' = buckets
              /\ \/ call' = call
                 \/ \E t \in Threads : call' = [call EXCEPT ![t] = None]
                 \/ \E t \in Threads, k \in Keys, s \in Settings :
                       /\ s.requests # 0
                       /\ call' = [call EXCEPT ![t] = [key |-> k, setting |-> s, at |-> now]]
  BY DEF Next, Check, Enter, DenyNewKey, DenyPenalised, vars

LEMMA TypeInvInit == Init => TypeInv
  BY BoundsAssumption DEF Init, TypeInv, TypeOK, ClocksOK, Tracked

LEMMA TypeInvNext == TypeInv /\ [Next]_vars => TypeInv'
  <1> SUFFICES ASSUME TypeInv, [Next]_vars PROVE TypeInv'
    OBVIOUS
  <1> USE BoundsAssumption, ScaleAssumption, NoneAssumption
  <1>1. ASSUME NEW t \in Threads, Grant(t) PROVE TypeInv'
    <2> DEFINE c == call[t]
    <2>1. /\ c \in Call /\ Available(c) <= Capacity(c.setting) /\ Available(c) \in Nat
          /\ c.at <= now
      BY <1>1, AvailableFacts DEF Grant, TypeInv, ClocksOK
    <2>2. Capacity(c.setting) \in Nat
      BY <2>1, SettingFacts DEF Call
    <2>3. now' = now /\ call' = [call EXCEPT ![t] = None]
      BY <1>1 DEF Grant
    <2>4. buckets' \in [Keys -> Bucket \cup {None}]
      BY <1>1, AfterGrant DEF Grant, TypeInv, TypeOK
    <2>5. /\ buckets'[c.key].tokens <= buckets'[c.key].max_tokens
          /\ buckets'[c.key].last_check <= now'
          /\ \A k \in Keys \ {c.key} : buckets'[k] = buckets[k]
      BY <1>1, <2>1, <2>2, <2>3, AfterGrant
    <2>6. \A k \in Tracked' : /\ buckets'[k].tokens <= buckets'[k].max_tokens
                              /\ buckets'[k].last_check <= now'
      BY <2>3, <2>5 DEF Tracked, TypeInv, TypeOK, ClocksOK
    <2> QED
      BY <2>3, <2>4, <2>6 DEF TypeInv, TypeOK, ClocksOK
  <1>2. ASSUME NEW t \in Threads, StartPenalty(t) PROVE TypeInv'
    <2> DEFINE c == call[t]
    <2>1. /\ c \in Call /\ Available(c) <= Capacity(c.setting) /\ Available(c) \in Nat
          /\ c.at <= now
      BY <1>2, AvailableFacts DEF StartPenalty, TypeInv, ClocksOK
    <2>2. now' = now /\ call' = [call EXCEPT ![t] = None]
      BY <1>2 DEF StartPenalty
    <2>3. buckets' \in [Keys -> Bucket \cup {None}]
      BY <1>2, AfterPenalty DEF StartPenalty, TypeInv, TypeOK
    <2>4. /\ buckets'[c.key].tokens <= buckets'[c.key].max_tokens
          /\ buckets'[c.key].last_check <= now'
          /\ \A k \in Keys \ {c.key} : buckets'[k] = buckets[k]
      BY <1>2, <2>1, <2>2, AfterPenalty
    <2>5. \A k \in Tracked' : /\ buckets'[k].tokens <= buckets'[k].max_tokens
                              /\ buckets'[k].last_check <= now'
      BY <2>2, <2>4 DEF Tracked, TypeInv, TypeOK, ClocksOK
    <2> QED
      BY <2>2, <2>3, <2>5 DEF TypeInv, TypeOK, ClocksOK
  <1>3. CASE Cleanup
    BY <1>3 DEF Cleanup, TypeInv, TypeOK, ClocksOK, Tracked
  <1>4. CASE Tick
    BY <1>4 DEF Tick, TypeInv, TypeOK, ClocksOK, Tracked, Bucket, Call
  <1>5. ASSUME now' = now, buckets' = buckets, call' = call PROVE TypeInv'
    BY <1>5 DEF TypeInv, TypeOK, ClocksOK, Tracked
  <1>6. ASSUME now' = now, buckets' = buckets,
               NEW t \in Threads, call' = [call EXCEPT ![t] = None]
        PROVE  TypeInv'
    BY <1>6 DEF TypeInv, TypeOK, ClocksOK, Tracked
  <1>7. ASSUME now' = now, buckets' = buckets,
               NEW t \in Threads, NEW k \in Keys, NEW s \in Settings, s.requests # 0,
               call' = [call EXCEPT ![t] = [key |-> k, setting |-> s, at |-> now]]
        PROVE  TypeInv'
    BY <1>7 DEF TypeInv, TypeOK, ClocksOK, Tracked, Call
  <1> QED
    BY <1>1, <1>2, <1>3, <1>4, <1>5, <1>6, <1>7, StepShape

\* The type invariant holds in every reachable state.
THEOREM TypeCorrect == Spec => []TypeOK
  <1>1. TypeInv => TypeOK
    BY DEF TypeInv
  <1> QED
    BY <1>1, TypeInvInit, TypeInvNext, PTL DEF Spec

----------------------------------------------------------------------------
LEMMA GrantLeavesRoomNext == TypeInv /\ GrantLeavesRoom /\ [Next]_vars => GrantLeavesRoom'
  <1> SUFFICES ASSUME TypeInv, GrantLeavesRoom, [Next]_vars PROVE GrantLeavesRoom'
    OBVIOUS
  <1> USE ScaleAssumption
  <1>1. ASSUME NEW t \in Threads, Grant(t) PROVE GrantLeavesRoom'
    <2> DEFINE c == call[t]
    <2>1. /\ c \in Call /\ Available(c) <= Capacity(c.setting) /\ Available(c) \in Nat
      BY <1>1, AvailableFacts DEF Grant
    <2>2. Capacity(c.setting) \in Nat
      BY <2>1, SettingFacts DEF Call
    <2>3. buckets'[c.key].tokens + Scale <= buckets'[c.key].max_tokens
      BY <1>1, <2>1, <2>2, AfterGrant
    <2>4. \A k \in Keys \ {c.key} : buckets'[k] = buckets[k]
      BY <1>1, AfterGrant
    <2> QED
      BY <2>3, <2>4 DEF GrantLeavesRoom, Tracked
  <1>2. ASSUME NEW t \in Threads, StartPenalty(t) PROVE GrantLeavesRoom'
    BY <1>2, AfterPenalty DEF GrantLeavesRoom, Tracked
  <1>3. CASE Cleanup
    BY <1>3 DEF Cleanup, GrantLeavesRoom, Tracked
  <1>4. CASE UNCHANGED buckets
    BY <1>4 DEF GrantLeavesRoom, Tracked
  <1> QED
    BY <1>1, <1>2, <1>3, <1>4, StepShape DEF Tick

\* What cleanup() removes, the next check() would have found full: forgetting a
\* bucket never gives its key more than keeping it would have.
THEOREM CleanupGivesNothingAway == Spec => CleanupUnnoticed
  <1>1. ASSUME TypeInv, GrantLeavesRoom, [Next]_vars,
               NEW k \in Tracked \ Tracked', NEW s \in Settings,
               NEW c, c = [key |-> k, setting |-> s, at |-> now]
        PROVE  ~Penalised(c) /\ Available(c) = Capacity(s)
    <2> USE ScaleAssumption, NoneAssumption
    <2>1. k \in Keys /\ buckets[k] \in Bucket
      BY <1>1 DEF Tracked, TypeInv, TypeOK
    <2>2. buckets[k].tokens \in Nat /\ buckets[k].max_tokens \in Nat
      BY <2>1 DEF Bucket
    <2>3. Cleanup
      <3>1. ASSUME NEW t \in Threads, Grant(t) PROVE k \in Tracked'
        <4>1. buckets'[k] # None
          BY <1>1, <2>1, <3>1, AfterGrant DEF Tracked
        <4> QED
          BY <2>1, <4>1 DEF Tracked
      <3>2. ASSUME NEW t \in Threads, StartPenalty(t) PROVE k \in Tracked'
        <4>1. buckets'[k] # None
          BY <1>1, <2>1, <3>2, AfterPenalty DEF Tracked
        <4> QED
          BY <2>1, <4>1 DEF Tracked
      <3>3. ~UNCHANGED buckets
        BY <1>1 DEF Tracked
      <3> QED
        BY <1>1, <3>1, <3>2, <3>3, StepShape DEF Tick
    <2>4. ~Retained(buckets[k])
      BY <1>1, <2>1, <2>3 DEF Cleanup, Tracked
    <2>5. buckets[k].blocked_until # None
      <3>1. ~(buckets[k].tokens + Tolerance < buckets[k].max_tokens)
        BY <2>4 DEF Retained
      <3> QED
        BY <1>1, <2>2, <3>1 DEF GrantLeavesRoom
    <2>6. ~(now < buckets[k].blocked_until)
      BY <2>4, <2>5 DEF Retained
    <2> QED
      BY <1>1, <2>5, <2>6 DEF Penalised, Available, StartsFull
  <1>2. TypeInv /\ GrantLeavesRoom /\ [Next]_vars
          => [\A k \in Tracked \ Tracked', s \in Settings :
                 LET c == [key |-> k, setting |-> s, at |-> now]
                 IN  ~Penalised(c) /\ Available(c) = Capacity(s)]_vars
    BY <1>1
  <1>3. Init => GrantLeavesRoom
    BY DEF Init, GrantLeavesRoom, Tracked
  <1> QED
    BY <1>2, <1>3, TypeInvInit, TypeInvNext, GrantLeavesRoomNext, PTL DEF Spec, CleanupUnnoticed

\* A running penalty freezes its bucket against every thread and the cleanup.
THEOREM PenaltyIsFinal == Spec => PenaltyFreezesBucket
  <1>1. ASSUME TypeInv, [Next]_vars, NEW k \in Keys,
               buckets[k] # None, buckets[k].blocked_until # None,
               now < buckets[k].blocked_until
        PROVE  buckets'[k] = buckets[k]
    <2> USE NoneAssumption
    <2>1. /\ now \in Nat /\ buckets[k].blocked_until \in Nat
      BY <1>1, BoundsAssumption DEF TypeInv, TypeOK, Bucket
    <2>2. ASSUME NEW t \in Threads, call[t] # None, call[t].key = k PROVE Penalised(call[t])
      BY <1>1, <2>1, <2>2 DEF Penalised, TypeInv, TypeOK, ClocksOK, Call
    <2>3. ASSUME NEW t \in Threads, Grant(t) PROVE buckets'[k] = buckets[k]
      BY <1>1, <2>2, <2>3, AfterGrant DEF Grant
    <2>4. ASSUME NEW t \in Threads, StartPenalty(t) PROVE buckets'[k] = buckets[k]
      BY <1>1, <2>2, <2>4, AfterPenalty DEF StartPenalty
    <2>5. CASE Cleanup
      BY <1>1, <2>5 DEF Cleanup, Retained, Tracked
    <2>6. CASE UNCHANGED buckets
      BY <2>6
    <2> QED
      BY <1>1, <2>3, <2>4, <2>5, <2>6, StepShape DEF Tick
  <1>2. TypeInv /\ [Next]_vars
          => [\A k \in Keys : /\ buckets[k] # None
                              /\ buckets[k].blocked_until # None
                              /\ now < buckets[k].blocked_until
                              => buckets'[k] = buckets[k]]_vars
    BY <1>1
  <1> QED
    BY <1>2, TypeInvInit, TypeInvNext, PTL DEF Spec, PenaltyFreezesBucket

----------------------------------------------------------------------------
LEMMA TrackedFinite == IsFiniteSet(Tracked)
  BY KeysAssumption, FS_Subset DEF Tracked

\* A table that gains at most the key k, and only when there is room for it.
LEMMA CapKept ==
    ASSUME TableWithinCap, NEW k \in Keys,
           Tracked' \subseteq Tracked \cup {k}, ~AtCapacity(k)
    PROVE  TableWithinCap'
  <1> USE BoundsAssumption
  <1>1. Cardinality(Tracked) \in Nat /\ IsFiniteSet(Tracked)
    BY TrackedFinite, FS_CardinalityType
  <1>2. CASE k \in Tracked
    <2>1. Tracked' \subseteq Tracked
      BY <1>2
    <2>2. Cardinality(Tracked') \in Nat /\ Cardinality(Tracked') <= Cardinality(Tracked)
      BY <1>1, <2>1, FS_Subset, FS_CardinalityType
    <2> QED
      BY <1>1, <2>2 DEF TableWithinCap
  <1>3. CASE k \notin Tracked
    <2>1. Cardinality(Tracked) < MaxBuckets
      BY <1>1, <1>3 DEF AtCapacity
    <2>2. /\ IsFiniteSet(Tracked \cup {k})
          /\ Cardinality(Tracked \cup {k}) = Cardinality(Tracked) + 1
      BY <1>1, <1>3, FS_AddElement
    <2>3. /\ Cardinality(Tracked') \in Nat
          /\ Cardinality(Tracked') <= Cardinality(Tracked \cup {k})
      BY <2>2, FS_Subset, FS_CardinalityType
    <2> QED
      BY <1>1, <2>1, <2>2, <2>3 DEF TableWithinCap
  <1> QED
    BY <1>2, <1>3

\* The table stays within MAX_RATE_LIMIT_BUCKETS.
THEOREM TableStaysWithinCap == Spec => []TableWithinCap
  <1>1. Init => TableWithinCap
    <2>1. Init => Tracked = {}
      BY DEF Init, Tracked
    <2> QED
      BY <2>1, FS_EmptySet, BoundsAssumption DEF TableWithinCap
  <1>2. TypeInv /\ TableWithinCap /\ [Next]_vars => TableWithinCap'
    <2> SUFFICES ASSUME TypeInv, TableWithinCap, [Next]_vars PROVE TableWithinCap'
      OBVIOUS
    <2>1. ASSUME Tracked' \subseteq Tracked PROVE TableWithinCap'
      <3>1. /\ Cardinality(Tracked) \in Nat /\ Cardinality(Tracked') \in Nat
            /\ Cardinality(Tracked') <= Cardinality(Tracked)
        BY <2>1, TrackedFinite, FS_Subset, FS_CardinalityType
      <3> QED
        BY <3>1, BoundsAssumption DEF TableWithinCap
    <2>2. ASSUME NEW t \in Threads, Grant(t) PROVE TableWithinCap'
      <3>1. call[t].key \in Keys /\ \A k \in Keys \ {call[t].key} : buckets'[k] = buckets[k]
        BY <2>2, AfterGrant
      <3>2. PICK k \in Keys : k = call[t].key
        BY <3>1
      <3>3. ~AtCapacity(k)
        BY <2>2, <3>2 DEF Grant
      <3>4. Tracked' \subseteq Tracked \cup {k}
        BY <3>1, <3>2 DEF Tracked
      <3> QED
        BY <3>3, <3>4, CapKept
    <2>3. ASSUME NEW t \in Threads, StartPenalty(t) PROVE TableWithinCap'
      <3>1. call[t].key \in Keys /\ \A k \in Keys \ {call[t].key} : buckets'[k] = buckets[k]
        BY <2>3, AfterPenalty
      <3>2. PICK k \in Keys : k = call[t].key
        BY <3>1
      <3>3. ~AtCapacity(k)
        BY <2>3, <3>2 DEF StartPenalty
      <3>4. Tracked' \subseteq Tracked \cup {k}
        BY <3>1, <3>2 DEF Tracked
      <3> QED
        BY <3>3, <3>4, CapKept
    <2>4. CASE Cleanup
      BY <2>1, <2>4 DEF Cleanup, Tracked
    <2>5. CASE UNCHANGED buckets
      BY <2>1, <2>5 DEF Tracked
    <2> QED
      BY <2>2, <2>3, <2>4, <2>5, StepShape DEF Tick
  <1> QED
    BY <1>1, <1>2, TypeInvInit, TypeInvNext, PTL DEF Spec

----------------------------------------------------------------------------
(* The budget.  The inductive invariant is TokensConserved with the types of *)
(* the history variables: GrantsWithinBudget alone says nothing of the       *)
(* tokens still in the bucket, which the next requests will spend.           *)
HistoryOK ==
    /\ granted \in [Keys -> Nat]
    /\ since \in [Keys -> Nat]
    /\ drift \in [Keys -> Nat]
    /\ \A k \in Tracked : Credited(k) \in Nat

BudgetInv == TypeInv /\ HistoryOK /\ TokensConserved

\* A bucket that starts full and gives its first token away.
LEMMA FirstGrant ==
    ASSUME BudgetInv, NEW t \in Threads, BGrant(t), StartsFull(call[t]),
           NEW k \in Keys, k = call[t].key
    PROVE  /\ Credited(k)' = 0
           /\ granted'[k] * Scale + buckets'[k].tokens <= BurstCap * Scale
  <1> USE ScaleAssumption, CapsAssumption
  <1> DEFINE c == call[t]
  <1>1. /\ buckets'[k].last_check = c.at /\ buckets'[k].tokens = Available(c) - Scale
        /\ c \in Call /\ Available(c) = Capacity(c.setting)
    BY AfterGrant, AvailableFacts DEF BudgetInv, BGrant, Grant
  <1>2. granted'[k] = 1 /\ since'[k] = c.at /\ drift'[k] = 0
    BY DEF BudgetInv, HistoryOK, BGrant
  <1>3. c.setting.requests \in Nat /\ c.setting.requests <= BurstCap /\ c.at \in Nat
    BY <1>1, SettingFacts DEF Call
  <1>4. Scale * c.setting.requests <= Scale * BurstCap
    BY <1>3, ProductMonotone
  <1>5. Capacity(c.setting) = Scale * c.setting.requests /\ Capacity(c.setting) \in Nat
    BY <1>3 DEF Capacity
  <1> QED
    BY <1>1, <1>2, <1>3, <1>4, <1>5 DEF Credited

\* Any other locked section credits the bucket with the time Elapsed says, and
\* adds no more tokens than that time refills.
LEMMA LaterCheck ==
    ASSUME BudgetInv, NEW t \in Threads, call[t] # None, ~StartsFull(call[t]),
           NEW k \in Keys, k = call[t].key,
           buckets'[k].last_check = call[t].at, since'[k] = since[k],
           drift'[k] = drift[k] + SetBack(call[t])
    PROVE  /\ Credited(k)' \in Nat
           /\ granted[k] * Scale + Available(call[t]) <= BurstCap * Scale + RateCap * Credited(k)'
  <1> USE ScaleAssumption, CapsAssumption
  <1> DEFINE c == call[t]
             e == Elapsed(c)
  <1>1. /\ c \in Call /\ e \in Nat /\ Available(c) \in Nat
        /\ Available(c) <= buckets[k].tokens + e * Refill(c.setting)
    BY AvailableFacts DEF BudgetInv
  <1>2. k \in Tracked /\ buckets[k] \in Bucket
    BY DEF StartsFull, Tracked, BudgetInv, TypeInv, TypeOK
  <1>3. /\ buckets[k].tokens \in Nat /\ buckets[k].last_check \in Nat /\ c.at \in Nat
        /\ c.setting \in Settings
    BY <1>1, <1>2 DEF Bucket, Call
  <1>4. /\ granted[k] \in Nat /\ since[k] \in Nat /\ drift[k] \in Nat /\ Credited(k) \in Nat
    BY <1>2 DEF BudgetInv, HistoryOK
  <1>5. Credited(k)' = Credited(k) + e
    <2>1. Credited(k)' = c.at - since[k] + (drift[k] + SetBack(c))
      BY DEF Credited
    <2>2. Credited(k) = buckets[k].last_check - since[k] + drift[k]
      BY DEF Credited
    <2>3. CASE c.at > buckets[k].last_check
      <3>1. e = c.at - buckets[k].last_check /\ SetBack(c) = 0
        BY <1>3, <2>3 DEF Elapsed, SetBack
      <3> QED
        BY <1>3, <1>4, <2>1, <2>2, <3>1
    <2>4. CASE ~(c.at > buckets[k].last_check)
      <3>1. e = 0 /\ SetBack(c) = buckets[k].last_check - c.at
        BY <1>3, <2>4 DEF Elapsed, SetBack
      <3> QED
        BY <1>3, <1>4, <2>1, <2>2, <3>1
    <2> QED
      BY <2>3, <2>4
  <1>6. Refill(c.setting) \in Nat /\ Refill(c.setting) <= RateCap
    BY <1>3, SettingFacts
  <1>7. e * Refill(c.setting) \in Nat /\ e * Refill(c.setting) <= e * RateCap
    BY <1>1, <1>6, ProductMonotone
  <1>8. RateCap * (Credited(k) + e) = RateCap * Credited(k) + e * RateCap
    BY <1>1, <1>4
  <1>9. granted[k] * Scale + buckets[k].tokens <= BurstCap * Scale + RateCap * Credited(k)
    BY <1>2 DEF BudgetInv, TokensConserved
  <1>10. /\ granted[k] * Scale \in Nat /\ BurstCap * Scale \in Nat
         /\ RateCap * Credited(k) \in Nat /\ e * RateCap \in Nat
    BY <1>1, <1>4
  <1>11. granted[k] * Scale + Available(c)
           <= BurstCap * Scale + (RateCap * Credited(k) + e * RateCap)
    BY <1>1, <1>3, <1>7, <1>9, <1>10
  <1> QED
    BY <1>1, <1>4, <1>5, <1>8, <1>11

\* A step of RateBudget is a step of RateLimiter.
LEMMA BudgetStep == [BNext]_bvars => [Next]_vars
  BY DEF BNext, BGrant, BStartPenalty, BOther, bvars, Next, Check

LEMMA BudgetInvNext == BudgetInv /\ [BNext]_bvars => BudgetInv'
  <1> SUFFICES ASSUME BudgetInv, [BNext]_bvars PROVE BudgetInv'
    OBVIOUS
  <1> USE ScaleAssumption, CapsAssumption
  <1>1. TypeInv'
    BY BudgetStep, TypeInvNext DEF BudgetInv
  <1>2. ASSUME Tracked' \subseteq Tracked, \A k \in Tracked' : buckets'[k] = buckets[k],
               UNCHANGED <<granted, since, drift>>
        PROVE  BudgetInv'
    BY <1>1, <1>2 DEF BudgetInv, HistoryOK, TokensConserved, Credited
  <1>3. ASSUME NEW t \in Threads, BGrant(t) PROVE BudgetInv'
    <2> DEFINE c == call[t]
    <2>1. /\ c # None /\ c.key \in Keys
          /\ \A k \in Keys \ {c.key} : buckets'[k] = buckets[k]
          /\ buckets'[c.key].last_check = c.at
          /\ buckets'[c.key].tokens = Available(c) - Scale
          /\ Available(c) \in Nat
      BY <1>3, AfterGrant, AvailableFacts DEF BGrant, Grant, BudgetInv
    <2>2. PICK k \in Keys : k = c.key
      BY <2>1
    <2>3. \A j \in Keys \ {k} : /\ granted'[j] = granted[j] /\ since'[j] = since[j]
                                /\ drift'[j] = drift[j] /\ buckets'[j] = buckets[j]
      BY <1>3, <2>1, <2>2 DEF BGrant, BudgetInv, HistoryOK
    <2>4. /\ Credited(k)' \in Nat
          /\ granted'[k] * Scale + buckets'[k].tokens <= BurstCap * Scale + RateCap * Credited(k)'
      <3>1. CASE StartsFull(c)
        <4>1. /\ Credited(k)' = 0
              /\ granted'[k] * Scale + buckets'[k].tokens <= BurstCap * Scale
          BY <1>3, <2>2, <3>1, FirstGrant
        <4> QED
          BY <4>1
      <3>2. CASE ~StartsFull(c)
        <4>1. /\ granted'[k] = granted[k] + 1 /\ since'[k] = since[k]
              /\ drift'[k] = drift[k] + SetBack(c) /\ granted[k] \in Nat
          BY <1>3, <2>2, <3>2 DEF BGrant, BudgetInv, HistoryOK
        <4>2. /\ Credited(k)' \in Nat
              /\ granted[k] * Scale + Available(c) <= BurstCap * Scale + RateCap * Credited(k)'
          BY <2>1, <2>2, <3>2, <4>1, LaterCheck
        <4>3. (granted[k] + 1) * Scale = granted[k] * Scale + Scale
          BY <4>1
        <4>4. granted'[k] * Scale + buckets'[k].tokens = granted[k] * Scale + Available(c)
          BY <2>1, <2>2, <4>1, <4>3
        <4> QED
          BY <4>2, <4>4
      <3> QED
        BY <3>1, <3>2
    <2>5. granted' \in [Keys -> Nat] /\ since' \in [Keys -> Nat] /\ drift' \in [Keys -> Nat]
      <3>1. c \in Call /\ c.at \in Nat
        BY <2>1 DEF BudgetInv, TypeInv, TypeOK, Call
      <3>2. ~StartsFull(c) => SetBack(c) \in Nat
        <4>1. ~StartsFull(c) => buckets[c.key] \in Bucket
          BY <2>1 DEF StartsFull, BudgetInv, TypeInv, TypeOK
        <4> QED
          BY <3>1, <4>1 DEF SetBack, Bucket
      <3>3. CASE StartsFull(c)
        BY <1>3, <3>1, <3>3 DEF BGrant, BudgetInv, HistoryOK
      <3>4. CASE ~StartsFull(c)
        BY <1>3, <3>2, <3>4 DEF BGrant, BudgetInv, HistoryOK
      <3> QED
        BY <3>3, <3>4
    <2>6. \A j \in Tracked' \ {k} : j \in Tracked
      BY <2>3 DEF Tracked
    <2>7. \A j \in Tracked' :
             /\ Credited(j)' \in Nat
             /\ granted'[j] * Scale + buckets'[j].tokens <= BurstCap * Scale + RateCap * Credited(j)'
      BY <2>3, <2>4, <2>6 DEF Credited, BudgetInv, HistoryOK, TokensConserved, Tracked
    <2> QED
      BY <1>1, <2>5, <2>7 DEF BudgetInv, HistoryOK, TokensConserved
  <1>4. ASSUME NEW t \in Threads, BStartPenalty(t) PROVE BudgetInv'
    <2> DEFINE c == call[t]
    <2>1. /\ c # None /\ c.key \in Keys /\ ~StartsFull(c)
          /\ \A k \in Keys \ {c.key} : buckets'[k] = buckets[k]
          /\ buckets'[c.key].last_check = c.at
          /\ buckets'[c.key].tokens = Available(c)
      BY <1>4, AfterPenalty DEF BStartPenalty, StartPenalty, BudgetInv
    <2>2. PICK k \in Keys : k = c.key
      BY <2>1
    <2>3. /\ granted' = granted /\ since' = since
          /\ drift' = [drift EXCEPT ![k] = @ + SetBack(c)]
      BY <1>4, <2>2 DEF BStartPenalty
    <2>4. drift'[k] = drift[k] + SetBack(c) /\ \A j \in Keys \ {k} : drift'[j] = drift[j]
      BY <2>3 DEF BudgetInv, HistoryOK
    <2>5. /\ Credited(k)' \in Nat
          /\ granted'[k] * Scale + buckets'[k].tokens <= BurstCap * Scale + RateCap * Credited(k)'
      BY <2>1, <2>2, <2>3, <2>4, LaterCheck
    <2>6. SetBack(c) \in Nat
      <3>1. c \in Call /\ c.at \in Nat
        BY <2>1 DEF BudgetInv, TypeInv, TypeOK, Call
      <3>2. buckets[c.key] \in Bucket
        BY <2>1 DEF StartsFull, BudgetInv, TypeInv, TypeOK
      <3> QED
        BY <3>1, <3>2 DEF SetBack, Bucket
    <2>7. drift' \in [Keys -> Nat]
      BY <2>3, <2>6 DEF BudgetInv, HistoryOK
    <2>8. \A j \in Tracked' \ {k} : j \in Tracked /\ buckets'[j] = buckets[j]
      BY <2>1, <2>2 DEF Tracked
    <2>9. \A j \in Tracked' :
             /\ Credited(j)' \in Nat
             /\ granted'[j] * Scale + buckets'[j].tokens <= BurstCap * Scale + RateCap * Credited(j)'
      BY <2>3, <2>4, <2>5, <2>8 DEF Credited, BudgetInv, HistoryOK, TokensConserved, Tracked
    <2> QED
      BY <1>1, <2>3, <2>7, <2>9 DEF BudgetInv, HistoryOK, TokensConserved
  <1>5. CASE BOther
    BY <1>2, <1>5 DEF BOther, Enter, DenyNewKey, DenyPenalised, Cleanup, Tick, Tracked
  <1>6. CASE UNCHANGED bvars
    BY <1>2, <1>6 DEF bvars, vars, Tracked
  <1> QED
    BY <1>3, <1>4, <1>5, <1>6 DEF BNext

LEMMA BudgetInvariant == BSpec => []BudgetInv
  <1>1. BInit => BudgetInv
    BY TypeInvInit DEF BInit, BudgetInv, HistoryOK, TokensConserved, Init, Tracked
  <1> QED
    BY <1>1, BudgetInvNext, PTL DEF BSpec

\* Tokens are conserved, with any number of racing threads.
THEOREM Conservation == BSpec => []TokensConserved
  <1>1. BudgetInv => TokensConserved
    BY DEF BudgetInv
  <1> QED
    BY <1>1, BudgetInvariant, PTL

\* The requests a key is granted stay within the budget of its settings.
THEOREM BudgetHolds == BSpec => []GrantsWithinBudget
  <1>1. ASSUME BudgetInv, NEW k \in Tracked
        PROVE  granted[k] * Scale <= BurstCap * Scale + RateCap * (now - since[k] + drift[k])
    <2> USE ScaleAssumption, CapsAssumption
    <2>1. k \in Keys /\ buckets[k] # None
      BY <1>1 DEF Tracked
    <2>2. buckets[k] \in Bucket
      BY <1>1, <2>1 DEF BudgetInv, TypeInv, TypeOK
    <2>3. /\ buckets[k].tokens \in Nat /\ buckets[k].last_check \in Nat
          /\ buckets[k].last_check <= now /\ now \in Nat
      BY <1>1, <2>2, BoundsAssumption DEF Bucket, BudgetInv, TypeInv, TypeOK, ClocksOK
    <2>4. /\ granted[k] \in Nat /\ since[k] \in Nat /\ drift[k] \in Nat /\ Credited(k) \in Nat
      BY <1>1, <2>1 DEF BudgetInv, HistoryOK
    <2> DEFINE w == now - since[k] + drift[k]
    <2>5. w \in Nat /\ Credited(k) <= w
      BY <2>3, <2>4 DEF Credited
    <2>6. RateCap * Credited(k) <= RateCap * w
      BY <2>4, <2>5, ProductMonotone
    <2>7. granted[k] * Scale + buckets[k].tokens <= BurstCap * Scale + RateCap * Credited(k)
      BY <1>1 DEF BudgetInv, TokensConserved
    <2>8. granted[k] * Scale \in Nat /\ BurstCap * Scale \in Nat
          /\ RateCap * Credited(k) \in Nat /\ RateCap * w \in Nat
      BY <2>4, <2>5
    <2> HIDE DEF w
    <2>9. granted[k] * Scale <= BurstCap * Scale + RateCap * w
      BY <2>3, <2>6, <2>7, <2>8
    <2> QED
      BY <2>9 DEF w
  <1>2. BudgetInv => GrantsWithinBudget
    BY <1>1 DEF GrantsWithinBudget
  <1> QED
    BY <1>2, BudgetInvariant, PTL

=============================================================================
