--------------------------- MODULE ListenerProofs ---------------------------
(***************************************************************************)
(* Proofs about Listener, for any number of connections, permits, versions *)
(* and signals.                                                            *)
(***************************************************************************)
EXTENDS Listener, FiniteSetTheorems, TLAPS

LEMMA TypeNext == TypeOK /\ [Next]_vars => TypeOK'
  <1> SUFFICES ASSUME TypeOK, [Next]_vars PROVE TypeOK'
    OBVIOUS
  <1> USE BoundsAssumption, VersionsAssumption DEF Versions, Gens, TypeOK,
          reloaderVars, listenerVars, connVars
  <1>1. CASE EditFile
    BY <1>1 DEF EditFile
  <1>2. CASE SendSighup
    BY <1>2 DEF SendSighup
  <1>3. CASE LoadFile
    BY <1>3 DEF LoadFile
  <1>4. CASE SwapConfig
    BY <1>4 DEF SwapConfig
  <1>5. CASE NotifyOne
    BY <1>5 DEF NotifyOne
  <1>6. CASE CloneConfig
    BY <1>6 DEF CloneConfig
  <1>7. CASE Bind
    BY <1>7 DEF Bind
  <1>8. CASE FailBind
    BY <1>8 DEF FailBind
  <1>9. CASE WakeUp
    BY <1>9 DEF WakeUp
  <1>10. CASE Notified
    BY <1>10 DEF Notified
  <1>11. ASSUME NEW c \in Conns, Accept(c) PROVE TypeOK'
    <2>1. CASE free[gen] > 0
      <3>1. /\ free' = [free EXCEPT ![gen] = @ - 1]
            /\ cst' = [cst EXCEPT ![c] = "open"] /\ cgen' = [cgen EXCEPT ![c] = gen]
            /\ UNCHANGED <<file, sighup, signals, permit, reloaderVars, listenerVars>>
        BY <1>11, <2>1 DEF Accept
      <3>2. free[gen] - 1 \in Nat
        BY <2>1
      <3>3. free' \in [Gens -> Nat] /\ cst' \in [Conns -> {"closed", "open", "tunnel"}]
            /\ cgen' \in [Conns -> Gens]
        BY <3>1, <3>2
      <3> QED
        BY <3>1, <3>3
    <2>2. CASE ~(free[gen] > 0)
      BY <1>11, <2>2 DEF Accept
    <2> QED
      BY <2>1, <2>2
  <1>12. ASSUME NEW c \in Conns, Finish(c) PROVE TypeOK'
    BY <1>12 DEF Finish, ReturnPermit
  <1>13. ASSUME NEW c \in Conns, EndTunnel(c) PROVE TypeOK'
    BY <1>13 DEF EndTunnel
  <1>14. CASE UNCHANGED vars
    BY <1>14 DEF vars
  <1> QED
    BY <1>1, <1>2, <1>3, <1>4, <1>5, <1>6, <1>7, <1>8, <1>9, <1>10, <1>11, <1>12, <1>13, <1>14
       DEF Next, Operator, Reloader, Restart

LEMMA TypeInit == Init => TypeOK
  <1> SUFFICES ASSUME Init PROVE TypeOK
    OBVIOUS
  <1>1. 0 \in Versions /\ 0 \in Gens /\ 0 \in 0..MaxSignals /\ 0 \in 0..MaxBindErrors
    BY BoundsAssumption DEF Versions, Gens
  <1>2. /\ free \in [Gens -> Nat]
        /\ cst \in [Conns -> {"closed", "open", "tunnel"}]
        /\ cgen \in [Conns -> Gens]
    BY <1>1, BoundsAssumption DEF Init
  <1>3. sighup \in BOOLEAN /\ permit \in BOOLEAN
    BY DEF Init
  <1> QED
    BY <1>1, <1>2, <1>3 DEF Init, TypeOK

\* The type invariant holds in every reachable state.
THEOREM TypeCorrect == Spec => []TypeOK
  BY TypeInit, TypeNext, PTL DEF Spec

----------------------------------------------------------------------------
\* No reload is overlooked.
THEOREM NoReloadOverlooked == Spec => []StaleListenerNotified
  <1>1. Init => StaleListenerNotified
    BY DEF Init, StaleListenerNotified
  <1>2. StaleListenerNotified /\ [Next]_vars => StaleListenerNotified'
    <2> SUFFICES ASSUME StaleListenerNotified, [Next]_vars PROVE StaleListenerNotified'
      OBVIOUS
    <2> USE DEF StaleListenerNotified, reloaderVars, listenerVars, connVars
    <2>1. CASE Operator
      BY <2>1 DEF Operator, EditFile, SendSighup
    <2>2. CASE Reloader
      BY <2>2 DEF Reloader, LoadFile, SwapConfig, NotifyOne
    <2>3. CASE Restart
      BY <2>3 DEF Restart, CloneConfig, Bind, FailBind, WakeUp, Notified
    <2>4. ASSUME NEW c \in Conns, Accept(c) \/ Finish(c) \/ EndTunnel(c)
          PROVE  StaleListenerNotified'
      BY <2>4 DEF Accept, Finish, EndTunnel
    <2>5. CASE UNCHANGED vars
      BY <2>5 DEF vars
    <2> QED
      BY <2>1, <2>2, <2>3, <2>4, <2>5 DEF Next
  <1> QED
    BY <1>1, <1>2, PTL DEF Spec

----------------------------------------------------------------------------
(* Why restarts are justified: every reload is worth one notification, which *)
(* is stored, then held by a listener on its way to the next bind, then      *)
(* spent on that bind; a failed bind gives it back to the next attempt.  The *)
(* process starts with one in hand.                                          *)
Stored == IF permit THEN 1 ELSE 0
InHand == IF lpc \in {"top", "binding", "sleeping"} THEN 1 ELSE 0

NotificationsSpent == gen + Stored + InHand <= reloads + 1

\* The listener restarts only for a reload.
THEOREM OnlyReloadsRestart == Spec => []RestartsJustified
  <1> USE DEF NotificationsSpent, Stored, InHand
  <1>1. Init => NotificationsSpent
    BY DEF Init
  <1>2. TypeOK /\ NotificationsSpent /\ [Next]_vars => NotificationsSpent'
    <2> SUFFICES ASSUME TypeOK, NotificationsSpent, [Next]_vars PROVE NotificationsSpent'
      OBVIOUS
    <2>1. gen \in Nat /\ reloads \in Nat
      BY BoundsAssumption DEF TypeOK, Gens
    <2> USE <2>1 DEF reloaderVars, listenerVars, connVars
    <2>2. CASE Operator
      BY <2>2 DEF Operator, EditFile, SendSighup
    <2>3. CASE Reloader
      BY <2>3 DEF Reloader, LoadFile, SwapConfig, NotifyOne
    <2>4. CASE Restart
      BY <2>4 DEF Restart, CloneConfig, Bind, FailBind, WakeUp, Notified
    <2>5. ASSUME NEW c \in Conns, Accept(c) \/ Finish(c) \/ EndTunnel(c)
          PROVE  NotificationsSpent'
      BY <2>5 DEF Accept, Finish, EndTunnel
    <2>6. CASE UNCHANGED vars
      BY <2>6 DEF vars
    <2> QED
      BY <2>2, <2>3, <2>4, <2>5, <2>6 DEF Next
  <1>3. TypeOK /\ NotificationsSpent => RestartsJustified
    BY BoundsAssumption DEF TypeOK, Gens, RestartsJustified
  <1> QED
    BY <1>1, <1>2, <1>3, TypeInit, TypeNext, PTL DEF Spec

----------------------------------------------------------------------------
\* Generations that are still to come have a full semaphore and no connection;
\* without this a bind could hand out permits its semaphore has already given.
FutureUnused == \A c \in Conns : cgen[c] <= gen

PermitInv == TypeOK /\ FutureUnused /\ PermitsConserved

LEMMA HoldersFinite ==
    ASSUME NEW g
    PROVE  IsFiniteSet(Holders(g)) /\ Cardinality(Holders(g)) \in Nat
  BY BoundsAssumption, FS_Subset, FS_CardinalityType DEF Holders

\* A connection that becomes open takes its permit from its own generation.
LEMMA AcceptKeepsPermits ==
    ASSUME PermitInv, NEW c \in Conns, Accept(c)
    PROVE  PermitsConserved'
  <1> USE BoundsAssumption
  <1>1. CASE free[gen] > 0
    <2>1. /\ free' = [free EXCEPT ![gen] = @ - 1]
          /\ cst' = [cst EXCEPT ![c] = "open"]
          /\ cgen' = [cgen EXCEPT ![c] = gen]
          /\ cst[c] = "closed" /\ gen \in Gens /\ gen' = gen
      BY <1>1 DEF Accept, PermitInv, TypeOK, listenerVars
    <2>2. ASSUME NEW g \in Gens, g # gen PROVE free'[g] = free[g] /\ Holders(g)' = Holders(g)
      BY <2>1, <2>2 DEF Holders, PermitInv, TypeOK
    <2>3. c \notin Holders(gen)
      BY <2>1 DEF Holders
    <2>4. {b \in Conns : cst'[b] = "open" /\ cgen'[b] = gen} = Holders(gen) \cup {c}
      BY <2>1 DEF Holders, PermitInv, TypeOK
    <2>5. Cardinality(Holders(gen) \cup {c}) = Cardinality(Holders(gen)) + 1
      BY <2>3, HoldersFinite, FS_AddElement
    <2>6. free'[gen] = free[gen] - 1 /\ free[gen] \in Nat
      BY <2>1 DEF PermitInv, TypeOK
    <2>7. free[gen] + Cardinality(Holders(gen)) = MaxConns
      BY <2>1 DEF PermitInv, PermitsConserved
    <2>8. ASSUME NEW g \in Gens, g = gen
          PROVE  free'[g] + Cardinality(Holders(g)') = MaxConns
      <3>1. Holders(g)' = Holders(gen) \cup {c}
        BY <2>4, <2>8 DEF Holders
      <3> QED
        BY <1>1, <2>5, <2>6, <2>7, <2>8, <3>1, HoldersFinite
    <2>9. ASSUME NEW g \in Gens, g # gen
          PROVE  free'[g] + Cardinality(Holders(g)') = MaxConns
      BY <2>2, <2>9 DEF PermitInv, PermitsConserved
    <2>10. \A g \in Gens : free'[g] + Cardinality(Holders(g)') = MaxConns
      BY <2>8, <2>9
    <2> QED
      BY <2>10 DEF PermitsConserved
  <1>2. CASE ~(free[gen] > 0)
    BY <1>2 DEF Accept, PermitInv, PermitsConserved, Holders, connVars
  <1> QED
    BY <1>1, <1>2

\* A task that ends gives the permit back to the generation it came from.
LEMMA FinishKeepsPermits ==
    ASSUME PermitInv, NEW c \in Conns, Finish(c)
    PROVE  PermitsConserved'
  <1> USE BoundsAssumption
  <1>1. PICK h \in Gens : h = cgen[c]
    BY DEF PermitInv, TypeOK
  <1>2. /\ free' = [free EXCEPT ![h] = @ + 1] /\ cgen' = cgen
        /\ cst[c] = "open" /\ cst'[c] # "open"
        /\ \A b \in Conns \ {c} : cst'[b] = cst[b]
    BY <1>1 DEF Finish, ReturnPermit, PermitInv, TypeOK
  <1>3. ASSUME NEW g \in Gens, g # h PROVE free'[g] = free[g] /\ Holders(g)' = Holders(g)
    BY <1>1, <1>2, <1>3 DEF Holders, PermitInv, TypeOK
  <1>4. Holders(h)' = Holders(h) \ {c} /\ c \in Holders(h)
    BY <1>1, <1>2 DEF Holders
  <1>5. Cardinality(Holders(h) \ {c}) = Cardinality(Holders(h)) - 1
    BY <1>4, HoldersFinite, FS_RemoveElement
  <1>6. free'[h] = free[h] + 1 /\ free[h] \in Nat
    BY <1>1, <1>2 DEF PermitInv, TypeOK
  <1>7. free'[h] + Cardinality(Holders(h)') = MaxConns
    BY <1>4, <1>5, <1>6, HoldersFinite DEF PermitInv, PermitsConserved
  <1>8. \A g \in Gens : free'[g] + Cardinality(Holders(g)') = MaxConns
    BY <1>3, <1>7 DEF PermitInv, PermitsConserved
  <1> QED
    BY <1>8 DEF PermitsConserved

\* A new semaphore starts with all its permits and nobody holding one.
LEMMA BindKeepsPermits ==
    ASSUME PermitInv, Bind
    PROVE  PermitsConserved'
  <1> USE BoundsAssumption
  <1>1. gen \in Nat /\ gen + 1 \in Gens
    BY DEF Bind, PermitInv, TypeOK, Gens
  <1>2. PICK h \in Gens : h = gen + 1
    BY <1>1
  <1>3. Holders(h) = {}
    BY <1>1, <1>2 DEF Holders, PermitInv, FutureUnused, TypeOK, Gens
  <1>4. free[h] = MaxConns /\ free[h] \in Nat
    <2>1. Cardinality(Holders(h)) = 0
      BY <1>3, FS_EmptySet
    <2>2. free[h] \in Nat /\ free[h] + Cardinality(Holders(h)) = MaxConns
      BY DEF PermitInv, PermitsConserved, TypeOK
    <2> QED
      BY <2>1, <2>2
  <1>5. free' = free
    BY <1>2, <1>4 DEF Bind, PermitInv, TypeOK
  <1>6. \A g \in Gens : Holders(g)' = Holders(g)
    BY DEF Bind, Holders
  <1> QED
    BY <1>5, <1>6 DEF PermitInv, PermitsConserved

LEMMA PermitInvNext == PermitInv /\ [Next]_vars => PermitInv'
  <1> SUFFICES ASSUME PermitInv, [Next]_vars PROVE PermitInv'
    OBVIOUS
  <1>1. TypeOK'
    BY TypeNext DEF PermitInv
  <1>2. FutureUnused'
    <2> USE BoundsAssumption DEF PermitInv, TypeOK, Gens, FutureUnused, reloaderVars,
            listenerVars, connVars
    <2>1. CASE Operator \/ Reloader
      BY <2>1 DEF Operator, EditFile, SendSighup, Reloader, LoadFile, SwapConfig, NotifyOne
    <2>2. CASE Restart
      BY <2>2 DEF Restart, CloneConfig, Bind, FailBind, WakeUp, Notified
    <2>3. ASSUME NEW c \in Conns, Accept(c) \/ Finish(c) \/ EndTunnel(c) PROVE FutureUnused'
      <3>1. gen' = gen /\ (cgen' = cgen \/ cgen' = [cgen EXCEPT ![c] = gen])
        BY <2>3 DEF Accept, Finish, EndTunnel
      <3>2. gen \in Nat /\ cgen \in [Conns -> Gens] /\ \A b \in Conns : cgen[b] <= gen
        OBVIOUS
      <3>3. \A b \in Conns : cgen'[b] = cgen[b] \/ cgen'[b] = gen
        BY ONLY <3>1, <3>2
      <3> QED
        BY ONLY <3>1, <3>2, <3>3 DEF FutureUnused
    <2>4. CASE UNCHANGED vars
      BY <2>4 DEF vars
    <2> QED
      BY <2>1, <2>2, <2>3, <2>4 DEF Next
  <1>3. PermitsConserved'
    <2>1. ASSUME UNCHANGED connVars PROVE PermitsConserved'
      BY <2>1 DEF PermitInv, PermitsConserved, Holders, connVars
    <2>2. CASE Operator \/ Reloader
      BY <2>1, <2>2 DEF Operator, EditFile, SendSighup, Reloader, LoadFile, SwapConfig, NotifyOne
    <2>3. CASE Restart
      BY <2>1, <2>3, BindKeepsPermits DEF Restart, CloneConfig, FailBind, WakeUp, Notified
    <2>4. ASSUME NEW c \in Conns, EndTunnel(c) PROVE PermitsConserved'
      <3>1. free' = free /\ \A g \in Gens : Holders(g)' = Holders(g)
        BY <2>4 DEF EndTunnel, Holders, PermitInv, TypeOK
      <3> QED
        BY <3>1 DEF PermitInv, PermitsConserved
    <2>5. CASE UNCHANGED vars
      BY <2>1, <2>5 DEF vars
    <2> QED
      BY <2>2, <2>3, <2>4, <2>5, AcceptKeepsPermits, FinishKeepsPermits DEF Next
  <1> QED
    BY <1>1, <1>2, <1>3 DEF PermitInv

\* No permit is lost or made up across restarts.
THEOREM NoPermitLost == Spec => []PermitsConserved
  <1>1. Init => PermitInv
    <2> SUFFICES ASSUME Init PROVE PermitInv
      OBVIOUS
    <2>1. \A g \in Gens : Holders(g) = {} /\ free[g] = MaxConns
      BY DEF Init, Holders
    <2>2. PermitsConserved
      BY <2>1, FS_EmptySet, BoundsAssumption DEF PermitsConserved
    <2>3. FutureUnused
      BY DEF Init, FutureUnused
    <2> QED
      BY <2>2, <2>3, TypeInit DEF PermitInv
  <1>2. PermitInv => PermitsConserved
    BY DEF PermitInv
  <1> QED
    BY <1>1, <1>2, PermitInvNext, PTL DEF Spec

=============================================================================
