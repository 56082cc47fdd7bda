------------------------------ MODULE Listener ------------------------------
(***************************************************************************)
(* The listener loop of docker-proxy's main(), the SIGHUP reloader task,   *)
(* the configuration they share and the connections they accept.           *)
(*                                                                         *)
(* The reloader swaps the configuration in under a lock and only then      *)
(* calls notify_one(); the listener clones the configuration, binds, and   *)
(* serves until notified.  tokio's Notify (external) stores one permit: a  *)
(* notification sent while nobody waits is kept, further ones are merged.  *)
(* Every bind creates a new semaphore, and a connection returns its permit *)
(* to the semaphore it came from.                                          *)
(*                                                                         *)
(* The configuration file is a sequence of versions; what the listener     *)
(* tells apart is only whether a version loads and whether it can be bound.*)
(***************************************************************************)
EXTENDS Naturals, FiniteSets

CONSTANTS
    Conns,          \* client connections
    MaxConns,       \* MAX_CONCURRENT_CONNS
    BadFiles,       \* versions of the file that load_from_path rejects
    DeadConfigs,    \* versions whose address or TLS files create_listener rejects
    MaxVersion,     \* bound on the edits of the file
    MaxSignals,     \* bound on the SIGHUPs
    MaxBindErrors   \* bound on the bind failures that are not the version's fault

Versions == 0..MaxVersion

\* Generations of the listener: one per successful bind, 0 before the first.
Gens == 0..(MaxSignals + 1)

ASSUME BoundsAssumption ==
    /\ MaxConns \in Nat /\ MaxVersion \in Nat /\ MaxSignals \in Nat /\ MaxBindErrors \in Nat
    /\ IsFiniteSet(Conns)

\* The process only starts with a file it can load.
ASSUME VersionsAssumption == BadFiles \subseteq Versions \ {0} /\ DeadConfigs \subseteq Versions

VARIABLES
    file,           \* version on disk
    sighup,         \* a SIGHUP is pending; further ones merge with it
    signals,        \* SIGHUPs sent
    config_holder,  \* version behind the RwLock
    rpc,            \* the reloader: "waiting", "loaded" or "swapped"
    loaded,         \* the version it has loaded
    permit,         \* the permit stored in reload_notify
    reloads,        \* calls of notify_one()
    lpc,            \* main(): "top", "binding", "serving", "sleeping" or "exited"
    bound,          \* its clone of the configuration
    gen,            \* generation of its listener and semaphore
    bindErrors,     \* bind failures that were not the version's fault
    free,           \* permits left in each generation's semaphore
    cst,            \* each connection: "closed", "open" or "tunnel"
    cgen            \* the generation that accepted it

reloaderVars == <<config_holder, rpc, loaded, reloads>>
listenerVars == <<lpc, bound, gen, bindErrors>>
connVars == <<free, cst, cgen>>
vars == <<file, sighup, signals, permit, reloaderVars, listenerVars, connVars>>

----------------------------------------------------------------------------
Init ==
    /\ file = 0 /\ sighup = FALSE /\ signals = 0
    /\ config_holder = 0 /\ rpc = "waiting" /\ loaded = 0
    /\ permit = FALSE /\ reloads = 0
    /\ lpc = "top" /\ bound = 0 /\ gen = 0 /\ bindErrors = 0
    /\ free = [g \in Gens |-> MaxConns]
    /\ cst = [c \in Conns |-> "closed"]
    /\ cgen = [c \in Conns |-> 0]

Running == lpc # "exited"

(* The operator.                                                            *)
EditFile ==
    /\ Running
    /\ file < MaxVersion
    /\ file' = file + 1
    /\ UNCHANGED <<sighup, signals, permit, reloaderVars, listenerVars, connVars>>

SendSighup ==
    /\ Running
    /\ signals < MaxSignals
    /\ signals' = signals + 1
    /\ sighup' = TRUE
    /\ UNCHANGED <<file, permit, reloaderVars, listenerVars, connVars>>

(* The reloader.  A file that does not load leaves everything as it is.     *)
\* Mutant: a file that does not load still wakes the listener up.
LoadFileAnyway ==
    /\ Running /\ rpc = "waiting" /\ sighup
    /\ sighup' = FALSE
    /\ IF file \in BadFiles
       THEN permit' = TRUE /\ UNCHANGED <<rpc, loaded>>
       ELSE rpc' = "loaded" /\ loaded' = file /\ UNCHANGED permit
    /\ UNCHANGED <<file, signals, config_holder, reloads, listenerVars, connVars>>

LoadFile ==
    /\ Running /\ rpc = "waiting" /\ sighup
    /\ sighup' = FALSE
    /\ IF file \in BadFiles
       THEN UNCHANGED <<rpc, loaded>>
       ELSE rpc' = "loaded" /\ loaded' = file
    /\ UNCHANGED <<file, signals, permit, config_holder, reloads, listenerVars, connVars>>

SwapConfig ==
    /\ Running /\ rpc = "loaded"
    /\ config_holder' = loaded
    /\ rpc' = "swapped"
    /\ UNCHANGED <<file, sighup, signals, permit, loaded, reloads, listenerVars, connVars>>

\* Mutant: notify_waiters() instead, which reaches only a listener that waits.
NotifyWaiters ==
    /\ Running /\ rpc = "swapped"
    /\ permit' = (permit \/ lpc = "serving")
    /\ reloads' = reloads + 1
    /\ rpc' = "waiting"
    /\ UNCHANGED <<file, sighup, signals, config_holder, loaded, listenerVars, connVars>>

NotifyOne ==
    /\ Running /\ rpc = "swapped"
    /\ permit' = TRUE
    /\ reloads' = reloads + 1
    /\ rpc' = "waiting"
    /\ UNCHANGED <<file, sighup, signals, config_holder, loaded, listenerVars, connVars>>

(* The listener loop.                                                       *)
CloneConfig ==
    /\ lpc = "top"
    /\ bound' = config_holder
    /\ lpc' = "binding"
    /\ UNCHANGED <<file, sighup, signals, permit, reloaderVars, gen, bindErrors, connVars>>

\* A new listener and, with it, a semaphore with all its permits.
Bind ==
    /\ lpc = "binding" /\ bound \notin DeadConfigs
    /\ gen + 1 \in Gens
    /\ gen' = gen + 1
    /\ free' = [free EXCEPT ![gen + 1] = MaxConns]
    /\ lpc' = "serving"
    /\ UNCHANGED <<file, sighup, signals, permit, reloaderVars, bound, bindErrors, cst, cgen>>

\* The first bind must succeed; a later one is tried again after five seconds.
FailBind ==
    /\ lpc = "binding"
    /\ \/ bound \in DeadConfigs /\ UNCHANGED bindErrors
       \/ bindErrors < MaxBindErrors /\ bindErrors' = bindErrors + 1
    /\ lpc' = IF gen = 0 THEN "exited" ELSE "sleeping"
    /\ UNCHANGED <<file, sighup, signals, permit, reloaderVars, bound, gen, connVars>>

\* Mutant: after the pause the bind is tried again with the configuration it had.
WakeUpToBind ==
    /\ lpc = "sleeping"
    /\ lpc' = "binding"
    /\ UNCHANGED <<file, sighup, signals, permit, reloaderVars, bound, gen, bindErrors, connVars>>

WakeUp ==
    /\ lpc = "sleeping"
    /\ lpc' = "top"
    /\ UNCHANGED <<file, sighup, signals, permit, reloaderVars, bound, gen, bindErrors, connVars>>

\* reload_notify.notified() wins the select!: the listener is dropped.
Notified ==
    /\ lpc = "serving" /\ permit
    /\ permit' = FALSE
    /\ lpc' = "top"
    /\ UNCHANGED <<file, sighup, signals, reloaderVars, bound, gen, bindErrors, connVars>>

\* Mutant: a connection is accepted without looking for a permit.
AcceptUnchecked(c) ==
    /\ lpc = "serving" /\ cst[c] = "closed"
    /\ free' = [free EXCEPT ![gen] = @ - 1]
    /\ cst' = [cst EXCEPT ![c] = "open"]
    /\ cgen' = [cgen EXCEPT ![c] = gen]
    /\ UNCHANGED <<file, sighup, signals, permit, reloaderVars, listenerVars>>

\* listener.accept() wins: without a permit the connection is dropped.
Accept(c) ==
    /\ lpc = "serving" /\ cst[c] = "closed"
    /\ IF free[gen] > 0
       THEN /\ free' = [free EXCEPT ![gen] = @ - 1]
            /\ cst' = [cst EXCEPT ![c] = "open"]
            /\ cgen' = [cgen EXCEPT ![c] = gen]
       ELSE UNCHANGED connVars
    /\ UNCHANGED <<file, sighup, signals, permit, reloaderVars, listenerVars>>

(* A connection's task ends, and its permit with it: because the connection *)
(* is served, broken or timed out, or because it was upgraded, in which     *)
(* case the tunnel goes on in a task of its own.                            *)
\* Mutant: the permit goes to the current listener's semaphore.
ReturnPermitToCurrent(c) == free' = [free EXCEPT ![gen] = @ + 1]

ReturnPermit(c) == free' = [free EXCEPT ![cgen[c]] = @ + 1]

Finish(c) ==
    /\ cst[c] = "open"
    /\ \E s \in {"closed", "tunnel"} : cst' = [cst EXCEPT ![c] = s]
    /\ ReturnPermit(c)
    /\ UNCHANGED <<file, sighup, signals, permit, reloaderVars, listenerVars, cgen>>

EndTunnel(c) ==
    /\ cst[c] = "tunnel"
    /\ cst' = [cst EXCEPT ![c] = "closed"]
    /\ UNCHANGED <<file, sighup, signals, permit, reloaderVars, listenerVars, free, cgen>>

Operator == EditFile \/ SendSighup
Reloader == LoadFile \/ SwapConfig \/ NotifyOne
Restart  == CloneConfig \/ Bind \/ FailBind \/ WakeUp \/ Notified

Next ==
    \/ Operator
    \/ Reloader
    \/ Restart
    \/ \E c \in Conns : Accept(c) \/ Finish(c) \/ EndTunnel(c)

Spec == Init /\ [][Next]_vars

\* The runtime keeps polling both tasks.  select! picks a ready branch at random,
\* so accepting connections cannot keep out the notification forever.
FairSpec == Spec /\ WF_vars(Reloader) /\ WF_vars(Restart)

----------------------------------------------------------------------------
(* Properties.                                                              *)

\* Every variable keeps its type.
TypeOK ==
    /\ file \in Versions /\ sighup \in BOOLEAN /\ signals \in 0..MaxSignals
    /\ config_holder \in Versions /\ loaded \in Versions
    /\ rpc \in {"waiting", "loaded", "swapped"}
    /\ permit \in BOOLEAN /\ reloads \in Nat
    /\ lpc \in {"top", "binding", "serving", "sleeping", "exited"}
    /\ bound \in Versions /\ gen \in Gens /\ bindErrors \in 0..MaxBindErrors
    /\ free \in [Gens -> Nat]
    /\ cst \in [Conns -> {"closed", "open", "tunnel"}]
    /\ cgen \in [Conns -> Gens]

\* Permits are neither lost nor made up, across any number of restarts: each
\* generation's semaphore has all its permits but those its connections hold.
Holders(g) == {c \in Conns : cst[c] = "open" /\ cgen[c] = g}

PermitsConserved == \A g \in Gens : free[g] + Cardinality(Holders(g)) = MaxConns

\* No reload is overlooked: a listener that is bound, or about to be, with a
\* configuration that is no longer current has a notification waiting or on its
\* way, although the swap and the notification are two steps.
StaleListenerNotified ==
    lpc \in {"binding", "serving"} /\ bound # config_holder => permit \/ rpc = "swapped"

\* The listener restarts only for a reload: notifications may merge, but none is
\* delivered twice and a failed bind costs none.
RestartsJustified == gen <= reloads + 1

\* A SIGHUP for a file that loads and binds is served by a listener bound to that
\* file, unless the file is edited again first or the process never came up.
SignalledFileServed ==
    \A v \in Versions \ (BadFiles \cup DeadConfigs) :
        sighup /\ file = v /\ Running
            ~> (lpc = "serving" /\ bound = v) \/ file # v \/ ~Running

\* README, "Limits": 1,024 concurrent connections, additional ones are dropped.
ConnectionLimit == Cardinality({c \in Conns : cst[c] = "open"}) <= MaxConns

=============================================================================
