---------------------------- MODULE MetaBootstrap ----------------------------
(***************************************************************************)
(* The gateway's dynamic routing (gateway/internal/bootstrap): service     *)
(* types and WebSocket routes are kept in etcd; Manager reads both ranges, *)
(* dials one gRPC connection per type, publishes an immutable route table  *)
(* and drains the connections of the one before.  A watch on the prefix    *)
(* schedules a debounced reload for every change.                          *)
(*                                                                         *)
(* Bootstrap is run by main and later by Run (one process, "run") and by   *)
(* the goroutines of expired reload timers (Timers).  All connections of   *)
(* one build are opened, drained and closed together: a GENERATION.        *)
(***************************************************************************)
EXTENDS Naturals, FiniteSets, FiniteSetsExt

CONSTANTS
    Types,          \* type_key
    Targets,        \* valid service type specs, told apart by their target
    RouteIds,       \* route_id, numbered in lexicographic order
    Methods,        \* ws_method
    NoSpec,         \* there is no such key
    BadSpec,        \* the value does not parse, validate or dial
    Timers,         \* bound: reload goroutines at work at one time
    MaxRev,         \* bound on the changes to etcd
    MaxDrops,       \* bound on watches that end
    MaxFailures     \* bound on range requests that fail

RouteSpecs == [method : Methods, service : Types]

ASSUME MetaAssumption ==
    /\ RouteIds \subseteq Nat /\ IsFiniteSet(RouteIds)
    /\ NoSpec \notin Targets \cup RouteSpecs
    /\ BadSpec \notin Targets \cup RouteSpecs
    /\ NoSpec # BadSpec
    /\ "run" \notin Timers /\ "free" \notin Timers
    /\ MaxRev \in Nat \ {0}
    /\ MaxDrops \in Nat /\ MaxFailures \in Nat

VARIABLES
    types, routes, rev,  \* etcd: the two ranges and its revision
    phase,               \* of the process: starting, running, exited
    watch,               \* Run: where it is, and the revision it has yet to see
    reloadTimer,         \* the debounce timer is armed
    buildMu,             \* who holds the lock
    boot,                \* the Bootstrap of each goroutine
    nextWatchRev, table, \* what Bootstrap publishes
    made,                \* history: the types the table was made of, and
                         \* whether etcd's had changed between the two ranges
    active,              \* generation of activeConns, 0 if there is none
    draining, open,      \* generations waiting to be closed; generations open
    builds,              \* generations dialled so far
    drops, failures      \* ends of watches, failures of requests to come

etcdVars == <<types, routes, rev>>
runVars == <<phase, watch, reloadTimer>>
published == <<nextWatchRev, table, made>>
connVars == <<active, draining, open, builds>>
faultVars == <<drops, failures>>
vars == <<etcdVars, runVars, buildMu, boot, published, connVars, faultVars>>

Procs == Timers \cup {"run"}

TypeSpecs == Targets \cup {NoSpec, BadSpec}
TypeRange == [Types -> TypeSpecs]
RouteRange == [RouteIds -> RouteSpecs \cup {NoSpec, BadSpec}]

NoRoute == [id |-> 0, target |-> NoSpec]
Binding == [id : RouteIds, target : Targets] \cup {NoRoute}

TypeOK ==
    /\ types \in TypeRange /\ routes \in RouteRange /\ rev \in 1 .. MaxRev
    /\ phase \in {"starting", "running", "exited"}
    /\ watch \in [at : {"off", "opening", "watching", "backoff"}, next : Nat]
    /\ reloadTimer \in BOOLEAN
    /\ buildMu \in Procs \cup {"free"}
    /\ boot \in [Procs -> [at : {"idle", "waiting", "types", "routes", "store",
                                 "swap"},
                           types : TypeRange, typesRev : 0 .. MaxRev,
                           routes : RouteRange, nextRev : Nat, gen : Nat,
                           changed : BOOLEAN]]
    /\ nextWatchRev \in Nat
    /\ table \in [gen : Nat, routes : [Methods -> Binding]]
    /\ made \in [types : TypeRange, changed : BOOLEAN]
    /\ active \in Nat /\ draining \subseteq Nat /\ open \subseteq Nat
    /\ builds \in Nat /\ drops \in 0 .. MaxDrops /\ failures \in 0 .. MaxFailures

-----------------------------------------------------------------------------
(***************************************************************************)
(* Build, as a function of the two ranges it read.                         *)
(***************************************************************************)
ValidTypes(t) == {k \in Types : t[k] \in Targets}

\* The routes that get as far as the contest for their method.
Bindable(t, r) ==
    {i \in RouteIds : r[i] \in RouteSpecs /\ r[i].service \in ValidTypes(t)}

\* Of the routes of one method the largest route_id wins.
Bindings(t, r) ==
    [m \in Methods |->
        LET contest == {i \in Bindable(t, r) : r[i].method = m}
        IN  IF contest = {} THEN NoRoute
            ELSE [id |-> Max(contest), target |-> t[r[Max(contest)].service]]]

Empty(range) == \A k \in DOMAIN range : range[k] = NoSpec

\* Build succeeds: neither range is empty and one type at least is valid.
Buildable(t, r) == ~Empty(t) /\ ~Empty(r) /\ ValidTypes(t) # {}

\* Faulty variant: off by one, the watch begins after the next change.
NextRevLate(typesRev, routesRev) == Max({typesRev, routesRev}) + 2

NextRev(typesRev, routesRev) == Max({typesRev, routesRev}) + 1

IdleBoot == [at |-> "idle",
             types |-> [k \in Types |-> NoSpec], typesRev |-> 0,
             routes |-> [i \in RouteIds |-> NoSpec], nextRev |-> 0, gen |-> 0,
             changed |-> FALSE]

Init ==
    /\ types \in TypeRange /\ routes \in RouteRange /\ rev = 1
    /\ phase = "starting"
    /\ watch = [at |-> "off", next |-> 0]
    /\ reloadTimer = FALSE
    /\ buildMu = "free"
    /\ boot = [p \in Procs |->
                 IF p = "run" THEN [IdleBoot EXCEPT !.at = "waiting"] ELSE IdleBoot]
    /\ nextWatchRev = 0
    /\ table = [gen |-> 0, routes |-> [m \in Methods |-> NoRoute]]
    /\ made = [types |-> [k \in Types |-> NoSpec], changed |-> FALSE]
    /\ active = 0 /\ draining = {} /\ open = {} /\ builds = 0
    /\ drops = MaxDrops /\ failures = MaxFailures

-----------------------------------------------------------------------------
(***************************************************************************)
(* etcd: an operator puts or deletes one key, or a watch ends (the channel *)
(* is closed, the server is gone, the revision was compacted).             *)
(***************************************************************************)
ChangeType(k, spec) ==
    /\ rev < MaxRev
    /\ rev' = rev + 1
    /\ types[k] # spec
    /\ types' = [types EXCEPT ![k] = spec]
    /\ UNCHANGED <<routes, runVars, buildMu, boot, published, connVars, faultVars>>

ChangeRoute(i, spec) ==
    /\ rev < MaxRev
    /\ rev' = rev + 1
    /\ routes[i] # spec
    /\ routes' = [routes EXCEPT ![i] = spec]
    /\ UNCHANGED <<types, runVars, buildMu, boot, published, connVars, faultVars>>

-----------------------------------------------------------------------------
(***************************************************************************)
(* Bootstrap of process p.                                                 *)
(***************************************************************************)
\* Faulty variant: without buildMu.
LockAnyway(p) ==
    /\ boot[p].at = "waiting"
    /\ buildMu' = p
    /\ boot' = [boot EXCEPT ![p].at = "types"]
    /\ UNCHANGED <<etcdVars, runVars, published, connVars, faultVars>>

Lock(p) ==
    /\ boot[p].at = "waiting"
    /\ buildMu = "free"
    /\ buildMu' = p
    /\ boot' = [boot EXCEPT ![p].at = "types"]
    /\ UNCHANGED <<etcdVars, runVars, published, connVars, faultVars>>

\* What follows p's Bootstrap: main begins to serve, or gives up; Run opens the
\* next watch whether or not it succeeded; a timer's goroutine is over.
GoOn(p, success) ==
    IF p # "run" THEN UNCHANGED <<phase, watch>>
    ELSE /\ phase' = IF phase = "starting" /\ ~success THEN "exited"
                     ELSE IF phase = "starting" THEN "running" ELSE phase
         /\ watch' = [watch EXCEPT !.at = "opening"]

\* Faulty variant: an early return that does not unlock.
FailLocked(p) ==
    /\ boot' = [boot EXCEPT ![p] = IdleBoot]
    /\ GoOn(p, FALSE)
    /\ UNCHANGED buildMu

\* Build returns an error: nothing is published and nothing is tried again.
FailBuild(p) ==
    /\ boot' = [boot EXCEPT ![p] = IdleBoot]
    /\ GoOn(p, FALSE)
    /\ buildMu' = "free"

RangeTypes(p) ==
    /\ boot[p].at = "types"
    /\ IF Empty(types)
       THEN FailBuild(p)
       ELSE /\ boot' = [boot EXCEPT ![p].types = types, ![p].typesRev = rev,
                                    ![p].at = "routes"]
            /\ UNCHANGED <<buildMu, phase, watch>>
    /\ UNCHANGED <<etcdVars, reloadTimer, published, connVars, faultVars>>

\* The second range, and what Build makes of the two: the dialled connections.
RangeRoutes(p) ==
    /\ boot[p].at = "routes"
    /\ IF Buildable(boot[p].types, routes)
       THEN /\ builds' = builds + 1
            /\ open' = open \cup {builds + 1}
            /\ boot' = [boot EXCEPT ![p].routes = routes, ![p].gen = builds + 1,
                                    ![p].nextRev = NextRev(boot[p].typesRev, rev),
                                    ![p].changed = boot[p].types # types,
                                    ![p].at = "store"]
            /\ UNCHANGED <<buildMu, phase, watch>>
       ELSE FailBuild(p) /\ UNCHANGED <<open, builds>>
    /\ UNCHANGED <<etcdVars, reloadTimer, published, active, draining, faultVars>>

RangeFails(p) ==
    /\ boot[p].at \in {"types", "routes"}
    /\ failures > 0
    /\ failures' = failures - 1
    /\ FailBuild(p)
    /\ UNCHANGED <<etcdVars, reloadTimer, published, connVars, drops>>

StoreRoutes(p) ==
    /\ boot[p].at = "store"
    /\ nextWatchRev' = boot[p].nextRev
    /\ table' = [gen |-> boot[p].gen,
                 routes |-> Bindings(boot[p].types, boot[p].routes)]
    /\ made' = [types |-> boot[p].types, changed |-> boot[p].changed]
    /\ boot' = [boot EXCEPT ![p].at = "swap"]
    /\ UNCHANGED <<etcdVars, runVars, buildMu, connVars, faultVars>>

\* Faulty variant: activeConns is read after it was assigned.
SwapDrainingNew(p) ==
    /\ boot[p].at = "swap"
    /\ active' = boot[p].gen
    /\ draining' = draining \cup {boot[p].gen}
    /\ boot' = [boot EXCEPT ![p] = IdleBoot]
    /\ GoOn(p, TRUE)
    /\ buildMu' = "free"
    /\ UNCHANGED <<etcdVars, reloadTimer, published, open, builds, faultVars>>

\* Faulty variant: the old connections are forgotten.
SwapForgetting(p) ==
    /\ boot[p].at = "swap"
    /\ active' = boot[p].gen
    /\ boot' = [boot EXCEPT ![p] = IdleBoot]
    /\ GoOn(p, TRUE)
    /\ buildMu' = "free"
    /\ UNCHANGED <<etcdVars, reloadTimer, published, draining, open, builds,
                   faultVars>>

\* activeConns is replaced; the old connections are closed after drainDelay.
SwapConns(p) ==
    /\ boot[p].at = "swap"
    /\ active' = boot[p].gen
    /\ draining' = draining \cup ({active} \ {0})
    /\ boot' = [boot EXCEPT ![p] = IdleBoot]
    /\ GoOn(p, TRUE)
    /\ buildMu' = "free"
    /\ UNCHANGED <<etcdVars, reloadTimer, published, open, builds, faultVars>>

Bootstrap(p) ==
    \/ Lock(p)
    \/ RangeTypes(p)
    \/ RangeRoutes(p)
    \/ StoreRoutes(p)
    \/ SwapConns(p)

\* drainDelay is over.
CloseDrained(g) ==
    /\ g \in draining
    /\ draining' = draining \ {g}
    /\ open' = open \ {g}
    /\ UNCHANGED <<etcdVars, runVars, buildMu, boot, published, active, builds,
                   faultVars>>

-----------------------------------------------------------------------------
(***************************************************************************)
(* Run and scheduleReload.                                                 *)
(***************************************************************************)
OpenWatch ==
    /\ phase = "running"
    /\ watch.at = "opening"
    /\ watch' = [at |-> "watching", next |-> nextWatchRev]
    /\ UNCHANGED <<etcdVars, phase, reloadTimer, buildMu, boot, published,
                   connVars, faultVars>>

\* A response carries one or more of the changes there are to tell.
WatchResponse ==
    /\ watch.at = "watching"
    /\ \E n \in watch.next + 1 .. rev + 1 : watch' = [watch EXCEPT !.next = n]
    /\ reloadTimer' = TRUE
    /\ UNCHANGED <<etcdVars, phase, buildMu, boot, published, connVars, faultVars>>

WatchEnds ==
    /\ watch.at = "watching"
    /\ drops > 0
    /\ drops' = drops - 1
    /\ watch' = [watch EXCEPT !.at = "backoff"]
    /\ UNCHANGED <<etcdVars, phase, reloadTimer, buildMu, boot, published,
                   connVars, failures>>

BackoffOver ==
    /\ watch.at = "backoff"
    /\ boot["run"].at = "idle"
    /\ boot' = [boot EXCEPT !["run"].at = "waiting"]
    /\ UNCHANGED <<etcdVars, runVars, buildMu, published, connVars, faultVars>>

\* Stop does not reach a timer that has expired: its goroutine is on its way.
ReloadTimerExpires(p) ==
    /\ reloadTimer
    /\ boot[p].at = "idle"
    /\ reloadTimer' = FALSE
    /\ boot' = [boot EXCEPT ![p].at = "waiting"]
    /\ UNCHANGED <<etcdVars, phase, watch, buildMu, published, connVars, faultVars>>

\* The gateway is told to stop: Close, and the process ends.
Close ==
    /\ phase = "running"
    /\ phase' = "exited"
    /\ open' = open \ {active}
    /\ active' = 0
    /\ UNCHANGED <<etcdVars, watch, reloadTimer, buildMu, boot, published,
                   draining, builds, faultVars>>

Reload ==
    \/ OpenWatch
    \/ WatchResponse
    \/ BackoffOver
    \/ \E p \in Timers : ReloadTimerExpires(p)

Next ==
    \/ \E k \in Types, spec \in TypeSpecs : ChangeType(k, spec)
    \/ \E i \in RouteIds, spec \in RouteSpecs \cup {NoSpec, BadSpec} :
          ChangeRoute(i, spec)
    \/ /\ phase # "exited"
       /\ \/ \E p \in Procs : Bootstrap(p) \/ RangeFails(p)
          \/ Reload
          \/ WatchEnds
          \/ \E g \in draining : CloseDrained(g)
          \/ Close

Spec == Init /\ [][Next]_vars

\* etcd answers, timers expire and mutexes are handed on; nothing obliges an
\* operator to change etcd, a watch to end or the gateway to stop.
Fairness ==
    /\ \A p \in Procs : WF_vars(phase # "exited" /\ Bootstrap(p))
    /\ WF_vars(phase # "exited" /\ Reload)

FairSpec == Spec /\ Fairness

-----------------------------------------------------------------------------
\* Every route in the table leads to a connection that is open: a published
\* generation is drained only after another one took its place.
TableOpen == table.gen # 0 /\ phase = "running" => table.gen \in open

\* Every open connection is in use, waiting to be closed, or about to be
\* installed: no path through Bootstrap loses track of one.
NoLeak ==
    open \subseteq {active} \cup draining
                   \cup {boot[p].gen : p \in {q \in Procs :
                                                boot[q].at \in {"store", "swap"}}}

\* Reloads never take the gateway back to an older configuration, whichever
\* timers, watches and retries start them at the same time.
NewestWins == [][nextWatchRev' >= nextWatchRev]_vars

\* The gateway has seen every change and has nothing left to do.
Quiescent ==
    /\ phase = "running"
    /\ watch.at = "watching" /\ watch.next > rev
    /\ ~reloadTimer
    /\ \A p \in Procs : boot[p].at = "idle"

RoutesAreCurrent ==
    Buildable(types, routes) =>
        /\ table.routes = Bindings(made.types, routes)
        /\ made.types = types \/ made.changed

\* Once it has nothing left to do, the table is made of the routes etcd holds
\* and of the types etcd holds: no change is lost between a range and the watch
\* that follows it, nor by a watch that ends.  The one exception is a change of
\* a type between the two ranges of the build that made the table, which falls
\* before the revision its watch begins with (build.go:39-43); the routes are
\* current then too.  (A reload whose request failed is not repeated.)
RoutesCurrent == Quiescent /\ failures = MaxFailures => RoutesAreCurrent

\* It does come to rest, whatever failed, and stays there while etcd does; if
\* nothing failed it is then current as RoutesCurrent says.
Settles == <>[](phase = "exited" \/ (Quiescent /\ RoutesCurrent))

-----------------------------------------------------------------------------
\* "Watch 从 revision + 1 起订阅" (gateway design, 11.5): the watch begins where
\* what was read ends, so the table is made of the types AND routes of etcd.
TableCurrent ==
    Quiescent /\ Buildable(types, routes)
        => table.routes = Bindings(types, routes)

=============================================================================
