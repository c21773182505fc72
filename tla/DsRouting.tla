------------------------------ MODULE DsRouting ------------------------------
(***************************************************************************)
(* Data source routing of a service (pkg/dsroute, started by the main of   *)
(* the user and the lobby service): two route tables are read from etcd,   *)
(* validated, put into a Router that requests resolve their keys with, and *)
(* replaced whenever a watch tells of a change.                            *)
(***************************************************************************)
EXTENDS Lpm

CONSTANTS
    Tables,       \* route tables an operator may write: sequences of rules
    Bad,          \* no such key, or its value is not JSON
    Pools,        \* names of the pools the service has, of MySQL and of Redis
    Keys,         \* routing keys its requests resolve
    MaxRev,       \* bound on the writes to etcd
    MaxDrops,     \* bound on watches that end
    MaxFailures   \* bound on reads of etcd that fail

\* A table is a JSON array.
ASSUME DsAssumption ==
    /\ Bad \notin Tables
    /\ \A rules \in Tables : rules \in Seq(ToSet(rules))
    /\ MaxRev \in Nat \ {0} /\ MaxDrops \in Nat /\ MaxFailures \in Nat

VARIABLES
    mysqlKey, redisKey, rev,    \* etcd: the two keys and its revision
    at,                         \* where the loading goroutine is
    loaded,                     \* what its Get has read so far
    next,                       \* the revision its watch has yet to see
    told,                       \* the watch has told of a change
    mysqlRoutes, redisRoutes,   \* the Router's tables
    drops, failures

etcdVars == <<mysqlKey, redisKey, rev>>
routerVars == <<mysqlRoutes, redisRoutes>>
vars == <<etcdVars, at, loaded, next, told, routerVars, drops, failures>>

\* start: Get and NewRouter at start-up; open: before Watch; reload: Get after
\* an event; store: the two stores of UpdateRoutes; blind: Watch has returned.
TypeOK ==
    /\ mysqlKey \in Tables \cup {Bad} /\ redisKey \in Tables \cup {Bad}
    /\ rev \in 1 .. MaxRev
    /\ at \in {"start_mysql", "start_redis", "new_router", "open", "watching",
               "reload_mysql", "reload_redis", "store_mysql", "store_redis",
               "blind", "exited"}
    /\ loaded \in [mysql : Tables \cup {<<>>}, redis : Tables \cup {<<>>}]
    /\ next \in 0 .. MaxRev + 1
    /\ told \in BOOLEAN
    /\ mysqlRoutes \in Tables \cup {<<>>} /\ redisRoutes \in Tables \cup {<<>>}
    /\ drops \in 0 .. MaxDrops /\ failures \in 0 .. MaxFailures

Nothing == [mysql |-> <<>>, redis |-> <<>>]

Init ==
    /\ mysqlKey \in Tables \cup {Bad} /\ redisKey \in Tables \cup {Bad} /\ rev = 1
    /\ at = "start_mysql"
    /\ loaded = Nothing
    /\ next = 0 /\ told = FALSE
    /\ mysqlRoutes = <<>> /\ redisRoutes = <<>>
    /\ drops = MaxDrops /\ failures = MaxFailures

-----------------------------------------------------------------------------
\* An operator writes one of the keys.
Write(value) ==
    /\ rev < MaxRev
    /\ rev' = rev + 1
    /\ \/ mysqlKey' = value /\ mysqlKey # value /\ UNCHANGED redisKey
       \/ redisKey' = value /\ redisKey # value /\ UNCHANGED mysqlKey
    /\ UNCHANGED <<at, loaded, next, told, routerVars, drops, failures>>

-----------------------------------------------------------------------------
\* Get failed: at start-up the process exits, later it waits for the next event.
Failed == at' = IF at \in {"start_mysql", "start_redis"} THEN "exited" ELSE "watching"

\* getRoutes of the first key, then of the second: two reads of etcd.
GetMysql(from, to) ==
    /\ at = from
    /\ IF mysqlKey = Bad
       THEN Failed /\ UNCHANGED loaded
       ELSE at' = to /\ loaded' = [loaded EXCEPT !.mysql = mysqlKey]
    /\ UNCHANGED <<etcdVars, next, told, routerVars, drops, failures>>

GetRedis(from, to) ==
    /\ at = from
    /\ IF redisKey = Bad
       THEN Failed /\ UNCHANGED loaded
       ELSE at' = to /\ loaded' = [loaded EXCEPT !.redis = redisKey]
    /\ UNCHANGED <<etcdVars, next, told, routerVars, drops, failures>>

GetFails ==
    /\ at \in {"start_mysql", "start_redis", "reload_mysql", "reload_redis"}
    /\ failures > 0
    /\ failures' = failures - 1
    /\ Failed
    /\ UNCHANGED <<etcdVars, loaded, next, told, routerVars, drops>>

PoolsKnown(rules) == \A i \in DOMAIN rules : rules[i].pool \in Pools

\* Faulty variant: only the MySQL table is validated.
AcceptableMysql(config) == PoolsKnown(config.mysql) /\ ValidateRoutes(config.mysql)

Acceptable(config) ==
    /\ PoolsKnown(config.mysql) /\ PoolsKnown(config.redis)
    /\ ValidateRoutes(config.mysql) /\ ValidateRoutes(config.redis)

\* NewRouter: the only place where the tables are validated.
NewRouter ==
    /\ at = "new_router"
    /\ IF Acceptable(loaded)
       THEN /\ mysqlRoutes' = loaded.mysql
            /\ redisRoutes' = loaded.redis
            /\ at' = "open"
       ELSE at' = "exited" /\ UNCHANGED routerVars
    /\ loaded' = Nothing
    /\ UNCHANGED <<etcdVars, next, told, drops, failures>>

\* Watch names no revision: it tells of what comes from now on.
OpenWatch ==
    /\ at = "open"
    /\ at' = "watching"
    /\ next' = rev + 1
    /\ UNCHANGED <<etcdVars, loaded, told, routerVars, drops, failures>>

\* A response with one or more changes.
WatchResponse ==
    /\ at = "watching"
    /\ \E n \in next + 1 .. rev + 1 : next' = n
    /\ told' = TRUE
    /\ at' = "reload_mysql"
    /\ UNCHANGED <<etcdVars, loaded, routerVars, drops, failures>>

\* The channel is closed: the loop is over and nobody watches any more.
WatchEnds ==
    /\ at = "watching"
    /\ drops > 0
    /\ drops' = drops - 1
    /\ at' = "blind"
    /\ UNCHANGED <<etcdVars, loaded, next, told, routerVars, failures>>

StoreMysql ==
    /\ at = "store_mysql"
    /\ mysqlRoutes' = loaded.mysql
    /\ at' = "store_redis"
    /\ UNCHANGED <<etcdVars, loaded, next, told, redisRoutes, drops, failures>>

\* Faulty variant: the tables of UpdateRoutes are mixed up.
StoreMixedUp ==
    /\ at = "store_redis"
    /\ redisRoutes' = loaded.mysql
    /\ loaded' = Nothing
    /\ at' = "watching"
    /\ UNCHANGED <<etcdVars, next, told, mysqlRoutes, drops, failures>>

StoreRedis ==
    /\ at = "store_redis"
    /\ redisRoutes' = loaded.redis
    /\ loaded' = Nothing
    /\ at' = "watching"
    /\ UNCHANGED <<etcdVars, next, told, mysqlRoutes, drops, failures>>

-----------------------------------------------------------------------------
Next ==
    \/ \E value \in Tables \cup {Bad} : Write(value)
    \/ GetMysql("start_mysql", "start_redis")
    \/ GetRedis("start_redis", "new_router")
    \/ NewRouter
    \/ OpenWatch
    \/ WatchResponse
    \/ WatchEnds
    \/ GetMysql("reload_mysql", "reload_redis")
    \/ GetRedis("reload_redis", "store_mysql")
    \/ GetFails
    \/ StoreMysql
    \/ StoreRedis

Spec == Init /\ [][Next]_vars

-----------------------------------------------------------------------------
Serving == at \notin {"start_mysql", "start_redis", "new_router", "exited"}

\* Every change was told, and the goroutine has nothing to do (any more).
Quiescent ==
    \/ at = "watching" /\ next > rev
    \/ at = "blind"

Current ==
    Bad \notin {mysqlKey, redisKey}
        => mysqlRoutes = mysqlKey /\ redisRoutes = redisKey

NoFault == drops = MaxDrops /\ failures = MaxFailures

\* From the first change it is told of, a service that has nothing left to do
\* routes by what etcd holds: an event during a reload starts another one.
\* (A reload that failed is not repeated, a watch that ended not renewed.)
RefreshedIsCurrent == told /\ Quiescent /\ NoFault => Current

\* A service that has not reloaded yet, whatever was written meanwhile, knows
\* a pool for every key it can resolve, in both tables.
StartedSafely ==
    Serving /\ ~told =>
        \A key \in Keys, rules \in {mysqlRoutes, redisRoutes} :
            LET rule == ResolvePoolName(rules, key)
            IN  rule # NoRule => rule.pool \in Pools

-----------------------------------------------------------------------------
\* What the package's own documentation says.
\* "No hot-reload: routes and pools are loaded at startup only" (doc.go:66): the
\* tables of a router that is in use are those it was made with.
LoadedAtStartupOnly == [][Serving => UNCHANGED routerVars]_vars

\* What the dbpool design says of the same.
\* "etcd 中路由指向不存在的池 | 启动时报错退出；运行时保留旧配置" (10): a
\* pool that a request is sent to exists, also after a reload.
PoolsExist ==
    Serving =>
        \A key \in Keys, rules \in {mysqlRoutes, redisRoutes} :
            LET rule == ResolvePoolName(rules, key)
            IN  rule # NoRule => rule.pool \in Pools

\* "从 etcd 获取路由配置 ... 启动 RouteLoader Watch 监听" (9): what changes after
\* the first is told by the second.
NothingMissed == Quiescent => Current

\* "运行时 Watch 断开 | 重连" (8): a service does not go blind.
WatchRenewed == at # "blind"

=============================================================================
