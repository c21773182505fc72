---------------------------- MODULE ServiceProcess ----------------------------
(***************************************************************************)
(* The life of the user and the lobby service's processes, from their main *)
(* to their exit, and what the gateway can find them by: the key under     *)
(* kd48/<service>/<address> with the lease of pkg/registry.  The routes    *)
(* they start with are put by seed-gateway-meta.                           *)
(***************************************************************************)
EXTENDS Integers, Sequences

CONSTANTS
    Addrs,          \* advertised addresses; one process after the other at each
    Lobbies,        \* those of the lobby, which loads its configurations first
    DataSources,    \* the pools in a process's config.yaml, or Absent
    Absent,
    DefaultPool,    \* the pool "default"
    TTL,            \* the lease's ten seconds, in intervals of the keep-alive
    MaxStarts,      \* bound on the processes started at an address
    MaxCuts         \* bound on the times a process is cut off from etcd

ASSUME ProcessAssumption ==
    /\ Lobbies \subseteq Addrs
    /\ TTL \in Nat /\ TTL > 1
    /\ MaxStarts \in Nat /\ MaxCuts \in Nat

VARIABLES
    at,             \* where the process's main is
    generation,     \* how many processes were started at the address
    listening,      \* the process accepts calls
    ttl,            \* time left of the leases, one for each generation
    key,            \* the generation whose lease the key has; 0: no such key
    cut, cuts,      \* the processes that do not reach etcd, and how many may yet
    seeded          \* how many of the seed's keys are there

processVars == <<at, generation, listening>>
etcdVars == <<ttl, key>>
vars == <<processVars, etcdVars, cut, cuts, seeded>>

Starting == {"mysql", "redis", "etcd", "routes", "configs", "listen"}
Registering == {"advertise", "grant", "put", "keep"}
Running == {"serving", "lost"}

\* (A key has a lease that will end it.)
TypeOK ==
    /\ at \in [Addrs -> Starting \cup Registering \cup Running \cup {"stopping", "down"}]
    /\ generation \in [Addrs -> 0 .. MaxStarts]
    /\ listening \in [Addrs -> BOOLEAN]
    /\ ttl \in [Addrs -> [1 .. MaxStarts -> 0 .. TTL]]
    /\ key \in [Addrs -> 0 .. MaxStarts]
    /\ \A a \in Addrs : key[a] <= generation[a] /\ (key[a] > 0 => ttl[a][key[a]] > 0)
    /\ cut \subseteq Addrs /\ cuts \in 0 .. MaxCuts
    /\ seeded \in 0 .. 5

Init ==
    /\ at = [a \in Addrs |-> "down"]
    /\ generation = [a \in Addrs |-> 0]
    /\ listening = [a \in Addrs |-> FALSE]
    /\ ttl = [a \in Addrs |-> [g \in 1 .. MaxStarts |-> 0]]
    /\ key = [a \in Addrs |-> 0]
    /\ cut = {} /\ cuts = MaxCuts
    /\ seeded = 0

-----------------------------------------------------------------------------
\* seed-gateway-meta puts its keys in this order; a run that fails in between
\* leaves the first of them, and the next run puts them again.
SeedOrder ==
    <<"types/user", "routes/login", "routes/register", "mysql_routes", "redis_routes">>

Seeds == {SeedOrder[i] : i \in 1 .. seeded}

SeedPut ==
    /\ seeded < Len(SeedOrder)
    /\ seeded' = seeded + 1
    /\ UNCHANGED <<processVars, etcdVars, cut, cuts>>

-----------------------------------------------------------------------------
Goto(a, there) == at' = [at EXCEPT ![a] = there]

\* One more process at an address where none runs.
Start(a) ==
    /\ at[a] = "down"
    /\ generation[a] < MaxStarts
    /\ generation' = [generation EXCEPT ![a] = @ + 1]
    /\ Goto(a, "mysql")
    /\ UNCHANGED <<listening, etcdVars, cut, cuts, seeded>>

\* A step of main that changes nothing outside of the process.
Proceed(a, here, there) ==
    /\ at[a] = here
    /\ Goto(a, there)
    /\ UNCHANGED <<generation, listening, etcdVars, cut, cuts, seeded>>

\* Every pool is opened and pinged.
OpenMysql(a) == Proceed(a, "mysql", "redis")
OpenRedis(a) == Proceed(a, "redis", "etcd")

\* registry.NewClient: a Get has to be answered.
ConnectEtcd(a) == a \notin cut /\ Proceed(a, "etcd", "routes")

\* GetDataSourcesOrSynthesize and ToDSRouteConfig.
PoolsOf(a) == IF DataSources[a] = Absent THEN {DefaultPool} ELSE DataSources[a]

\* Get and NewRouter (see DsRouting): the seeded routes name the default pool.
LoadRoutes(a) ==
    /\ a \notin cut
    /\ IF {"mysql_routes", "redis_routes"} \subseteq Seeds /\ DefaultPool \in PoolsOf(a)
       THEN Proceed(a, "routes", IF a \in Lobbies THEN "configs" ELSE "listen")
       ELSE Proceed(a, "routes", "down")

\* The lobby's LoadAll, which may fail, and the watcher (see LobbyConfig).
LoadConfigs(a) == Proceed(a, "configs", "listen")

\* Faulty variant: Serve is called once the service is registered.
ListenLate(a) == Proceed(a, "listen", "advertise")

\* Listen, and the goroutine that serves.
Listen(a) ==
    /\ at[a] = "listen"
    /\ listening' = [listening EXCEPT ![a] = TRUE]
    /\ Goto(a, "advertise")
    /\ UNCHANGED <<generation, etcdVars, cut, cuts, seeded>>

\* ADVERTISE_ADDR, or localhost in the dev environment; without both: exit.
Advertise(a) == Proceed(a, "advertise", "grant")

\* The process ends, and its connection to etcd, but no lease is revoked.
End(a) ==
    /\ Goto(a, "down")
    /\ listening' = [listening EXCEPT ![a] = FALSE]
    /\ UNCHANGED <<generation, cut, cuts, seeded>>

\* Any step before the wait for signals may fail: panic, or exit.
Fails(a) ==
    /\ at[a] \in Starting \cup Registering
    /\ End(a)
    /\ UNCHANGED etcdVars

\* The process dies.
Crash(a) ==
    /\ at[a] \in Running \cup {"stopping"}
    /\ End(a)
    /\ UNCHANGED etcdVars

-----------------------------------------------------------------------------
(***************************************************************************)
(* RegisterService.                                                        *)
(***************************************************************************)
Mine(a) == ttl[a][generation[a]]

Grant(a) ==
    /\ at[a] = "grant"
    /\ a \notin cut
    /\ ttl' = [ttl EXCEPT ![a][generation[a]] = TTL]
    /\ Goto(a, "put")
    /\ UNCHANGED <<generation, listening, key, cut, cuts, seeded>>

\* Faulty variant: the key is put whether or not the lease is there to end it.
PutForGood(a) ==
    /\ at[a] = "put"
    /\ a \notin cut
    /\ key' = [key EXCEPT ![a] = generation[a]]
    /\ Goto(a, "keep")
    /\ UNCHANGED <<generation, listening, ttl, cut, cuts, seeded>>

\* Faulty variant: with a lease that is over, the Put is tried again for ever.
PutRetried(a) ==
    /\ at[a] = "put"
    /\ a \notin cut /\ Mine(a) > 0
    /\ key' = [key EXCEPT ![a] = generation[a]]
    /\ Goto(a, "keep")
    /\ UNCHANGED <<generation, listening, ttl, cut, cuts, seeded>>

\* A lease that is over already is not found.
Put(a) ==
    /\ at[a] = "put"
    /\ a \notin cut
    /\ IF Mine(a) > 0
       THEN /\ key' = [key EXCEPT ![a] = generation[a]]
            /\ Goto(a, "keep")
            /\ UNCHANGED <<generation, listening, cut, cuts, seeded>>
       ELSE End(a) /\ UNCHANGED key
    /\ UNCHANGED ttl

\* The key is put, and the process panics because it is not told.
PutUnanswered(a) ==
    /\ at[a] = "put"
    /\ Mine(a) > 0
    /\ key' = [key EXCEPT ![a] = generation[a]]
    /\ End(a)
    /\ UNCHANGED ttl

KeepAlive(a) == Proceed(a, "keep", "serving")

\* Faulty variant: the lease is renewed once, when it is registered.
RenewingOnce(a) == at[a] = "keep"

\* The client renews until the process ends, also while it stops.
Renewing(a) == at[a] \in {"serving", "stopping"}

Renew(a) ==
    /\ Renewing(a)
    /\ a \notin cut
    /\ Mine(a) \in 1 .. TTL - 1
    /\ ttl' = [ttl EXCEPT ![a][generation[a]] = TTL]
    /\ UNCHANGED <<processVars, key, cut, cuts, seeded>>

\* The channel of the keep-alive is closed: "Etcd registration lost" is
\* printed, and the service serves on.
RegistrationLost(a) ==
    /\ at[a] = "serving" /\ Mine(a) = 0
    /\ Proceed(a, "serving", "lost")

-----------------------------------------------------------------------------
\* A signal: GracefulStop takes no more calls and waits for those it has.
Signal(a) ==
    /\ at[a] \in Running
    /\ Goto(a, "stopping")
    /\ listening' = [listening EXCEPT ![a] = FALSE]
    /\ UNCHANGED <<generation, etcdVars, cut, cuts, seeded>>

Stopped(a) ==
    /\ at[a] = "stopping"
    /\ End(a)
    /\ UNCHANGED etcdVars

-----------------------------------------------------------------------------
CutOff(a) ==
    /\ a \notin cut /\ cuts > 0
    /\ cut' = cut \cup {a}
    /\ cuts' = cuts - 1
    /\ UNCHANGED <<processVars, etcdVars, seeded>>

Heal(a) ==
    /\ a \in cut
    /\ cut' = cut \ {a}
    /\ UNCHANGED <<processVars, etcdVars, cuts, seeded>>

\* An interval passes, in which every client that reaches etcd renews its
\* lease; a lease that is over takes the key with it that has it.
Tick ==
    /\ \E a \in Addrs, g \in 1 .. MaxStarts : ttl[a][g] > 0
    /\ \A a \in Addrs : Renewing(a) /\ a \notin cut => Mine(a) \notin 1 .. TTL - 1
    /\ ttl' = [a \in Addrs |-> [g \in 1 .. MaxStarts |->
                  IF ttl[a][g] > 0 THEN ttl[a][g] - 1 ELSE 0]]
    /\ key' = [a \in Addrs |->
                  IF key[a] > 0 /\ ttl[a][key[a]] = 1 THEN 0 ELSE key[a]]
    /\ UNCHANGED <<processVars, cut, cuts, seeded>>

-----------------------------------------------------------------------------
Main(a) ==
    \/ OpenMysql(a) \/ OpenRedis(a) \/ ConnectEtcd(a) \/ LoadRoutes(a)
    \/ LoadConfigs(a) \/ Listen(a) \/ Advertise(a)
    \/ Grant(a) \/ Put(a) \/ KeepAlive(a)

Next ==
    \/ SeedPut
    \/ \E a \in Addrs :
          \/ Start(a) \/ Main(a) \/ Fails(a) \/ Crash(a)
          \/ PutUnanswered(a) \/ Renew(a) \/ RegistrationLost(a)
          \/ Signal(a) \/ Stopped(a)
          \/ CutOff(a) \/ Heal(a)
    \/ Tick

Spec == Init /\ [][Next]_vars

\* Main goes on, clients renew, time passes.  Nobody has to start a process,
\* to seed, to signal, or to mend the network.
Fairness ==
    /\ WF_vars(Tick)
    /\ \A a \in Addrs : WF_vars(Main(a)) /\ WF_vars(Renew(a)) /\ WF_vars(RegistrationLost(a))

FairSpec == Spec /\ Fairness

-----------------------------------------------------------------------------
\* A process that is registered takes calls, until it stops (the order of
\* Serve and RegisterService).
RegisteredServes ==
    \A a \in Addrs :
        key[a] > 0 /\ key[a] = generation[a] /\ at[a] \notin {"stopping", "down"}
            => listening[a]

\* A process that serves stays registered as long as it reaches etcd, also
\* when the lease of a process before it at this address runs out.
DeregisteredByOutage ==
    [][\A a \in Addrs :
          at[a] = "serving" /\ key[a] = generation[a] /\ key'[a] # key[a] => a \in cut]_vars

\* Nobody is sent to a process that ended for ever: its key goes.
DeadDisappear ==
    \A a \in Addrs : at[a] = "down" ~> (key[a] = 0 \/ at[a] # "down")

\* A process that gets as far as listening is registered, or it ends, or it is
\* cut off from etcd.
ListenersRegister ==
    \A a \in Addrs :
        at[a] = "advertise" ~> (key[a] = generation[a] \/ at[a] = "down" \/ a \in cut)

-----------------------------------------------------------------------------
\* What one may expect of a registry, and the code does not do.
\* A process that serves and reaches etcd ends up registered.
LossRepaired ==
    \A a \in Addrs :
        <>[](at[a] \in Running /\ a \notin cut) => <>[](key[a] = generation[a])

=============================================================================
