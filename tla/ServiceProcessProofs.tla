------------------------- MODULE ServiceProcessProofs -------------------------
(***************************************************************************)
(* For any number of addresses, restarts and outages: what is registered   *)
(* serves, every key has a lease that will end it, and only an outage      *)
(* takes a serving process's key.                                          *)
(***************************************************************************)
EXTENDS ServiceProcess, TLAPS

Phases == Starting \cup Registering \cup Running \cup {"stopping", "down"}

\* A process listens from the end of its start on, and has no key before.
Order ==
    \A a \in Addrs :
        /\ at[a] \in Registering \cup Running => listening[a]
        /\ at[a] \in Starting => key[a] # generation[a] \/ key[a] = 0

Inv == TypeOK /\ Order

LEMMA InvInit == Init => Inv
BY ProcessAssumption
DEF Init, Inv, TypeOK, Order, Starting, Registering, Running

-----------------------------------------------------------------------------
\* A step of main goes on within the start, or from its end on.
LEMMA ProceedKeeps ==
    ASSUME Inv, NEW a \in Addrs, NEW here \in Phases, NEW there \in Phases,
           Proceed(a, here, there),
           there \in Starting => here \in Starting,
           there \in Registering \cup Running => here \in Registering \cup Running
    PROVE  Inv'
<1>. USE DEF Inv, Proceed, Goto, etcdVars
<1>1. TypeOK'
  BY DEF TypeOK, Phases
<1>2. Order'
  BY DEF TypeOK, Order
<1>. QED  BY <1>1, <1>2

\* The process ends; the leases and the keys stay, or the key is its own.
LEMMA EndKeeps ==
    ASSUME Inv, NEW a \in Addrs, End(a), UNCHANGED etcdVars
    PROVE  Inv'
<1>. USE DEF Inv, End, Goto, etcdVars
<1>1. TypeOK'
  BY DEF TypeOK
<1>2. Order'
  BY DEF TypeOK, Order, Starting, Registering, Running
<1>. QED  BY <1>1, <1>2

\* The key gets the lease of the process, which is not over.
LEMMA KeyKeepsType ==
    ASSUME TypeOK, NEW a \in Addrs, Mine(a) > 0,
           key' = [key EXCEPT ![a] = generation[a]],
           at' \in [Addrs -> Phases], listening' \in [Addrs -> BOOLEAN],
           UNCHANGED <<generation, ttl, cut, cuts, seeded>>
    PROVE  TypeOK'
<1>1. generation[a] \in 0 .. MaxStarts
  BY DEF TypeOK
<1>2. ASSUME NEW b \in Addrs PROVE key'[b] <= generation'[b] /\ (key'[b] > 0 => ttl'[b][key'[b]] > 0)
  BY <1>1, <1>2, ProcessAssumption DEF TypeOK, Mine
<1>. QED  BY <1>1, <1>2 DEF TypeOK, Phases

\* A lease is granted or renewed.
LEMMA LeaseKeepsType ==
    ASSUME TypeOK, NEW a \in Addrs,
           ttl' = [ttl EXCEPT ![a][generation[a]] = TTL]
    PROVE  /\ ttl' \in [Addrs -> [1 .. MaxStarts -> 0 .. TTL]]
           /\ \A b \in Addrs : key[b] > 0 => ttl'[b][key[b]] > 0
<1>1. TTL \in 0 .. TTL /\ TTL > 0
  BY ProcessAssumption
<1>2. ttl[a] \in [1 .. MaxStarts -> 0 .. TTL]
  BY DEF TypeOK
<1>3. [ttl[a] EXCEPT ![generation[a]] = TTL] \in [1 .. MaxStarts -> 0 .. TTL]
  BY <1>1, <1>2
<1>4. ttl' = [ttl EXCEPT ![a] = [ttl[a] EXCEPT ![generation[a]] = TTL]]
  BY DEF TypeOK
<1>5. ttl' \in [Addrs -> [1 .. MaxStarts -> 0 .. TTL]]
  BY <1>3, <1>4 DEF TypeOK
<1>6. ASSUME NEW b \in Addrs, key[b] > 0 PROVE ttl'[b][key[b]] > 0
  <2>1. key[b] \in 1 .. MaxStarts /\ ttl[b][key[b]] > 0
    BY <1>6, ProcessAssumption DEF TypeOK
  <2>2. CASE b = a
    BY <1>1, <1>2, <1>4, <2>1, <2>2 DEF TypeOK
  <2>3. CASE b # a
    BY <1>4, <2>1, <2>3 DEF TypeOK
  <2>. QED  BY <2>2, <2>3
<1>. QED  BY <1>5, <1>6

LEMMA MainKeeps ==
    ASSUME Inv, NEW a \in Addrs, Main(a)
    PROVE  Inv'
<1>. USE DEF Phases, Starting, Registering, Running
<1>1. CASE OpenMysql(a)
  BY <1>1, ProceedKeeps DEF OpenMysql
<1>2. CASE OpenRedis(a)
  BY <1>2, ProceedKeeps DEF OpenRedis
<1>3. CASE ConnectEtcd(a)
  BY <1>3, ProceedKeeps DEF ConnectEtcd
<1>4. CASE LoadRoutes(a)
  <2>1. CASE Proceed(a, "routes", "configs")
    BY <2>1, ProceedKeeps
  <2>2. CASE Proceed(a, "routes", "listen")
    BY <2>2, ProceedKeeps
  <2>3. CASE Proceed(a, "routes", "down")
    BY <2>3, ProceedKeeps
  <2>. QED  BY <1>4, <2>1, <2>2, <2>3 DEF LoadRoutes
<1>5. CASE LoadConfigs(a)
  BY <1>5, ProceedKeeps DEF LoadConfigs
<1>6. CASE Listen(a)
  <2>1. TypeOK'
    BY <1>6 DEF Listen, Goto, Inv, TypeOK, etcdVars
  <2>2. Order'
    BY <1>6 DEF Listen, Goto, Inv, TypeOK, Order, etcdVars
  <2>. QED  BY <2>1, <2>2 DEF Inv
<1>7. CASE Advertise(a)
  BY <1>7, ProceedKeeps DEF Advertise
<1>8. CASE Grant(a)
  <2>1. TypeOK'
    BY <1>8, LeaseKeepsType DEF Grant, Goto, Inv, TypeOK
  <2>2. Order'
    BY <1>8 DEF Grant, Goto, Inv, TypeOK, Order
  <2>. QED  BY <2>1, <2>2 DEF Inv
<1>9. CASE Put(a)
  <2>1. CASE Mine(a) > 0
    <3>0. at' \in [Addrs -> Phases] /\ listening' \in [Addrs -> BOOLEAN]
      BY <1>9, <2>1 DEF Put, Goto, Inv, TypeOK
    <3>1. TypeOK'
      BY <1>9, <2>1, <3>0, KeyKeepsType DEF Put, Inv
    <3>2. Order'
      BY <1>9, <2>1 DEF Put, Goto, Inv, TypeOK, Order
    <3>. QED  BY <3>1, <3>2 DEF Inv
  <2>2. CASE ~(Mine(a) > 0)
    BY <1>9, <2>2, EndKeeps DEF Put, etcdVars
  <2>. QED  BY <2>1, <2>2
<1>10. CASE KeepAlive(a)
  BY <1>10, ProceedKeeps DEF KeepAlive
<1>. QED
  BY <1>1, <1>2, <1>3, <1>4, <1>5, <1>6, <1>7, <1>8, <1>9, <1>10 DEF Main

LEMMA InvStep == Inv /\ [Next]_vars => Inv'
<1>. SUFFICES ASSUME Inv, [Next]_vars PROVE Inv'
  OBVIOUS
<1>1. CASE SeedPut
  BY <1>1 DEF SeedPut, SeedOrder, processVars, etcdVars, Inv, TypeOK, Order
<1>2. ASSUME NEW a \in Addrs, Start(a) PROVE Inv'
  <2>0. generation[a] \in 0 .. MaxStarts - 1 /\ generation[a] + 1 \in 0 .. MaxStarts
    BY <1>2, ProcessAssumption DEF Start, Inv, TypeOK
  <2>1. TypeOK'
    BY <1>2, <2>0, ProcessAssumption DEF Start, Goto, Inv, TypeOK, etcdVars, Starting
  <2>2. Order'
    BY <1>2 DEF Start, Goto, Inv, TypeOK, Order, etcdVars, Registering, Running
  <2>. QED  BY <2>1, <2>2 DEF Inv
<1>3. ASSUME NEW a \in Addrs, Main(a) PROVE Inv'
  BY <1>3, MainKeeps
<1>4. ASSUME NEW a \in Addrs, Fails(a) \/ Crash(a) \/ Stopped(a) PROVE Inv'
  BY <1>4, EndKeeps DEF Fails, Crash, Stopped
<1>5. ASSUME NEW a \in Addrs, PutUnanswered(a) PROVE Inv'
  <2>1. TypeOK'
    BY <1>5, KeyKeepsType DEF PutUnanswered, End, Goto, Inv, TypeOK, Phases
  <2>2. Order'
    BY <1>5 DEF PutUnanswered, End, Goto, Inv, TypeOK, Order, Starting, Registering, Running
  <2>. QED  BY <2>1, <2>2 DEF Inv
<1>6. ASSUME NEW a \in Addrs, Renew(a) PROVE Inv'
  <2>1. TypeOK'
    BY <1>6, LeaseKeepsType DEF Renew, processVars, Inv, TypeOK
  <2>2. Order'
    BY <1>6 DEF Renew, processVars, Inv, Order
  <2>. QED  BY <2>1, <2>2 DEF Inv
<1>7. ASSUME NEW a \in Addrs, RegistrationLost(a) PROVE Inv'
  BY <1>7, ProceedKeeps DEF RegistrationLost, Phases, Starting, Registering, Running
<1>8. ASSUME NEW a \in Addrs, Signal(a) PROVE Inv'
  <2>1. TypeOK'
    BY <1>8 DEF Signal, Goto, Inv, TypeOK, etcdVars
  <2>2. Order'
    BY <1>8 DEF Signal, Goto, Inv, TypeOK, Order, etcdVars, Starting, Registering, Running
  <2>. QED  BY <2>1, <2>2 DEF Inv
<1>9. ASSUME NEW a \in Addrs, CutOff(a) \/ Heal(a) PROVE Inv'
  <2>1. cut' \subseteq Addrs /\ cuts' \in 0 .. MaxCuts
    BY <1>9, ProcessAssumption DEF CutOff, Heal, Inv, TypeOK
  <2>2. UNCHANGED <<processVars, etcdVars, seeded>>
    BY <1>9 DEF CutOff, Heal
  <2>. QED  BY <2>1, <2>2 DEF processVars, etcdVars, Inv, TypeOK, Order
<1>10. CASE Tick
  <2>0. ASSUME NEW a \in Addrs
        PROVE  /\ ttl'[a] = [g \in 1 .. MaxStarts |-> IF ttl[a][g] > 0 THEN ttl[a][g] - 1 ELSE 0]
               /\ key'[a] = IF key[a] > 0 /\ ttl[a][key[a]] = 1 THEN 0 ELSE key[a]
    BY <1>10 DEF Tick
  <2>1. ttl' \in [Addrs -> [1 .. MaxStarts -> 0 .. TTL]]
    <3>1. ASSUME NEW a \in Addrs, NEW g \in 1 .. MaxStarts
          PROVE  (IF ttl[a][g] > 0 THEN ttl[a][g] - 1 ELSE 0) \in 0 .. TTL
      <4>1. ttl[a][g] \in 0 .. TTL
        BY DEF Inv, TypeOK
      <4>. QED  BY <4>1, ProcessAssumption
    <3>. QED  BY <1>10, <3>1 DEF Tick
  <2>2. key' \in [Addrs -> 0 .. MaxStarts]
    <3>1. ASSUME NEW a \in Addrs
          PROVE  (IF key[a] > 0 /\ ttl[a][key[a]] = 1 THEN 0 ELSE key[a]) \in 0 .. MaxStarts
      BY ProcessAssumption DEF Inv, TypeOK
    <3>. QED  BY <1>10, <3>1 DEF Tick
  <2>3. ASSUME NEW a \in Addrs
        PROVE  key'[a] <= generation'[a] /\ (key'[a] > 0 => ttl'[a][key'[a]] > 0)
    <3>1. key[a] \in 0 .. MaxStarts /\ generation[a] \in 0 .. MaxStarts /\ key[a] <= generation[a]
      BY DEF Inv, TypeOK
    <3>2. CASE key[a] > 0
      <4>1. key[a] \in 1 .. MaxStarts /\ ttl[a][key[a]] \in 0 .. TTL /\ ttl[a][key[a]] > 0
        BY <3>1, <3>2, ProcessAssumption DEF Inv, TypeOK
      <4>. QED  BY <1>10, <2>0, <3>1, <4>1, ProcessAssumption DEF Tick, processVars
    <3>3. CASE ~(key[a] > 0)
      BY <1>10, <2>0, <3>1, <3>3, ProcessAssumption DEF Tick, processVars
    <3>. QED  BY <3>2, <3>3
  <2>4. TypeOK'
    BY <1>10, <2>1, <2>2, <2>3 DEF Tick, processVars, Inv, TypeOK
  <2>5. Order'
    BY <1>10 DEF Tick, processVars, Inv, TypeOK, Order
  <2>. QED  BY <2>4, <2>5 DEF Inv
<1>11. CASE UNCHANGED vars
  BY <1>11 DEF vars, processVars, etcdVars, Inv, TypeOK, Order
<1>. QED
  BY <1>1, <1>2, <1>3, <1>4, <1>5, <1>6, <1>7, <1>8, <1>9, <1>10, <1>11 DEF Next

-----------------------------------------------------------------------------
\* The types, and that every key in etcd has a lease to end it.
THEOREM TypeCorrect == Spec => []TypeOK
<1>1. Inv => TypeOK
  BY DEF Inv
<1>. QED  BY <1>1, InvInit, InvStep, PTL DEF Spec

\* Whatever fails or is restarted when: what is registered takes calls.
THEOREM RegisteredProcessesServe == Spec => []RegisteredServes
<1>1. Inv => RegisteredServes
  BY DEF Inv, TypeOK, Order, RegisteredServes, Starting, Registering, Running
<1>. QED  BY <1>1, InvInit, InvStep, PTL DEF Spec

\* The key is touched by the Put of its own process, which does not serve yet,
\* and by time, which no reachable client's lease runs out in.
LEMMA KeptStep ==
    ASSUME Inv, [Next]_vars, NEW a \in Addrs,
           at[a] = "serving", key[a] = generation[a], key'[a] # key[a]
    PROVE  a \in cut
<1>. USE DEF Proceed, Goto, End, processVars, etcdVars
<1>1. CASE Tick
  <2>1. key[a] > 0 /\ ttl[a][key[a]] = 1
    BY <1>1 DEF Tick, Inv, TypeOK
  <2>2. Mine(a) \in 1 .. TTL - 1
    BY <2>1, ProcessAssumption DEF Mine
  <2>. QED  BY <1>1, <2>2 DEF Tick, Renewing
<1>2. ASSUME NEW b \in Addrs, Put(b) \/ PutUnanswered(b) PROVE FALSE
  BY <1>2 DEF Put, PutUnanswered, Inv, TypeOK
<1>3. key' = key \/ Tick \/ \E b \in Addrs : Put(b) \/ PutUnanswered(b)
  BY DEF Next, Main, vars, SeedPut, Start, OpenMysql, OpenRedis, ConnectEtcd, LoadRoutes,
         LoadConfigs, Listen, Advertise, Fails, Crash, Grant, KeepAlive, Renew,
         RegistrationLost, Signal, Stopped, CutOff, Heal
<1>. QED  BY <1>1, <1>2, <1>3

\* A reachable process keeps its registration, whatever happens to the leases
\* of those before it.
THEOREM OnlyOutagesDeregister == Spec => DeregisteredByOutage
<1>1. Inv /\ [Next]_vars =>
        [\A a \in Addrs :
            at[a] = "serving" /\ key[a] = generation[a] /\ key'[a] # key[a] => a \in cut]_vars
  BY KeptStep
<1>. QED  BY <1>1, InvInit, InvStep, PTL DEF Spec, DeregisteredByOutage

=============================================================================
