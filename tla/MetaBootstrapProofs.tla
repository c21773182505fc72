------------------------- MODULE MetaBootstrapProofs -------------------------
(***************************************************************************)
(* Theorems of module MetaBootstrap, for any service types and routes, any *)
(* number of reloads at work at one time, and any number of changes to     *)
(* etcd, of watches that end and of requests that fail.                    *)
(***************************************************************************)
EXTENDS MetaBootstrap, FiniteSetTheorems, TLAPS

\* The places of a Bootstrap that holds the lock.
Building == {"types", "routes", "store", "swap"}

\* buildMu is held by the goroutine that builds, and by no other.
LockHeld == \A p \in Procs : boot[p].at \in Building <=> buildMu = p

\* A generation that is in use, or is about to be, is open and nobody waits to
\* close it.
InUseOpen ==
    /\ open \subseteq 1 .. builds
    /\ draining \subseteq open
    /\ active # 0 => active \in open \ draining
    /\ \A p \in Procs :
          boot[p].at \in {"store", "swap"} => boot[p].gen \in open \ (draining \cup {active})

\* The table that is published belongs to the active generation, but between
\* the two last steps of Bootstrap, when it belongs to the next one.
TableOfActive ==
    phase # "exited" =>
        /\ \A p \in Procs : boot[p].at = "swap" => table.gen = boot[p].gen
        /\ (\A p \in Procs : boot[p].at # "swap") => table.gen = active

\* What has been read, told and published is no newer than etcd; what a
\* Bootstrap has read is no older than what is published.
ReadInOrder ==
    /\ watch.next <= rev + 1
    /\ nextWatchRev <= rev + 1
    /\ \A p \in Procs :
          /\ boot[p].at = "routes" => /\ boot[p].typesRev <= rev
                                      /\ nextWatchRev <= boot[p].typesRev + 1
          /\ boot[p].at = "store" => /\ boot[p].nextRev <= rev + 1
                                     /\ nextWatchRev <= boot[p].nextRev

\* What was read at the present revision is what etcd holds, but for types that
\* changed between the two ranges.
ReadNow ==
    /\ \A p \in Procs :
          /\ boot[p].at = "routes" /\ boot[p].typesRev = rev => boot[p].types = types
          /\ boot[p].at = "store" /\ boot[p].nextRev = rev + 1 =>
                /\ boot[p].routes = routes
                /\ boot[p].types = types \/ boot[p].changed
    /\ nextWatchRev = rev + 1 =>
          /\ table.routes = Bindings(made.types, routes)
          /\ made.types = types \/ made.changed

\* p has yet to read a range, or read it after the last change.
WillPublish(p) ==
    \/ boot[p].at \in {"waiting", "types"}
    \/ boot[p].at = "routes" /\ boot[p].typesRev = rev
    \/ boot[p].at = "store" /\ boot[p].nextRev = rev + 1

\* Once the watch has told of the last change, the table is as new as it, or
\* a reload that will see the change is on its way.
ToldIsCovered ==
    failures = MaxFailures /\ watch.at = "watching" /\ watch.next > rev
      => \/ nextWatchRev = rev + 1
         \/ ~Buildable(types, routes)
         \/ reloadTimer
         \/ \E p \in Procs : WillPublish(p)

\* The inductive invariant.
IInv ==
    /\ TypeOK /\ LockHeld /\ InUseOpen /\ NoLeak /\ TableOfActive
    /\ ReadInOrder /\ ReadNow /\ ToldIsCovered

USE DEF Procs, etcdVars, runVars, published, connVars, faultVars

-----------------------------------------------------------------------------
(***************************************************************************)
(* The largest route_id of a contest, which sorting and overwriting pick.  *)
(***************************************************************************)
\* A finite set of numbers that is not empty has a largest one.  (Of the sets
\* that had none, a smallest one would lose an element and still have none.)
LEMMA FiniteSetHasMax ==
  ASSUME NEW S \in SUBSET Nat, IsFiniteSet(S), S # {}
  PROVE  /\ Max(S) \in S
         /\ \A i \in S : Max(S) >= i
  <1>. DEFINE HasMax(T) == \E m \in T : \A i \in T : m >= i
              Without == {T \in SUBSET S : T # {} /\ ~HasMax(T)}
  <1>1. Without = {}
    <2>. SUFFICES ASSUME Without # {} PROVE FALSE
      OBVIOUS
    <2>1. Without \subseteq FiniteSubsetsOf(S)
      BY FS_Subset DEF FiniteSubsetsOf
    <2>2. IsWellFoundedOn(StrictSubsetOrdering(S), FiniteSubsetsOf(S))
      BY FS_StrictSubsetOrderingWellFounded
    <2>3. \E T \in Without : \A U \in Without : <<U, T>> \notin StrictSubsetOrdering(S)
      <3>. HIDE DEF Without
      <3>. QED  BY <2>1, <2>2, WFMin
    <2>4. PICK T \in Without : \A U \in Without : <<U, T>> \notin StrictSubsetOrdering(S)
      BY <2>3
    <2>5. PICK x \in T : TRUE
      OBVIOUS
    <2>6. CASE T = {x}
      <3>1. HasMax(T)
        BY <2>6
      <3>. QED  BY <3>1
    <2>7. CASE T # {x}
      <3>. DEFINE U == T \ {x}
      <3>1. U # {} /\ U \in SUBSET S /\ U # T /\ U \subseteq T
        BY <2>7
      <3>2. <<U, T>> \in StrictSubsetOrdering(S)
        BY <3>1 DEF StrictSubsetOrdering
      <3>3. HasMax(U)
        BY <2>4, <3>1, <3>2
      <3>4. PICK m \in U : \A i \in U : m >= i
        BY <3>3
      <3>5. HasMax(T)
        <4>1. m \in Nat /\ x \in Nat /\ m \in T
          OBVIOUS
        <4>2. CASE m >= x
          BY <3>4, <4>1, <4>2
        <4>3. CASE x > m
          <5>1. \A i \in T : x >= i
            BY <3>4, <4>1, <4>3
          <5>. QED  BY <5>1
        <4>. QED  BY <4>1, <4>2, <4>3
      <3>. QED  BY <3>5
    <2>. QED  BY <2>6, <2>7
  <1>2. HasMax(S)
    BY <1>1
  <1>. QED  BY <1>2 DEF Max

\* The later of two revisions, and the next.
LEMMA NextRevIsNext ==
  ASSUME NEW m \in Nat, NEW n \in Nat, m <= n
  PROVE  NextRev(m, n) = n + 1
  <1>1. Max({m, n}) = n
    BY DEF Max
  <1>. QED  BY <1>1 DEF NextRev

\* Build binds each method to the target of the valid type that its largest
\* route names, and to nothing if no route of the method can be bound.
LEMMA LargestIsBound ==
  ASSUME NEW t \in TypeRange, NEW r \in RouteRange, NEW m \in Methods
  PROVE  /\ Bindings(t, r)[m] \in Binding
         /\ \A i \in Bindable(t, r) : r[i].method = m =>
               /\ Bindings(t, r)[m].id \in Bindable(t, r)
               /\ Bindings(t, r)[m].id >= i
               /\ r[Bindings(t, r)[m].id].method = m
               /\ Bindings(t, r)[m].target = t[r[Bindings(t, r)[m].id].service]
  <1>. DEFINE contest == {i \in Bindable(t, r) : r[i].method = m}
              best == Max(contest)
  <1>1. contest \in SUBSET Nat /\ IsFiniteSet(contest) /\ contest \subseteq RouteIds
    <2>1. contest \subseteq RouteIds
      BY DEF Bindable
    <2>. QED  BY <2>1, MetaAssumption, FS_Subset
  <1>2. CASE contest = {}
    <2>1. Bindings(t, r)[m] = NoRoute
      BY <1>2 DEF Bindings
    <2>. QED  BY <1>2, <2>1 DEF Binding
  <1>3. CASE contest # {}
    <2>1. best \in contest /\ \A i \in contest : best >= i
      BY <1>1, <1>3, FiniteSetHasMax
    <2>2. Bindings(t, r)[m] = [id |-> best, target |-> t[r[best].service]]
      BY <1>3 DEF Bindings
    <2>. HIDE DEF best
    <2>3. t[r[best].service] \in Targets
      BY <2>1 DEF Bindable, ValidTypes
    <2>. QED  BY <1>1, <2>1, <2>2, <2>3 DEF Binding
  <1>. QED  BY <1>2, <1>3

LEMMA BindingsType ==
  ASSUME NEW t \in TypeRange, NEW r \in RouteRange
  PROVE  Bindings(t, r) \in [Methods -> Binding]
  <1>1. \A m \in Methods : Bindings(t, r)[m] \in Binding
    BY LargestIsBound
  <1>. QED  BY <1>1 DEF Bindings

-----------------------------------------------------------------------------
(***************************************************************************)
(* The steps.                                                              *)
(***************************************************************************)
BootPlaces == {"idle", "waiting", "types", "routes", "store", "swap"}

Boot == [at : BootPlaces, types : TypeRange, typesRev : 0 .. MaxRev,
         routes : RouteRange, nextRev : Nat, gen : Nat, changed : BOOLEAN]

LEMMA IdleBootType == IdleBoot \in Boot /\ IdleBoot.at = "idle"
  BY MetaAssumption DEF IdleBoot, Boot, BootPlaces, TypeRange, RouteRange, TypeSpecs

\* A step of the Bootstrap of p leaves those of the others alone.
LEMMA BootMoves ==
  ASSUME TypeOK, NEW p \in Procs, NEW b \in Boot, boot' = [boot EXCEPT ![p] = b]
  PROVE  /\ boot' \in [Procs -> Boot] /\ boot'[p] = b
         /\ \A q \in Procs : q # p => boot'[q] = boot[q]
  BY DEF TypeOK, Boot, BootPlaces

\* ... also when it only goes on to another place.
LEMMA BootGoesTo ==
  ASSUME TypeOK, NEW p \in Procs, NEW place \in BootPlaces,
         boot' = [boot EXCEPT ![p].at = place]
  PROVE  /\ boot' \in [Procs -> Boot] /\ boot'[p].at = place
         /\ boot'[p].types = boot[p].types /\ boot'[p].typesRev = boot[p].typesRev
         /\ boot'[p].routes = boot[p].routes /\ boot'[p].nextRev = boot[p].nextRev
         /\ boot'[p].gen = boot[p].gen /\ boot'[p].changed = boot[p].changed
         /\ \A q \in Procs : q # p => boot'[q] = boot[q]
  BY DEF TypeOK, Boot, BootPlaces

\* What a Bootstrap that ends does to the process and to Run.
LEMMA GoOnType ==
  ASSUME TypeOK, NEW p \in Procs, NEW success \in BOOLEAN, GoOn(p, success)
  PROVE  /\ phase' \in {"starting", "running", "exited"}
         /\ phase = "exited" => phase' = "exited"
         /\ watch' \in [at : {"off", "opening", "watching", "backoff"}, next : Nat]
         /\ watch'.next = watch.next
         /\ watch'.at = "watching" => watch' = watch
  BY DEF GoOn, TypeOK

\* The state when the gateway starts.
LEMMA InitInv == Init => IInv
  <1>. SUFFICES ASSUME Init PROVE IInv
    OBVIOUS
  <1>1. /\ boot \in [Procs -> Boot]
        /\ \A p \in Procs : boot[p].at \in {"idle", "waiting"}
    BY IdleBootType DEF Init, IdleBoot, Boot, BootPlaces
  <1>2. TypeOK
    <2>1. table \in [gen : Nat, routes : [Methods -> Binding]]
      BY DEF Init, Binding
    <2>2. /\ rev \in 1 .. MaxRev /\ drops \in 0 .. MaxDrops /\ failures \in 0 .. MaxFailures
          /\ made \in [types : TypeRange, changed : BOOLEAN]
      BY MetaAssumption DEF Init, TypeRange, TypeSpecs
    <2>. QED  BY <1>1, <2>1, <2>2 DEF Init, TypeOK, Boot, BootPlaces
  <1>3. LockHeld
    BY <1>1, MetaAssumption DEF Init, LockHeld, Building
  <1>4. InUseOpen /\ NoLeak /\ TableOfActive
    BY <1>1 DEF Init, InUseOpen, NoLeak, TableOfActive
  <1>5. rev = 1 /\ nextWatchRev = 0 /\ watch.next = 0 /\ watch.at = "off"
    BY DEF Init
  <1>6. ReadInOrder /\ ReadNow /\ ToldIsCovered
    BY <1>1, <1>5 DEF ReadInOrder, ReadNow, ToldIsCovered
  <1>. QED  BY <1>2, <1>3, <1>4, <1>6 DEF IInv

\* A change to etcd: nobody has been told of it yet.
LEMMA EtcdChanges ==
  ASSUME IInv, rev' = rev + 1, rev' \in 1 .. MaxRev,
         types' \in TypeRange, routes' \in RouteRange,
         UNCHANGED <<runVars, buildMu, boot, published, connVars, faultVars>>
  PROVE  IInv'
  <1>0. /\ rev \in Nat /\ boot \in [Procs -> Boot] /\ watch.next \in Nat /\ nextWatchRev \in Nat
        /\ \A p \in Procs : boot[p].typesRev \in Nat /\ boot[p].nextRev \in Nat
    BY DEF IInv, TypeOK, Boot, BootPlaces
  <1>1. TypeOK'
    BY DEF IInv, TypeOK
  <1>2. LockHeld' /\ InUseOpen' /\ NoLeak' /\ TableOfActive'
    BY DEF IInv, LockHeld, InUseOpen, NoLeak, TableOfActive
  <1>3. ReadInOrder'
    BY <1>0 DEF IInv, ReadInOrder
  <1>4. ReadNow'
    BY <1>0 DEF IInv, ReadInOrder, ReadNow
  <1>5. ToldIsCovered'
    BY <1>0 DEF IInv, ReadInOrder, ToldIsCovered
  <1>. QED  BY <1>1, <1>2, <1>3, <1>4, <1>5 DEF IInv

LEMMA ChangeInv ==
  ASSUME IInv,
         \/ \E k \in Types, spec \in TypeSpecs : ChangeType(k, spec)
         \/ \E i \in RouteIds, spec \in RouteSpecs \cup {NoSpec, BadSpec} :
               ChangeRoute(i, spec)
  PROVE  IInv'
  <1>1. rev \in 1 .. MaxRev /\ types \in TypeRange /\ routes \in RouteRange
    BY DEF IInv, TypeOK
  <1>2. ASSUME NEW k \in Types, NEW spec \in TypeSpecs, ChangeType(k, spec)
        PROVE  IInv'
    <2>1. types' \in TypeRange /\ routes' \in RouteRange
      BY <1>1, <1>2 DEF ChangeType, TypeRange
    <2>. QED  BY <1>1, <1>2, <2>1, EtcdChanges, MetaAssumption DEF ChangeType
  <1>3. ASSUME NEW i \in RouteIds, NEW spec \in RouteSpecs \cup {NoSpec, BadSpec},
               ChangeRoute(i, spec)
        PROVE  IInv'
    <2>1. types' \in TypeRange /\ routes' \in RouteRange
      BY <1>1, <1>3 DEF ChangeRoute, RouteRange
    <2>. QED  BY <1>1, <1>3, <2>1, EtcdChanges, MetaAssumption DEF ChangeRoute
  <1>. QED  BY <1>2, <1>3

\* A goroutine that waits gets the lock.
LEMMA LockInv ==
  ASSUME IInv, NEW p \in Procs, Lock(p)
  PROVE  IInv'
  <1>1. /\ boot[p].at = "waiting" /\ buildMu = "free" /\ buildMu' = p
        /\ boot' \in [Procs -> Boot] /\ boot'[p].at = "types"
        /\ \A q \in Procs : q # p => boot'[q] = boot[q]
        /\ UNCHANGED <<etcdVars, runVars, published, connVars, faultVars>>
    BY BootGoesTo DEF Lock, IInv, BootPlaces
  <1>2. TypeOK'
    BY <1>1 DEF IInv, TypeOK, Boot, BootPlaces
  <1>3. LockHeld'
    BY <1>1, MetaAssumption DEF IInv, LockHeld, Building
  <1>4. InUseOpen' /\ TableOfActive'
    BY <1>1 DEF IInv, InUseOpen, TableOfActive
  <1>5. NoLeak'
    BY <1>1 DEF IInv, NoLeak
  <1>6. ReadInOrder' /\ ReadNow'
    BY <1>1 DEF IInv, ReadInOrder, ReadNow
  <1>7. ToldIsCovered'
    BY <1>1 DEF IInv, ToldIsCovered, WillPublish
  <1>. QED  BY <1>2, <1>3, <1>4, <1>5, <1>6, <1>7 DEF IInv

\* A build that fails gives the lock back.  It had read what is in etcd now
\* only if no table can be built from that.
LEMMA FailBuildInv ==
  ASSUME IInv, NEW p \in Procs, boot[p].at \in {"types", "routes"}, FailBuild(p),
         UNCHANGED <<etcdVars, reloadTimer, published, connVars, drops>>,
         failures' \in 0 .. MaxFailures,
         failures' = MaxFailures =>
            /\ failures = MaxFailures
            /\ Buildable(types, routes) => ~WillPublish(p)
  PROVE  IInv'
  <1>1. /\ boot' \in [Procs -> Boot] /\ boot'[p] = IdleBoot /\ boot'[p].at = "idle"
        /\ \A q \in Procs : q # p => boot'[q] = boot[q]
        /\ buildMu' = "free"
    BY IdleBootType, BootMoves DEF FailBuild, IInv
  <1>2. /\ phase' \in {"starting", "running", "exited"}
        /\ phase = "exited" => phase' = "exited"
        /\ watch' \in [at : {"off", "opening", "watching", "backoff"}, next : Nat]
        /\ watch'.next = watch.next
        /\ watch'.at = "watching" => watch' = watch
    BY GoOnType DEF FailBuild, IInv
  <1>3. TypeOK'
    BY <1>1, <1>2 DEF IInv, TypeOK, Boot, BootPlaces
  <1>4. LockHeld'
    BY <1>1, MetaAssumption DEF IInv, LockHeld, Building
  <1>5. InUseOpen' /\ TableOfActive'
    BY <1>1, <1>2 DEF IInv, InUseOpen, TableOfActive
  <1>6. NoLeak'
    BY <1>1 DEF IInv, NoLeak
  <1>7. ReadInOrder' /\ ReadNow'
    BY <1>1, <1>2 DEF IInv, ReadInOrder, ReadNow
  <1>8. ToldIsCovered'
    <2>1. \A q \in Procs : q # p /\ WillPublish(q) => WillPublish(q)'
      BY <1>1 DEF WillPublish
    <2>. QED  BY <1>1, <1>2, <2>1 DEF IInv, ToldIsCovered
  <1>. QED  BY <1>3, <1>4, <1>5, <1>6, <1>7, <1>8 DEF IInv

LEMMA RangeFailsInv ==
  ASSUME IInv, NEW p \in Procs, RangeFails(p)
  PROVE  IInv'
  <1>1. failures \in 0 .. MaxFailures
    BY DEF IInv, TypeOK
  <1>2. failures' \in 0 .. MaxFailures /\ failures' # MaxFailures
    BY <1>1, MetaAssumption DEF RangeFails
  <1>. QED  BY <1>2, FailBuildInv DEF RangeFails

\* The first range.
LEMMA RangeTypesInv ==
  ASSUME IInv, NEW p \in Procs, RangeTypes(p)
  PROVE  IInv'
  <1>0. failures \in 0 .. MaxFailures
    BY DEF IInv, TypeOK
  <1>1. CASE Empty(types)
    <2>1. FailBuild(p) /\ boot[p].at = "types"
      BY <1>1 DEF RangeTypes
    <2>2. ~Buildable(types, routes)
      BY <1>1 DEF Buildable
    <2>. QED  BY <1>0, <2>1, <2>2, FailBuildInv DEF RangeTypes
  <1>2. CASE ~Empty(types)
    <2>. DEFINE b == [boot[p] EXCEPT !.types = types, !.typesRev = rev, !.at = "routes"]
    <2>1. /\ boot[p].at = "types" /\ boot' = [boot EXCEPT ![p] = b]
          /\ UNCHANGED <<etcdVars, runVars, buildMu, published, connVars, faultVars>>
      BY <1>2 DEF RangeTypes, IInv, TypeOK
    <2>2. b \in Boot /\ b.at = "routes" /\ b.types = types /\ b.typesRev = rev
      <3>1. boot[p] \in Boot /\ types \in TypeRange /\ rev \in 0 .. MaxRev
        BY MetaAssumption DEF IInv, TypeOK, Boot, BootPlaces
      <3>. QED  BY <3>1 DEF Boot, BootPlaces
    <2>. HIDE DEF b
    <2>3. /\ boot' \in [Procs -> Boot] /\ boot'[p] = b
          /\ \A q \in Procs : q # p => boot'[q] = boot[q]
      BY <2>1, <2>2, BootMoves DEF IInv
    <2>4. TypeOK'
      BY <2>1, <2>3 DEF IInv, TypeOK, Boot, BootPlaces
    <2>5. LockHeld'
      BY <2>1, <2>2, <2>3 DEF IInv, LockHeld, Building
    <2>6. InUseOpen' /\ TableOfActive'
      BY <2>1, <2>2, <2>3 DEF IInv, InUseOpen, TableOfActive
    <2>7. NoLeak'
      BY <2>1, <2>2, <2>3 DEF IInv, NoLeak
    <2>8. ReadInOrder' /\ ReadNow'
      BY <2>1, <2>2, <2>3 DEF IInv, TypeOK, ReadInOrder, ReadNow
    <2>9. ToldIsCovered'
      BY <2>1, <2>2, <2>3 DEF IInv, ToldIsCovered, WillPublish
    <2>. QED  BY <2>4, <2>5, <2>6, <2>7, <2>8, <2>9 DEF IInv
  <1>. QED  BY <1>1, <1>2

\* The second range, and the connections of a new generation.
LEMMA RangeRoutesInv ==
  ASSUME IInv, NEW p \in Procs, RangeRoutes(p)
  PROVE  IInv'
  <1>0. /\ failures \in 0 .. MaxFailures /\ builds \in Nat /\ rev \in Nat
        /\ boot \in [Procs -> Boot] /\ boot[p].typesRev \in Nat
        /\ boot[p].at = "routes" /\ boot[p].typesRev <= rev
    BY DEF IInv, TypeOK, RangeRoutes, ReadInOrder, Boot, BootPlaces
  <1>1. CASE ~Buildable(boot[p].types, routes)
    <2>1. FailBuild(p) /\ UNCHANGED <<open, builds>>
      BY <1>1 DEF RangeRoutes
    <2>2. Buildable(types, routes) => ~WillPublish(p)
      BY <1>0, <1>1 DEF WillPublish, IInv, ReadNow
    <2>. QED  BY <1>0, <2>1, <2>2, FailBuildInv DEF RangeRoutes
  <1>2. CASE Buildable(boot[p].types, routes)
    <2>. DEFINE b == [boot[p] EXCEPT !.routes = routes, !.gen = builds + 1,
                                     !.nextRev = NextRev(boot[p].typesRev, rev),
                                     !.changed = boot[p].types # types,
                                     !.at = "store"]
    <2>1. /\ boot' = [boot EXCEPT ![p] = b]
          /\ builds' = builds + 1 /\ open' = open \cup {builds + 1}
          /\ UNCHANGED <<etcdVars, runVars, buildMu, published, active, draining,
                         faultVars>>
      BY <1>0, <1>2 DEF RangeRoutes, IInv, TypeOK
    <2>2. NextRev(boot[p].typesRev, rev) = rev + 1
      BY <1>0, NextRevIsNext
    <2>3. /\ b \in Boot /\ b.at = "store" /\ b.routes = routes /\ b.gen = builds + 1
          /\ b.nextRev = rev + 1 /\ (b.types = types \/ b.changed)
      <3>1. boot[p] \in Boot /\ routes \in RouteRange /\ rev + 1 \in Nat /\ builds + 1 \in Nat
        BY <1>0 DEF IInv, TypeOK, Boot, BootPlaces
      <3>. QED  BY <2>2, <3>1 DEF Boot, BootPlaces
    <2>. HIDE DEF b
    <2>4. /\ boot' \in [Procs -> Boot] /\ boot'[p] = b
          /\ \A q \in Procs : q # p => boot'[q] = boot[q]
      BY <2>1, <2>3, BootMoves DEF IInv
    <2>5. TypeOK'
      BY <1>0, <2>1, <2>4 DEF IInv, TypeOK, Boot, BootPlaces
    <2>6. LockHeld'
      BY <1>0, <2>1, <2>3, <2>4 DEF IInv, LockHeld, Building
    <2>7. InUseOpen'
      <3>1. /\ builds + 1 \notin open \cup draining /\ active # builds + 1
            /\ open' \subseteq 1 .. builds' /\ draining' \subseteq open'
        BY <1>0, <2>1 DEF IInv, InUseOpen
      <3>. QED  BY <2>1, <2>3, <2>4, <3>1 DEF IInv, InUseOpen
    <2>8. TableOfActive'
      BY <1>0, <2>1, <2>3, <2>4 DEF IInv, TableOfActive
    <2>9. NoLeak'
      <3>1. \A q \in Procs : boot[q].at \in {"store", "swap"}
              => boot'[q].at \in {"store", "swap"} /\ boot'[q].gen = boot[q].gen
        BY <1>0, <2>4
      <3>. QED  BY <2>1, <2>3, <2>4, <3>1 DEF IInv, NoLeak
    <2>10. ReadInOrder'
      BY <1>0, <2>1, <2>3, <2>4 DEF IInv, TypeOK, ReadInOrder
    <2>11. ReadNow'
      BY <1>0, <2>1, <2>3, <2>4 DEF IInv, ReadNow
    <2>12. ToldIsCovered'
      BY <1>0, <2>1, <2>3, <2>4 DEF IInv, ToldIsCovered, WillPublish
    <2>. QED  BY <2>5, <2>6, <2>7, <2>8, <2>9, <2>10, <2>11, <2>12 DEF IInv
  <1>. QED  BY <1>1, <1>2

\* The table and the revision of the next watch are published; they are no
\* older than the ones before.
LEMMA StoreRoutesInv ==
  ASSUME IInv, NEW p \in Procs, StoreRoutes(p)
  PROVE  IInv' /\ nextWatchRev' >= nextWatchRev
  <1>1. /\ boot[p].at = "store" /\ boot' \in [Procs -> Boot] /\ boot'[p].at = "swap"
        /\ boot'[p].gen = boot[p].gen
        /\ \A q \in Procs : q # p => boot'[q] = boot[q]
        /\ nextWatchRev' = boot[p].nextRev
        /\ table' = [gen |-> boot[p].gen,
                     routes |-> Bindings(boot[p].types, boot[p].routes)]
        /\ made' = [types |-> boot[p].types, changed |-> boot[p].changed]
        /\ UNCHANGED <<etcdVars, runVars, buildMu, connVars, faultVars>>
    BY BootGoesTo DEF StoreRoutes, IInv, BootPlaces
  <1>2. /\ boot[p].nextRev \in Nat /\ boot[p].gen \in Nat /\ rev \in Nat
        /\ boot[p].types \in TypeRange /\ boot[p].routes \in RouteRange
        /\ boot[p].changed \in BOOLEAN /\ nextWatchRev \in Nat
    BY DEF IInv, TypeOK, Boot, BootPlaces
  <1>3. nextWatchRev <= boot[p].nextRev /\ boot[p].nextRev <= rev + 1
    BY <1>1 DEF IInv, ReadInOrder
  <1>4. TypeOK'
    <2>1. table' \in [gen : Nat, routes : [Methods -> Binding]]
      BY <1>1, <1>2, BindingsType
    <2>. QED  BY <1>1, <1>2, <2>1 DEF IInv, TypeOK, Boot, BootPlaces
  <1>5. LockHeld'
    BY <1>1 DEF IInv, LockHeld, Building
  <1>6. \A q \in Procs : q # p => boot[q].at \notin Building
    BY <1>1 DEF IInv, LockHeld, Building
  <1>7. InUseOpen'
    BY <1>1 DEF IInv, InUseOpen
  <1>8. TableOfActive'
    BY <1>1, <1>6 DEF IInv, TableOfActive, Building
  <1>9. NoLeak'
    <2>1. \A q \in Procs : boot[q].at \in {"store", "swap"}
            => boot'[q].at \in {"store", "swap"} /\ boot'[q].gen = boot[q].gen
      BY <1>1
    <2>. QED  BY <1>1, <2>1 DEF IInv, NoLeak
  <1>10. ReadInOrder'
    BY <1>1, <1>2, <1>3, <1>6 DEF IInv, ReadInOrder, Building
  <1>11. ReadNow'
    BY <1>1, <1>2, <1>3, <1>6 DEF IInv, ReadNow, Building
  <1>12. ToldIsCovered'
    <2>1. \A q \in Procs : q # p /\ WillPublish(q) => WillPublish(q)'
      BY <1>1 DEF WillPublish
    <2>2. nextWatchRev = rev + 1 \/ WillPublish(p) => nextWatchRev' = rev' + 1
      BY <1>1, <1>2, <1>3 DEF WillPublish
    <2>. QED  BY <1>1, <2>1, <2>2 DEF IInv, ToldIsCovered
  <1>. QED  BY <1>1, <1>2, <1>3, <1>4, <1>5, <1>7, <1>8, <1>9, <1>10, <1>11, <1>12 DEF IInv

\* The connections are exchanged; from here on those of the table are active.
LEMMA SwapConnsInv ==
  ASSUME IInv, NEW p \in Procs, SwapConns(p), phase # "exited"
  PROVE  IInv'
  <1>1. /\ boot[p].at = "swap" /\ boot' \in [Procs -> Boot]
        /\ boot'[p] = IdleBoot /\ boot'[p].at = "idle"
        /\ \A q \in Procs : q # p => boot'[q] = boot[q]
        /\ buildMu' = "free" /\ active' = boot[p].gen
        /\ draining' = draining \cup ({active} \ {0})
        /\ UNCHANGED <<etcdVars, reloadTimer, published, open, builds, faultVars>>
    BY IdleBootType, BootMoves DEF SwapConns, IInv
  <1>2. /\ phase' \in {"starting", "running", "exited"}
        /\ watch' \in [at : {"off", "opening", "watching", "backoff"}, next : Nat]
        /\ watch'.next = watch.next
        /\ watch'.at = "watching" => watch' = watch
    BY GoOnType DEF SwapConns, IInv
  <1>3. boot[p].gen \in Nat /\ boot[p].gen \in open \ (draining \cup {active})
    BY <1>1 DEF IInv, TypeOK, InUseOpen, Boot, BootPlaces
  <1>4. \A q \in Procs : q # p => boot[q].at \notin Building
    BY <1>1 DEF IInv, LockHeld, Building
  <1>5. TypeOK'
    BY <1>1, <1>2, <1>3 DEF IInv, TypeOK, Boot, BootPlaces
  <1>6. LockHeld'
    BY <1>1, <1>4, MetaAssumption DEF LockHeld, Building
  <1>7. InUseOpen'
    BY <1>1, <1>3, <1>4 DEF IInv, InUseOpen, Building
  <1>8. TableOfActive'
    BY <1>1, <1>4 DEF IInv, TableOfActive, Building
  <1>9. NoLeak'
    BY <1>1, <1>3, <1>4 DEF IInv, NoLeak, Building, InUseOpen
  <1>10. ReadInOrder' /\ ReadNow'
    BY <1>1, <1>2 DEF IInv, ReadInOrder, ReadNow
  <1>11. ToldIsCovered'
    <2>1. \A q \in Procs : WillPublish(q) => WillPublish(q)'
      BY <1>1 DEF WillPublish
    <2>. QED  BY <1>1, <1>2, <2>1 DEF IInv, ToldIsCovered
  <1>. QED  BY <1>5, <1>6, <1>7, <1>8, <1>9, <1>10, <1>11 DEF IInv

\* Connections that nobody uses any more are closed.
LEMMA CloseDrainedInv ==
  ASSUME IInv, NEW g \in draining, CloseDrained(g)
  PROVE  IInv'
  <1>1. /\ draining' = draining \ {g} /\ open' = open \ {g}
        /\ UNCHANGED <<etcdVars, runVars, buildMu, boot, published, active, builds,
                       faultVars>>
    BY DEF CloseDrained
  <1>2. TypeOK' /\ LockHeld' /\ ReadInOrder' /\ ReadNow' /\ TableOfActive'
    BY <1>1 DEF IInv, TypeOK, LockHeld, ReadInOrder, ReadNow, TableOfActive
  <1>3. InUseOpen' /\ NoLeak'
    BY <1>1 DEF IInv, InUseOpen, NoLeak
  <1>4. ToldIsCovered'
    BY <1>1 DEF IInv, ToldIsCovered, WillPublish
  <1>. QED  BY <1>2, <1>3, <1>4 DEF IInv

\* The gateway stops.
LEMMA CloseInv ==
  ASSUME IInv, Close
  PROVE  IInv'
  <1>1. /\ phase' = "exited" /\ open' = open \ {active} /\ active' = 0
        /\ UNCHANGED <<etcdVars, watch, reloadTimer, buildMu, boot, published,
                       draining, builds, faultVars>>
    BY DEF Close
  <1>2. TypeOK' /\ LockHeld' /\ ReadInOrder' /\ ReadNow' /\ TableOfActive'
    BY <1>1 DEF IInv, TypeOK, LockHeld, ReadInOrder, ReadNow, TableOfActive
  <1>3. InUseOpen' /\ NoLeak'
    <2>1. builds \in Nat /\ open \subseteq 1 .. builds /\ 0 \notin open
      BY DEF IInv, InUseOpen, TypeOK
    <2>2. active \notin draining
      BY <2>1 DEF IInv, InUseOpen
    <2>3. InUseOpen'
      BY <1>1, <2>1, <2>2 DEF IInv, InUseOpen
    <2>4. NoLeak'
      BY <1>1 DEF IInv, NoLeak
    <2>. QED  BY <2>3, <2>4
  <1>4. ToldIsCovered'
    BY <1>1 DEF IInv, ToldIsCovered, WillPublish
  <1>. QED  BY <1>2, <1>3, <1>4 DEF IInv

\* The watch begins where the table that is published ends.
LEMMA OpenWatchInv ==
  ASSUME IInv, OpenWatch
  PROVE  IInv'
  <1>1. /\ watch' = [at |-> "watching", next |-> nextWatchRev]
        /\ UNCHANGED <<etcdVars, phase, reloadTimer, buildMu, boot, published,
                       connVars, faultVars>>
    BY DEF OpenWatch
  <1>2. TypeOK' /\ LockHeld' /\ InUseOpen' /\ NoLeak' /\ TableOfActive'
    BY <1>1 DEF IInv, TypeOK, LockHeld, InUseOpen, NoLeak, TableOfActive
  <1>3. nextWatchRev \in Nat /\ rev \in Nat /\ nextWatchRev <= rev + 1
    BY DEF IInv, TypeOK, ReadInOrder
  <1>4. ReadInOrder' /\ ReadNow'
    BY <1>1, <1>3 DEF IInv, ReadInOrder, ReadNow
  <1>5. ToldIsCovered'
    BY <1>1, <1>3 DEF ToldIsCovered
  <1>. QED  BY <1>2, <1>4, <1>5 DEF IInv

\* The watch tells of one change or more, and arms the timer.
LEMMA WatchResponseInv ==
  ASSUME IInv, WatchResponse
  PROVE  IInv'
  <1>0. watch \in [at : {"off", "opening", "watching", "backoff"}, next : Nat] /\ rev \in Nat
    BY DEF IInv, TypeOK
  <1>1. PICK n \in watch.next + 1 .. rev + 1 : watch' = [watch EXCEPT !.next = n]
    BY DEF WatchResponse
  <1>2. /\ watch'.at = watch.at /\ watch'.next = n /\ n \in Nat /\ n <= rev + 1
        /\ watch' \in [at : {"off", "opening", "watching", "backoff"}, next : Nat]
        /\ reloadTimer' = TRUE
        /\ UNCHANGED <<etcdVars, phase, buildMu, boot, published, connVars, faultVars>>
    BY <1>0, <1>1 DEF WatchResponse
  <1>3. TypeOK' /\ LockHeld' /\ InUseOpen' /\ NoLeak' /\ TableOfActive'
    BY <1>2 DEF IInv, TypeOK, LockHeld, InUseOpen, NoLeak, TableOfActive
  <1>4. ReadInOrder' /\ ReadNow' /\ ToldIsCovered'
    BY <1>2 DEF IInv, ReadInOrder, ReadNow, ToldIsCovered
  <1>. QED  BY <1>3, <1>4 DEF IInv

LEMMA WatchEndsInv ==
  ASSUME IInv, WatchEnds
  PROVE  IInv'
  <1>1. /\ watch' = [watch EXCEPT !.at = "backoff"] /\ drops' = drops - 1 /\ drops > 0
        /\ UNCHANGED <<etcdVars, phase, reloadTimer, buildMu, boot, published,
                       connVars, failures>>
    BY DEF WatchEnds
  <1>2. /\ drops' \in 0 .. MaxDrops /\ watch'.next = watch.next /\ watch'.at = "backoff"
        /\ watch' \in [at : {"off", "opening", "watching", "backoff"}, next : Nat]
    BY <1>1, MetaAssumption DEF IInv, TypeOK
  <1>3. TypeOK' /\ LockHeld' /\ InUseOpen' /\ NoLeak' /\ TableOfActive'
    BY <1>1, <1>2 DEF IInv, TypeOK, LockHeld, InUseOpen, NoLeak, TableOfActive
  <1>4. ReadInOrder' /\ ReadNow' /\ ToldIsCovered'
    BY <1>1, <1>2 DEF IInv, ReadInOrder, ReadNow, ToldIsCovered
  <1>. QED  BY <1>3, <1>4 DEF IInv

\* A goroutine begins a Bootstrap.
LEMMA BeginsInv ==
  ASSUME IInv, NEW p \in Procs, boot[p].at = "idle",
         boot' = [boot EXCEPT ![p].at = "waiting"], reloadTimer' \in BOOLEAN,
         UNCHANGED <<etcdVars, phase, watch, buildMu, published, connVars, faultVars>>
  PROVE  IInv'
  <1>1. /\ boot' \in [Procs -> Boot] /\ boot'[p].at = "waiting"
        /\ \A q \in Procs : q # p => boot'[q] = boot[q]
    BY BootGoesTo DEF IInv, BootPlaces
  <1>2. TypeOK'
    BY <1>1 DEF IInv, TypeOK, Boot, BootPlaces
  <1>3. LockHeld'
    BY <1>1 DEF IInv, LockHeld, Building
  <1>4. InUseOpen' /\ TableOfActive'
    BY <1>1 DEF IInv, InUseOpen, TableOfActive
  <1>5. NoLeak'
    BY <1>1 DEF IInv, NoLeak
  <1>6. ReadInOrder' /\ ReadNow'
    BY <1>1 DEF IInv, ReadInOrder, ReadNow
  <1>7. ToldIsCovered'
    BY <1>1 DEF IInv, ToldIsCovered, WillPublish
  <1>. QED  BY <1>2, <1>3, <1>4, <1>5, <1>6, <1>7 DEF IInv

\* Every step preserves the invariant.
LEMMA NextInv == IInv /\ [Next]_vars => IInv'
  <1>. SUFFICES ASSUME IInv, [Next]_vars PROVE IInv'
    OBVIOUS
  <1>1. CASE UNCHANGED vars
    <2>1. TypeOK' /\ LockHeld' /\ InUseOpen' /\ NoLeak' /\ TableOfActive'
      BY <1>1 DEF vars, IInv, TypeOK, LockHeld, InUseOpen, NoLeak, TableOfActive
    <2>2. ReadInOrder' /\ ReadNow' /\ ToldIsCovered'
      BY <1>1 DEF vars, IInv, ReadInOrder, ReadNow, ToldIsCovered, WillPublish
    <2>. QED  BY <2>1, <2>2 DEF IInv
  <1>2. ASSUME NEW p \in Procs, Bootstrap(p), phase # "exited"
        PROVE  IInv'
    BY <1>2, LockInv, RangeTypesInv, RangeRoutesInv, StoreRoutesInv, SwapConnsInv
    DEF Bootstrap
  <1>3. ASSUME Reload
        PROVE  IInv'
    <2>1. CASE BackoffOver
      BY <2>1, BeginsInv DEF BackoffOver, IInv, TypeOK
    <2>2. ASSUME NEW p \in Timers, ReloadTimerExpires(p)
          PROVE  IInv'
      BY <2>2, BeginsInv DEF ReloadTimerExpires
    <2>. QED  BY <1>3, <2>1, <2>2, OpenWatchInv, WatchResponseInv DEF Reload
  <1>. QED  BY <1>1, <1>2, <1>3, ChangeInv, RangeFailsInv, WatchEndsInv, CloseDrainedInv,
               CloseInv DEF Next

-----------------------------------------------------------------------------
\* The inductive invariant holds in every reachable state.
THEOREM Invariant == Spec => []IInv
  BY InitInv, NextInv, PTL DEF Spec

\* Every component of the state keeps its type.
THEOREM TypeCorrect == Spec => []TypeOK
  <1>1. IInv => TypeOK
    BY DEF IInv
  <1>. QED  BY <1>1, Invariant, PTL

\* While the gateway runs, the routes in its table lead to open connections:
\* those of the active generation, or of the one that is being installed.
THEOREM TableStaysOpen == Spec => []TableOpen
  <1>1. IInv => TableOpen
    <2>. SUFFICES ASSUME IInv, table.gen # 0, phase = "running" PROVE table.gen \in open
      BY DEF TableOpen
    <2>. QED  BY DEF IInv, TableOfActive, InUseOpen
  <1>. QED  BY <1>1, Invariant, PTL

\* No connection is lost track of.
THEOREM NothingLeaks == Spec => []NoLeak
  <1>1. IInv => NoLeak
    BY DEF IInv
  <1>. QED  BY <1>1, Invariant, PTL

\* A reload publishes what it read under the lock, so the table never goes
\* back, however many reloads are at work.
THEOREM NewestAlwaysWins == Spec => NewestWins
  <1>1. IInv /\ [Next]_vars => [nextWatchRev' >= nextWatchRev]_vars
    <2>. SUFFICES ASSUME IInv, [Next]_vars PROVE nextWatchRev' >= nextWatchRev
      OBVIOUS
    <2>1. ASSUME NEW p \in Procs, Bootstrap(p) \/ RangeFails(p)
          PROVE  StoreRoutes(p) \/ nextWatchRev' = nextWatchRev
      BY <2>1 DEF Bootstrap, Lock, RangeTypes, RangeRoutes, SwapConns, RangeFails
    <2>2. ASSUME ~\E p \in Procs : Bootstrap(p) \/ RangeFails(p)
          PROVE  nextWatchRev' = nextWatchRev
      BY <2>2 DEF Next, vars, ChangeType, ChangeRoute, Reload, OpenWatch, WatchResponse,
         BackoffOver, ReloadTimerExpires, WatchEnds, CloseDrained, Close
    <2>3. nextWatchRev \in Nat
      BY DEF IInv, TypeOK
    <2>. QED  BY <2>1, <2>2, <2>3, StoreRoutesInv
  <1>. QED  BY <1>1, Invariant, PTL DEF Spec, NewestWins

\* When the gateway has seen every change and no request has failed, the table
\* is made of the routes etcd holds and of its types, unless a type changed
\* between the two ranges of the build that made it: what was changed during a
\* reload, or between a reload and the watch, has started another one.
THEOREM RoutesStayCurrent == Spec => []RoutesCurrent
  <1>1. IInv => RoutesCurrent
    <2>. SUFFICES ASSUME IInv, Quiescent, failures = MaxFailures, Buildable(types, routes)
                  PROVE  /\ table.routes = Bindings(made.types, routes)
                         /\ made.types = types \/ made.changed
      BY DEF RoutesCurrent, RoutesAreCurrent
    <2>1. nextWatchRev = rev + 1
      BY DEF IInv, ToldIsCovered, Quiescent, WillPublish
    <2>. QED  BY <2>1 DEF IInv, ReadNow
  <1>. QED  BY <1>1, Invariant, PTL

==============================================================================
