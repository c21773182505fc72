# kd48 in TLA+

kd48 is a game backend in Go: a WebSocket **gateway**, a **user service** and a
**lobby service** behind it, and a **config-loader** tool. MySQL keeps what is
durable, Redis keeps sessions and carries notifications, etcd keeps addresses,
routes and service types. Most of the difficulty is not in any one function but
in what several goroutines, processes and stores do between each other's steps.
This directory models that part, checks it with TLC, and proves with TLAPS, for
every number of clients, calls and failures, the safety properties the runs check
and both refinements.

`PROJECT.json` lists the runs, the lines each definition stands for (`map`), a
faulty variant for every property (`mutants`), the disagreements found between
code and documentation (`findings`) and the hazards the properties are for.

## 1. The system

| component | state | operations | talks to |
|---|---|---|---|
| heartbeat manager (`gateway/internal/ws/heartbeat.go`) | per client: last Ping, Pong, activity, missed checks, `isAlive` | RecordPing/Pong/Activity, CheckTimeout, Get… | called under the connection manager's lock |
| connection manager (`connection_manager.go`) | `connections`, `userConnections`, metrics, `connMu` | Register, Unregister, RegisterUserConnection, RecordActivity, CheckAndDisconnect, DisconnectByUserID, Start, Stop | a 5 s ticker, handlers and the subscriber call it |
| WebSocket handler (`handler.go`) | one goroutine per connection, `isAuthenticated` | the read loop of `ServeWS`, one deferred cleanup | route table, ingress calls, connection manager |
| session subscriber (`session_subscriber.go`) | a Redis subscription | receive, `DisconnectByUserID` | Redis channel of the user service |
| meta bootstrap (`gateway/internal/bootstrap`) | active and draining gRPC connections, `nextWatchRev`, a debounce timer; publishes the route table | Bootstrap, Build, Run, scheduleReload, Close | etcd ranges and watch |
| user service (`services/user`) | rows in MySQL; `user:session:{id}` and `session:{token}` in Redis | Login, Register, the session script, PUBLISH | gateway (through ingress), gateways' subscribers |
| data source routing (`pkg/dsroute`) | two route tables, the pools | longest-prefix match, NewRouter, UpdateRoutes, Get, Watch | etcd; used by both services |
| lobby configuration (`services/lobby/internal/config`) | one snapshot per configuration | LoadAll, LoadOne, Watcher | MySQL rows, Redis channel |
| config-loader (`tools/config-loader`) | the sheet it has parsed | parse, validate, write JSON, insert a row, publish, generate Go | the sheet's author; the lobby, through MySQL, Redis and the generated code |
| service registry (`pkg/registry`) | a lease and a key in etcd | NewClient, RegisterService, keep-alive | etcd, the gateway's resolver; both services' `main` |
| service processes (`services/*/cmd/*/main.go`) | pools, listener, place in `main` | start-up in order, wait for a signal, GracefulStop | MySQL, Redis, etcd |
| seed-gateway-meta (`gateway/cmd`) | none | five puts in a fixed order | etcd keys the gateway and the services start from |

What is hard in it:

* **Interleaving.** Handlers, ticker and subscriber share the connection maps
  and the sockets; the ticker writes to sockets with the lock held, the kick
  writes after it has released it. Reload timers that have expired run beside
  each other and beside the watch loop.
* **Two systems, one fact.** Who is logged in is known to Redis and, separately,
  to each gateway; a Pub/Sub message without memory is all that connects them.
* **Read, then watch.** Three components read a state and then subscribe to its
  changes (meta bootstrap, data source routing, lobby configuration), and each
  treats the gap between the two differently.
* **Lost answers.** Redis and MySQL calls may have happened although an error
  was seen; clients retry.
* **Leases.** A key in etcd outlives the process that put it, and a process may
  outlive its key; a restart at the same address has both at once.
* **One format, three authors.** A sheet's cells are typed by the parser, its Go
  struct by the generator, and the lobby decodes the one with the other.

What makes each correct: a connection in the maps is served, monitored and
counted once; a dropped one ends. A token and its account name each other; a
replaced session is announced where its connection is; after a takeover one
terminal should be left. A route
table never leads to a closed connection, and old contents never replace new
ones. The longest prefix wins. A service at rest uses what its store holds. A
served configuration never goes back. What is published says what the sheet
says, and can be decoded. Who is registered serves, and a dead process's key
goes.

## 2. Modules

| module | models | notes |
|---|---|---|
| `Heartbeat` | heartbeat.go | operators; time is kept as *ages* that grow and saturate |
| `ConnectionManager` | connection_manager.go | the manager's methods as atomic actions: the **abstract** gateway |
| `Gateway` | handler.go, session_subscriber.go, the ticker | the goroutines step by step over the same state; shown to implement `ConnectionManager` |
| `SingleSession` | (promise of server.go) | abstract: an account has at most one session, a login replaces it in one step |
| `UserService` | server.go, ingress.go | each call step by step, with lost answers, repeated scripts and expirations; implements `SingleSession` |
| `SessionTakeover` | the user service together with the gateways | extends `UserService` by the mapping part of the gateways: a step is one of the service or one of a gateway |
| `MetaBootstrap` | bootstrap/*.go, the start of the gateway's main | etcd, watch, timers, lock, connection generations |
| `Lpm` | dsroute/lpm.go | operators: the loop as a fold, the declarative reference beside it |
| `RouteTables` | (any table of rules) | what `Lpm` has to find in it, and, for TLC, all the small ones |
| `DsRouting` | dsroute loader and router, start of a service | Get, NewRouter, Watch, UpdateRoutes |
| `LobbyConfig` | lobby config package, config-loader's publication | the tool's runs, MySQL rows, the channel, the lobby |
| `ConfigSheet` | config-loader's csvparser, validator, jsongen, gogen | operators over texts of lexemes, no RECURSIVE |
| `ConfigTool` | config-loader's main.go | one run of the tool, with its exits, beside an author who saves the sheet |
| `ServiceProcess` | both services' main.go, pkg/registry, seed-gateway-meta, pools of pkg/conf | processes, leases, keys, outages, restarts |
| `ConnectionManagerProofs`, `GatewayProofs`, `SessionTakeoverProofs`, `MetaBootstrapProofs`, `DsRoutingProofs`, `LobbyConfigProofs`, `ConfigToolProofs`, `ServiceProcessProofs` | | theorems about the module each is named after and those it extends, with their lemmas |

`MC*` modules give the constants values; every other `.cfg` is one question put
to the same instance.

How state and actions correspond. An action is the code between two points where
another goroutine can be seen: a critical section of `connMu` or `buildMu`, one
request to MySQL, Redis or etcd, one write to a socket. `pc`, `boot`, `req` and
`load`-like variables say where a goroutine stands, named for what it does next.
Generated identifiers are not reused: a client or token is named by the
connection or the call that drew it. Contents (messages, sheets, specs) are told
apart only as far as control depends on them: a route is a session route or
not, a spec is valid or not, a row can be parsed or not.

*Gateway.* `connections`, `userConnections`, `metrics` and `hb` are the manager's
fields; `sock` says whether a connection's socket is open, `checker` and `sub`
where ticker and subscriber are. Holding the lock across the ticker's writes is
a guard (`checker`'s place) on everybody else's critical sections. The handshake
deadline is one of the reasons for which `ReadError` happens. `stopped` says
that the ticker's goroutine has returned; a subscriber whose goroutine has
returned is one to which nothing more comes (`toCome = 0`).

*UserService.* The script is one step; its two keys are `userSession` and
`tokenOwner`. A fault at a request has two outcomes, not done and done but
unanswered. `channel` counts the messages of each account on their way to each
gateway: Pub/Sub gives no order that the receivers could tell.

*SessionTakeover.* A step is one of the service or of a gateway, in any order:
calls of an account run side by side, an invalidation is handled whenever the
subscriber's goroutine comes to it. `ReplyField` is the JSON name under which a
reply carries the user; the code's is `userId`, the gateway looks for `user_id`,
and what is checked and proved of the code has the former. `told` is a history
variable: the connections whose gateway has handled an invalidation of their user
since they were replaced. No action reads it.

*MetaBootstrap.* Connections of one build are one generation. The two ranges are
two steps; `nextWatchRev` is computed as the code does. Debounce and drain
delays are nondeterministic (any time). `made` is a history variable of what the
build that published the table had read: its types, and whether one of them
changed before its second range.

*DsRouting.* `Pools` stands for the two maps of pools `NewRouter` is given
(router.go:26-36), as if a service had the same names in both; a rule whose pool is
one of the other kind only is not told apart from one that is there.

*LobbyConfig.* `asked` and `found` hold at most one element: what LoadOne works
for and what it has read. The column LoadOne selects and the tags the tool
inserts are constants, since the code's do not fit the table (`LobbyColumn.cfg`,
`LobbyTags.cfg`) and nothing could be said of what follows: the
passing run and the theorems are about a code in which they do. `missed` is a history variable and no action reads it.

*ConfigSheet, ConfigTool.* A text is a sequence of lexemes: the delimiters one by
one, every other run of characters as one element, of which only matters whether
it is a numeral and which (`Number`). So "7", "07" and "-8" can be told apart as
texts and compared as numbers, and quotes, spaces, `|` and `=` are looked at
where the code looks at them. The widths of int32 and int64 are scaled down
(`Max32`, `Max64`). A file comes with what its author means by it (`means`), or
`None` if it is not written by the rules. `Decodes` is `json.Unmarshal` into the
generated struct, modelled from how lobby's loader uses it.

*ServiceProcess.* `at` is the place in `main`; a step that opens pools or loads
configurations changes nothing that others see, and any of them may fail. Leases
are kept per generation of an address, since the lease of a process that died
runs on beside that of the one started in its place. `Tick` is an interval of the
keep-alive; it comes when every client that reaches etcd has renewed, as etcd's
client renews three times in a lease's time.

## 3. Runs

| run | shows | bounds |
|---|---|---|
| connection_manager | types; `ActiveConnections` never overcounts; lifetime counters agree; every connection has a living heartbeat entry; the gauge is short by no more than there were kicks, so nothing else is counted off twice | 2 clients, 2 users, 2 missed checks |
| gateway | every connection in the map has its goroutine; a dropped one is being closed; the goroutines implement the atomic manager | 2 clients, 1 user, 1 kick |
| gateway_live | a dropped connection's goroutine ends; no goroutine waits in a read for ever | 1 client, 2 users |
| user_service | keys mirror each other, sessions have accounts, one caller is told it was first, replaced sessions are announced, refinement of `SingleSession` | 3 calls, 2 accounts, 2 faults, 1 expiration |
| takeover | for calls, replies and invalidations in any order and the reply as it is written: at rest and without a failure the gateway of every connection whose session a login replaced has been told of it since (that it then finds the connection is what `takeover_encoding` refutes; replacements by a registration are told to nobody, section 5) | 3 connections on 2 gateways, 2 accounts, 1 fault, 1 expiration |
| meta | the table leads to open connections only; none is lost track of; no reload brings older contents back; at rest the table is made of the routes of etcd, and of its types unless one changed between the two ranges of a build; reloads end | 3 revisions, 1 timer beside the main loop, 2 ends of a watch, 1 failed request |
| lpm | the loop finds the first longest match | all tables of 3 rules, prefixes to length 2 |
| ds_routing | from the first event on a service at rest is current; what it starts with is usable | 4 tables, 4 revisions, 1 end of the watch, 1 failed read |
| lobby | configurations never go back; a message never loads an older row than it announced; at rest the lobby is behind only where somebody failed to tell it | 3 runs of the tool, 2 names, 3 revisions, 1 fault or restart |
| config_tool | a sheet written by the rules, as far as listed below, is published as its author means it; no column and no entry with an integer key covers another; rows decode with the generated struct in typed columns; nothing leaves the tool unchecked | every text of up to 3 lexemes under every of 16 types, 24 entries in pairs under 8 map types, 10 names in pairs, sheets by the rules with 8 words; one later save |
| service_process | the registered serve; only an outage takes a serving process's key; a dead process's key goes; a listening process registers, ends or is cut off | 2 addresses (user, lobby), 2 starts each, a lease of 3 intervals, 1 outage |
| takeover_encoding | the finding of section 5 | as small as shows it |

What of the CSV format `WrittenIsMeant` covers: numbers and strings as elements of
integer and string arrays and as keys and values of maps; strings in quotes of
either kind, with spaces, `=` and the other kind of quote in them; spaces
around delimiters; an empty element of an integer array. What it leaves out,
since the code does not take it as the format means it: quotes written twice
and a key with the other kind of quote beside an `=` in quotes
(`ToolOtherQuotes.cfg`), and `|` within quotes, where the code splits
(types.go:125, :144) and the format says nothing. An entry without `=` is passed
over (types.go:156), and of two equal string keys the later wins without a word
(types.go:239-291): neither is an error, and no property says it is.

A type invariant is listed where something could really break it (a counter
below zero, a second load, a key without a lease); the `TypeOK` of the other
modules hold in their instances too, as adding one to the configuration shows.

Some properties are promises of fault-free behaviour and say so in their first
conjunct: `ReplacedAreTold` (no lost message, no failed request, no session that
expires under its connection), `RoutesCurrent` (no failed range request),
`RefreshedIsCurrent` (no failed read, no closed watch). `TypedIsLoadable` is
about the types the parser types as the generator does (`Typed`); for the
others see section 5. Faults happen in the
same runs, where the other properties hold without that condition; what the
code does after such a fault is in section 5 or follows from it.

Why the bounds are enough: the interesting cases are races of two actors over
one entry (two clients with one user, two calls on one account, two timers, two
runs of the tool, two processes at one address) with a third to come in between
where the code has a third (ticker and subscriber; a second gateway). Timeouts
compare ages, so one value below and one above each limit is all that can be
told apart; ages saturate there. Bounds on events (kicks, faults, writes, restarts) end runs: those
configurations say `CHECK_DEADLOCK FALSE`, as the system is then at rest. Those
that run for ever (connection manager, gateway) check deadlock.

Fairness. `Gateway!FairSpec` has it for what the scheduler, the ticker or a
timeout drives: steps of goroutines that are not waiting for a peer, a read on a
closed socket, the subscriber, the check, the passage of time. Nothing is
assumed of peers; writes to a socket are assumed to return, although the code
sets no write deadline (a hazard listed in `PROJECT.json`).
`MetaBootstrap!FairSpec` has it for Bootstrap and for timers and backoff;
nothing is assumed of etcd changes.
`ServiceProcess!FairSpec` has it for the steps of `main`, which all have an end
(requests time out or are answered, `Fails` is always open to them), for the
renewals of etcd's client and for time. Nobody has to start a process, to
signal, to seed or to mend the network.

In `config_tool` the two halves of a race are the save and the second reading of
the file; the rest is enumeration: the parsers look at no more than two quotes,
two separators or two keys at a time, which texts of three lexemes and pairs of
entries have in every arrangement.

## 4. What is proved

All for any constants that satisfy the assumptions the modules name. Two theorems
assume more, in their `ASSUME`: `NobodyIsMapped` that the reply is written as it is
today, and `OnlyTheMissedAreBehind` that the column asked for is one the table has.

* `ConnectionManagerProofs`: `TypeCorrect`, `ActiveNeverOvercounts`,
  `CountersAgree`, `AllMonitored`, `UndercountsExplained`. The properties are not
  inductive together without `MissedBelowLimit`: a living client has missed
  fewer checks than the limit, else the next check could count past the type.
  `UndercountsExplained` weighs the gauge against the kicks among the disconnects:
  only a kick of a user who is mapped to a connection that is gone takes one off
  that is not there.
  Cardinalities are handled with the library's finite-set theorems.
* `GatewayProofs`: `AllServed`, `DroppedAreClosing`, `TypeCorrect`, and
  `Implementation`, the step simulation of `ConnectionManager`. The invariant
  adds that the clients the ticker has collected stay in the map until they are
  cut (`CutsHeld`), that whoever is served has a heartbeat entry
  (`ServedAreTracked`) with misses below the limit (`MissedBelowLimit`), and that
  a kick under way names a client (`KickHasClient`). A client counts as cut from the moment the ticker collected
  it, so the check is one step at `CheckBegin` and stutters while it writes
  (`CutWrite`, `CutClose`); that this is sound is the lock: nobody else's
  critical section runs while there is somebody to cut (`NobodyToCut`). One
  lemma per action says to which method it maps.
* `SessionTakeoverProofs`, first for the service by itself (`UserService`):
  `ServiceTypeCorrect`, `KeysAlwaysMirror`, `SessionsOfAccounts`,
  and `SingleSessionImplemented`, the step simulation of `SingleSession`. The
  invariant `UserInv` adds what a call knows at each of its places (`CallsHaveAccounts`)
  and that a valid token belongs to the account of the call that drew it
  (`TokensOfCaller`). `OneIsFirst` counts: as many calls were told that they are
  the first as there were sessions that began from nothing, and of these each but
  the present one has expired (`SessionsCounted`). `ReplacementsAnnounced` counts
  finished replacements against messages and failures. Neither assumes that
  there are finitely many calls in all, only that finitely many have begun, which
  is `AlwaysCountable`.

  Then for the service together with the gateways, where every step of the
  service keeps `UserInv` by the lemmas above. Without further assumptions:
  `TypeCorrect`, with the service's `KeysMirror` in the composed system, and
  `ReplacedHearOfIt`. Its invariant `ToldOrToCome` is that as long as nothing has
  failed or expired, whoever holds a session that was replaced was told, or a
  message is on its way to his gateway, or a login of his account is about to
  publish (`Announcing`), or the present session is a registration's that told
  nobody. For the name `userId` that the ingress writes today: `NobodyIsMapped`,
  the finding of section 5 for every number of gateways and calls. What
  takeover is for, one terminal per account, is thereby not proved but refuted.
* `MetaBootstrapProofs`: `TableStaysOpen`, `NothingLeaks`, `NewestAlwaysWins`,
  `RoutesStayCurrent`, `TypeCorrect`, for any number of timers and failures. The
  invariant is in three parts: one Bootstrap at a time holds `buildMu`, and what
  it is about to install is open (`LockHeld`, `InUseOpen`, `TableOfActive`); what
  is read is never older than what is published (`ReadInOrder`), and at the
  present revision is what etcd holds (`ReadNow`); and a change that was reported
  and is not yet in the table has somebody at work who will read it
  (`ToldIsCovered`). `RoutesStayCurrent` says of which routes and types the table is
  made, with the change of a type between two ranges as its only exception.
* `DsRoutingProofs`. `LongestAlwaysWins`: in a table of any length, over any
  letters, `ResolvePoolName` returns the first of the longest matches and nothing
  only where nothing matches. The loop is a fold, and the argument its usual
  invariant: what has been found after i rules is the first longest match among
  them (`BetterIsBest`). `AlwaysStartedSafely` rests on the same lemma (what a key
  resolves to is a rule of the table, so `NewRouter` has checked its pool) and on
  nobody being told of anything before the watch is open (`ToldWhileWatching`,
  `RoutesChecked`). `RefreshedStaysCurrent`: whatever a reload has read or stored
  is what etcd holds now, or an event is still to come that starts the next reload
  (`ReadOrToCome`). This holds at each of its steps, so writes may fall between the
  two reads or between the two stores. A watch that ends or a read that fails makes
  it false, and the theorem says so (`NoFault`). `TypeCorrect` goes with them.

  How a fold is proved about. The library's induction theorems cannot be used, so
  induction up to n is derived from the well-foundedness of < on the naturals, as
  a statement about a set of numbers (`UpTo`). `FoldLeft` is a recursive function on sets
  of places; that it exists is `PartialFoldsExist`, for a step that is a *function*
  F on a set D of intermediate results. A loop has its own D and shows that its step
  stays in it. What follows is first order: a function from 0 .. n that
  holds the result after each turn. `ConfigToolProofs` has these lemmas too, since
  two modules with variables cannot both be extended.
* `LobbyConfigProofs`: `NeverGoesBackward`, `NotificationsAreLoaded`,
  `TypeCorrect`. `TypedStore.Update` compares no revisions; that snapshots grow
  rests on three facts across processes, which are the invariant: what is
  served and what is announced is in the table (`ServedIsWritten`,
  `PublishedIsWritten`, `MessagesAreWritten`), and the row LoadOne holds is not
  older than either (`FoundIsNewer`). It needs rows never to be deleted, loads
  to be one at a time and the tool to insert before it publishes.
  `OnlyTheMissedAreBehind` adds `NobodyForgotten`: every registered name is
  served in its newest row, or is expected (a message, a load or a publication
  of it is under way), or is in `missed`. Its hypothesis `ColumnIsThere` says
  that if the tool can insert rows (`Tags`), LoadOne selects a column they have:
  true of the code as it is, whose tool inserts none, and of the code with both
  columns mended, but not of one mended at the tool alone.
* `ConfigToolProofs`: `NothingUnchecked` and `CellsKept`, for sheets of any
  shape, any parsers of numbers and any flags. The invariant `Progress` says that
  nothing is left before the checks and that later phases hold the sheet that
  passed them; `CellsKept` adds that with distinct names the last column of a
  name is the only one. `TypeCorrect` adds what each phase has not yet
  (`Ordered`).

  About the parsers, for cells of any length: `EntriesKept` (integer keys) and `TypedLoads`. Both
  need that the sheet in hand is that of a file once read, and without errors
  (`Reading`); the file itself may have been saved since. Three loops are folds, proved
  about as in `DsRoutingProofs`: `Split` yields texts, `Only` (the loops' `continue`) selects, and
  `parseMap` stays among the maps whose keys and values are those of the type, or
  reports an error (`ParsedMap`). `EntriesKept` counts: until an error is met, every
  turn adds a key that was not there (`EntriesCounted`). `TypedLoads` puts each
  column type of the parser beside the Go type of the generator (`TypedDecodes`).
  `QuotedKeyFound` says where `splitKeyValue` cuts: at the first `=` behind a quoted
  key, whatever is in the quotes but quotes.
* `ServiceProcessProofs`: `TypeCorrect`, `RegisteredProcessesServe`,
  `OnlyOutagesDeregister`, for any addresses, lease times, starts and outages.
  That the end of an earlier lease does not take the key of the process that
  came after is not visible in the key alone: the invariant adds what each place
  of `main` knows of its lease and its listener.

Only model-checked, and why:

* Everything with fairness, out of the prover's reach: `DroppedEnds`,
  `NoStuckReader`, `Settles`, `DeadDisappear`, `ListenersRegister`.
* `WrittenIsMeant`. It compares the rows with what the author means, and what he
  means by a file is a constant (`Files`, with `means`): the instance draws cell and
  meaning together. A theorem would need the rules of the format as a definition of
  the texts that follow them, and an induction over those. `QuotedKeyFound` is the
  part that is about the code alone.

## 5. Findings

One run ends with the counterexample it expects; `PROJECT.json` quotes the text
that the code disagrees with.

| run | property | what happens |
|---|---|---|
| takeover_encoding | `OnlineKickable` | replies say `userId`, the gateway looks for `user_id`: nobody is ever mapped |

The code disagrees with its documents, or with its own comments, in more places. Each
is a property of an instance that TLC finds violated. Where a
configuration is named, it is that; where none is, it is `MC*.cfg` (`RouteTables.cfg`)
of the instance with the property in place of its own:

| configuration (module) | property | what happens | what the repository says |
|---|---|---|---|
| TakeoverRegistration (MCSessionTakeover) | `RegistrationsTellToo` | a registration replaces the session of a login that found its account first, and publishes nothing (server.go:215) | user.proto, line 11: "注册即登录，与 Login 同等 Redis Session"; session-invalidate design, line 12: "新登录自动踢掉旧设备" |
| GatewayHeartbeatSparesActive (MCGateway) | `HeartbeatSparesActive` | the timeout is measured from Ping/Pong instants nobody records (heartbeat.go:114), so an active client is cut | heartbeat design, line 281: "客户端心跳保活，连接不被误断" |
| GatewayUserMappingsLive (MCGateway) | `UserMappingsLive` | the ticker drops a connection and leaves its user mapped (connection_manager.go:187) | session-invalidate design, line 305: "连接断开后清理两个映射表" |
| GatewayKickWritesAlone (MCGateway) | `KickWritesAlone` | a kick and a reply are written to one connection at once (connection_manager.go:289) | comment, connection_manager.go:286: "现在不持有锁，安全地进行 WebSocket 操作" |
| MetaTypesGap (MCMetaBootstrap) | `TableCurrent` | a service type changed between the two ranges is neither read nor watched (build.go:43) | gateway backend connection design, lines 273-274: each range's revision, and "**Watch** 从 **`revision + 1`** 起订阅" |
| (RouteTables) | `LaterDuplicateWins` | of equal prefixes the first wins (lpm.go:38) | dbpool design, line 206: "同长度后覆盖前"; dsroute/doc.go:68: "duplicate prefixes ... cause errors", which `NewRouter` keeps and a reload does not |
| DsHotReload (MCDsRouting) | `LoadedAtStartupOnly` | a change in etcd replaces the tables of a running service (router.go:58), as the dbpool design wants | dsroute/doc.go:66: "No hot-reload: routes and pools are loaded at startup only" |
| (MCDsRouting) | `PoolsExist` | a reload puts an unvalidated table to use (router.go:60) | dbpool design, line 205: "运行时保留旧配置" |
| (MCDsRouting) | `WatchRenewed` | a closed watch is not opened again (loader.go:115) | dbpool design, line 140: "重连" |
| LobbyColumn (MCLobbyConfig) | `RegisteredIsFound` | LoadOne selects `data` (loader.go:41) | lobby implementation plan, line 61: `json_payload`, "Lobby 主读" |
| LobbyTags (MCLobbyConfig) | `ValidIsWritten` | the tool inserts `''` into the JSON column `tags` (writer.go:41) | the same plan, line 57: "无则 `NULL`" |
| ToolDuplicateWarns (MCConfigTool) | `DuplicatesOnlyWarn` | a duplicate integer key is an error and ends the tool (types.go:178) | comment, types.go:166: "Check for duplicate key (only warn, don't fail)" |
| ToolOtherQuotes (MCConfigTool) | `WrittenIsMeant` | a quote inside quotes of the other kind ends them (types.go:303), so an `=` in quotes splits the entry; doubled quotes are not undone (types.go:313) | CSV spec, line 64: "内嵌引号加倍或换外层引号"; line 68: "第一个不在引号内的 `=`" |
| (MCConfigTool) | `AllIsLoadable` | a time of any form, a type nobody knows and a map of other types are published and cannot be decoded (types.go:72, :37, :278) | CSV spec, line 58: "格式不符 **报错**"; line 70: "未注册 → **报错**" |
| (MCConfigTool) | `ImportsUsed` | the generated file always imports `baseconfig`, which it never uses, and `json` and `time`, which it uses for time columns only (generator.go:46): it does not compile | config-loader design, line 476: "验证生成代码可编译" |
| ToolTextOriginal (MCConfigTool) | `TextIsOriginal` | the file is read again for `csv_text` (main.go:109), may have been saved since, and a read that fails is not looked at (:114) | lobby implementation plan, line 60: "策划 CSV 原文（审计）" |

And these are violated although no text says as plainly that they hold:

| configuration (module) | property | what happens |
|---|---|---|
| TakeoverLateKick (MCSessionTakeover) | `KickSparesValid` | if replies said `user_id`: an invalidation can come after the new connection is mapped, and kick it |
| TakeoverConcurrentLogins (MCSessionTakeover) | `OneTerminal` | if replies said `user_id`: an invalidation that comes before the replaced connection is mapped, or two concurrent logins on one gateway, leave two terminals |
| DsNothingMissed (MCDsRouting) | `NothingMissed` | a write between Get and Watch is not seen (loader.go:83) |
| LobbyUpToDate (MCLobbyConfig) | `UpToDate` | a publication between LoadAll and Subscribe is missed (lobby main.go:163-172) |
| (MCServiceProcess) | `LossRepaired` | a lease that is lost is not granted again; the service runs on unregistered (registry.go:74) |

More follows from what the runs assume or leave out. Names such as `ab` and
`ab_` are one field in the generated struct (`FieldName`, generator.go:181).
While a service stops, and until the lease of one that ended runs out, its key
leads to nobody: `RegisteredServes` is about processes that have not begun to
stop. A debounced reload that fails is only logged (manager.go:88) and not tried
again until the next change.

## 6. Not modelled, and why

* `pkg/conf` beyond the pools, `pkg/logzap`, `pkg/otelkit`, `pkg/rediskit`,
  `pkg/config`: reading of files, logging, tracing, client construction.
* The gateway's start before meta bootstrap and its HTTP routes; the lobby's
  Ping, which answers a constant.
* The layout of the generated Go file and the wording of errors;
  `deriveConfigName` (the configuration's name is given in `LobbyConfig`).
* The gateway's resolver: keys in etcd and calls are not composed, so that a
  call to a key that leads to nobody is not followed further.
* `ValidateConfig` and `NewRouterFromConfig` (dsroute), `WsRouter` and
  `WrapUnary` (gateway), `issueSession` (user service), `pipeline.go`
  (config-loader): no caller in the services.
* Generated protobuf and sqlc code.
* Calls in flight while a connection is drained: the design allows the cut.
* Effective windows (`start_time`, `end_time`): in the lobby's design and table,
  not in its code.

## 7. Plan

Order of what comes next:

1. Proofs: a definition of the texts that are written by the rules, for
   `WrittenIsMeant` without a constant for what is meant.
2. `ServiceProcess` composed with the gateway's resolver and the connections of
   `MetaBootstrap`: what a client sees while a service restarts.
