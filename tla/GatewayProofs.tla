---------------------------- MODULE GatewayProofs ----------------------------
(***************************************************************************)
(* Theorems of module Gateway, for any number of connections, users and    *)
(* messages and any timeouts: what the goroutines leave behind of the      *)
(* connections, and that they implement ConnectionManager.                 *)
(***************************************************************************)
EXTENDS Gateway, FiniteSetTheorems, TLAPS

\* An entry that is alive has not missed as many Pongs as it may.
MissedBelowLimit ==
    \A c \in Clients : hb[c] # NoState /\ hb[c].alive => hb[c].missed < MaxMissed

\* A client whose goroutine runs, or ran, has an entry in the heartbeat map.
ServedAreTracked == \A c \in Clients : pc[c] # "new" => c \in CM!Tracked

\* What the ticker has yet to cut stays in the map until it does: it keeps the
\* lock.
CutsHeld ==
    /\ ToCut \subseteq connections
    /\ checker.failed \cap checker.idle = {}
    /\ checker.writing \in ToCut \cup {NoClient}

\* The subscriber has a client in hand exactly while it is busy with a kick.
KickHasClient == sub.at = "waiting" <=> sub.client = NoClient

\* The inductive invariant.
IInv ==
    /\ TypeOK /\ MissedBelowLimit /\ ServedAreTracked /\ ConnectionsServed
    /\ CutsHeld /\ KickHasClient /\ DroppedIsClosing

USE DEF managerVars, handlerVars, tickerVars

-----------------------------------------------------------------------------
(***************************************************************************)
(* The heartbeat map.                                                      *)
(***************************************************************************)
GoodHeartbeats == CM!HeartbeatTypeOK /\ MissedBelowLimit

LEMMA AgesType == CM!MaxAge \in Nat /\ CM!MaxAge > Timeout /\ 0 \in CM!Ages
  BY GatewayAssumption DEF CM!MaxAge, CM!Ages

\* The entry of a new client.
LEMMA NewStateType ==
  /\ CM!NewState \in CM!ConnState
  /\ CM!NewState.alive => CM!NewState.missed < MaxMissed
  BY GatewayAssumption, AgesType DEF CM!NewState, CM!ConnState, CM!Never

\* A check never leaves an entry alive that has missed too many Pongs.
LEMMA CheckedStateType ==
  ASSUME NEW s \in CM!ConnState, s.alive => s.missed < MaxMissed
  PROVE  /\ CM!CheckedState(s) \in CM!ConnState
         /\ CM!CheckedState(s).alive => CM!CheckedState(s).missed < MaxMissed
  <1>1. CASE CM!Overdue(s)
    <2>1. CM!CheckedState(s) =
            [s EXCEPT !.missed = @ + 1, !.alive = s.missed + 1 < MaxMissed]
      BY <1>1 DEF CM!CheckedState
    <2>2. s.alive /\ s.missed + 1 \in 0 .. MaxMissed
      BY <1>1, GatewayAssumption DEF CM!Overdue, CM!ConnState
    <2>3. (s.missed + 1 < MaxMissed) \in BOOLEAN
      OBVIOUS
    <2>4. CM!CheckedState(s) \in CM!ConnState
      BY <2>1, <2>2, <2>3 DEF CM!ConnState
    <2>5. /\ CM!CheckedState(s).alive = (s.missed + 1 < MaxMissed)
          /\ CM!CheckedState(s).missed = s.missed + 1
      BY <2>1 DEF CM!ConnState
    <2>. QED  BY <2>4, <2>5
  <1>2. CASE ~CM!Overdue(s)
    BY <1>2 DEF CM!CheckedState
  <1>. QED  BY <1>1, <1>2

\* A map that replaces entries by good ones, and gives some clients one.
LEMMA EntriesChange ==
  ASSUME GoodHeartbeats, NEW S \in SUBSET Clients,
         hb' \in [Clients -> CM!ConnState \cup {NoState}],
         \A c \in S : /\ hb'[c] \in CM!ConnState
                      /\ hb'[c].alive => hb'[c].missed < MaxMissed,
         \A c \in Clients \ S : hb'[c] = hb[c]
  PROVE  /\ GoodHeartbeats'
         /\ CM!Tracked' = CM!Tracked \cup S
  BY GatewayAssumption
  DEF GoodHeartbeats, CM!HeartbeatTypeOK, MissedBelowLimit, CM!Tracked

LEMMA EntryChanges ==
  ASSUME GoodHeartbeats, NEW c \in Clients, NEW s \in CM!ConnState,
         s.alive => s.missed < MaxMissed, hb' = [hb EXCEPT ![c] = s]
  PROVE  GoodHeartbeats' /\ CM!Tracked' = CM!Tracked \cup {c}
  <1>1. /\ hb' \in [Clients -> CM!ConnState \cup {NoState}] /\ hb'[c] = s
        /\ \A d \in Clients \ {c} : hb'[d] = hb[d]
    BY DEF GoodHeartbeats, CM!HeartbeatTypeOK
  <1>2. {c} \in SUBSET Clients /\ \A d \in {c} : hb'[d] = s
    BY <1>1
  <1>. QED  BY <1>1, <1>2, EntriesChange

LEMMA RegisterHeartbeat ==
  ASSUME GoodHeartbeats, NEW c \in Clients, CM!Fresh(c), hb' = CM!RecordedPing(c)
  PROVE  GoodHeartbeats' /\ CM!Tracked' = CM!Tracked \cup {c}
  <1>1. hb' = [hb EXCEPT ![c] = CM!NewState]
    BY DEF CM!Fresh, CM!Tracked, CM!RecordedPing
  <1>. QED  BY <1>1, NewStateType, EntryChanges

LEMMA ActivityHeartbeat ==
  ASSUME GoodHeartbeats, NEW c \in CM!Tracked, hb' = CM!RecordedActivity(c)
  PROVE  GoodHeartbeats' /\ CM!Tracked' = CM!Tracked
  <1>. DEFINE s == [hb[c] EXCEPT !.activity = 0]
  <1>1. c \in Clients /\ hb[c] # NoState /\ hb[c] \in CM!ConnState
    BY DEF CM!Tracked, GoodHeartbeats, CM!HeartbeatTypeOK
  <1>2. hb' = [hb EXCEPT ![c] = s]
    BY <1>1 DEF CM!RecordedActivity
  <1>3. s \in CM!ConnState /\ s.alive = hb[c].alive /\ s.missed = hb[c].missed
    BY <1>1, AgesType DEF CM!ConnState
  <1>4. s.alive => s.missed < MaxMissed
    BY <1>1, <1>3 DEF GoodHeartbeats, MissedBelowLimit
  <1>5. GoodHeartbeats' /\ CM!Tracked' = CM!Tracked \cup {c}
    <2>. HIDE DEF s
    <2>. QED  BY <1>1, <1>2, <1>3, <1>4, EntryChanges
  <1>. QED  BY <1>5

LEMMA AgedHeartbeat ==
  ASSUME GoodHeartbeats, hb' = CM!Aged
  PROVE  GoodHeartbeats' /\ CM!Tracked' = CM!Tracked
  <1>1. /\ \A a \in CM!Ages : CM!Older(a) \in CM!Ages
        /\ CM!Older(CM!Never) = CM!Never
    BY AgesType DEF CM!Older, CM!Ages, CM!Never
  <1>2. \A c \in CM!Tracked :
          /\ hb[c] \in CM!ConnState
          /\ hb'[c] = [hb[c] EXCEPT !.ping = CM!Older(@), !.pong = CM!Older(@),
                                    !.activity = CM!Older(@)]
    BY DEF CM!Aged, CM!Tracked, GoodHeartbeats, CM!HeartbeatTypeOK
  <1>3. \A c \in CM!Tracked :
          /\ hb'[c] \in CM!ConnState
          /\ hb'[c].alive = hb[c].alive /\ hb'[c].missed = hb[c].missed
    <2>1. ASSUME NEW s \in CM!ConnState
          PROVE  LET o == [s EXCEPT !.ping = CM!Older(@), !.pong = CM!Older(@),
                                    !.activity = CM!Older(@)]
                 IN  o \in CM!ConnState /\ o.alive = s.alive /\ o.missed = s.missed
      <3>1. /\ CM!Older(s.ping) \in CM!Ages /\ CM!Older(s.activity) \in CM!Ages
            /\ CM!Older(s.pong) \in CM!Ages \cup {CM!Never}
        BY <1>1 DEF CM!ConnState
      <3>. QED  BY <3>1 DEF CM!ConnState
    <2>. QED  BY <1>2, <2>1
  <1>4. \A c \in CM!Tracked : hb'[c].alive => hb'[c].missed < MaxMissed
    BY <1>3 DEF GoodHeartbeats, MissedBelowLimit, CM!Tracked
  <1>5. CM!Tracked \subseteq Clients /\ \A c \in Clients \ CM!Tracked : hb'[c] = hb[c]
    BY DEF CM!Aged, CM!Tracked
  <1>6. hb' \in [Clients -> CM!ConnState \cup {NoState}]
    BY <1>3, <1>5 DEF CM!Aged, GoodHeartbeats, CM!HeartbeatTypeOK
  <1>7. GoodHeartbeats' /\ CM!Tracked' = CM!Tracked \cup CM!Tracked
    BY <1>3, <1>4, <1>5, <1>6, EntriesChange
  <1>. QED  BY <1>7

LEMMA CheckHeartbeat ==
  ASSUME GoodHeartbeats, connections \subseteq Clients, hb' = CM!CheckedHeartbeats
  PROVE  GoodHeartbeats' /\ CM!Tracked' = CM!Tracked
  <1>. DEFINE S == connections \cap CM!Tracked
  <1>1. S \in SUBSET Clients /\ \A c \in S : hb'[c] = CM!CheckedState(hb[c])
    BY DEF CM!CheckedHeartbeats
  <1>2. \A c \in S : /\ hb[c] \in CM!ConnState
                     /\ hb[c].alive => hb[c].missed < MaxMissed
    BY DEF GoodHeartbeats, CM!HeartbeatTypeOK, MissedBelowLimit, CM!Tracked
  <1>3. \A c \in S : /\ hb'[c] \in CM!ConnState
                     /\ hb'[c].alive => hb'[c].missed < MaxMissed
    BY <1>1, <1>2, CheckedStateType
  <1>4. /\ \A c \in Clients \ S : hb'[c] = hb[c]
        /\ hb' \in [Clients -> CM!ConnState \cup {NoState}]
    BY <1>3 DEF CM!CheckedHeartbeats, GoodHeartbeats, CM!HeartbeatTypeOK
  <1>5. GoodHeartbeats' /\ CM!Tracked' = CM!Tracked \cup S
    <2>. HIDE DEF S
    <2>. QED  BY <1>1, <1>3, <1>4, EntriesChange
  <1>. QED  BY <1>5

-----------------------------------------------------------------------------
(***************************************************************************)
(* The steps.                                                              *)
(***************************************************************************)
Metrics == [total : Nat, active : Nat, disconnected : Nat, hbFailures : Nat]

UserMap == [Users -> Clients \cup {NoClient}]

LEMMA LessType ==
  ASSUME NEW a \in Nat, NEW n \in Nat
  PROVE  CM!Less(a, n) \in Nat
  BY DEF CM!Less

\* The state when the gateway starts.
LEMMA InitInv == Init => IInv
  <1>. SUFFICES ASSUME Init PROVE IInv
    OBVIOUS
  <1>1. CM!TypeOK
    BY GatewayAssumption DEF Init, CM!Init, CM!HeartbeatInit, CM!TypeOK, CM!HeartbeatTypeOK
  <1>2. TypeOK
    <2>1. toCome \in 0 .. MaxInvalidations
      BY GatewayAssumption DEF Init
    <2>2. /\ checker \in [failed : SUBSET Clients, idle : SUBSET Clients,
                          writing : Clients \cup {NoClient}]
          /\ sub \in [at : {"waiting", "kicking", "pausing", "closing"},
                      client : Clients \cup {NoClient}]
      BY DEF Init, Waiting
    <2>. QED  BY <1>1, <2>1, <2>2 DEF Init, TypeOK, Serving, Routes
  <1>3. MissedBelowLimit /\ ServedAreTracked /\ ConnectionsServed
    BY DEF Init, CM!Init, CM!HeartbeatInit, MissedBelowLimit, ServedAreTracked,
           ConnectionsServed
  <1>4. CutsHeld /\ KickHasClient /\ DroppedIsClosing
    BY DEF Init, CutsHeld, ToCut, KickHasClient, Waiting, DroppedIsClosing, Serving
  <1>. QED  BY <1>2, <1>3, <1>4 DEF IInv

\* A goroutine that serves goes on serving, and takes nobody out of the map.
LEMMA ServingStep ==
  ASSUME IInv, NEW c \in Clients, pc[c] \in Serving, NEW place \in Serving,
         pc' = [pc EXCEPT ![c] = place],
         route' \in [Clients -> Routes], then' \in [Clients -> Serving],
         reply' \in [Clients -> Users \cup {NoUser}], auth' \in [Clients -> BOOLEAN],
         GoodHeartbeats', CM!Tracked' = CM!Tracked, userConnections' \in UserMap,
         UNCHANGED <<connections, metrics, sock, tickerVars, sub, toCome>>
  PROVE  IInv'
  <1>1. /\ pc' \in [Clients -> Serving \cup {"new", "done"}] /\ pc'[c] \in Serving
        /\ \A d \in Clients : d # c => pc'[d] = pc[d]
    BY DEF IInv, TypeOK
  <1>2. TypeOK'
    BY <1>1 DEF IInv, TypeOK, CM!TypeOK, GoodHeartbeats, UserMap
  <1>3. MissedBelowLimit'
    BY DEF GoodHeartbeats
  <1>4. ServedAreTracked' /\ ConnectionsServed' /\ DroppedIsClosing'
    BY <1>1 DEF IInv, ServedAreTracked, ConnectionsServed, DroppedIsClosing, Serving
  <1>5. CutsHeld' /\ KickHasClient'
    BY DEF IInv, CutsHeld, ToCut, KickHasClient
  <1>. QED  BY <1>2, <1>3, <1>4, <1>5 DEF IInv

\* The steps of ServeWS between the first and the last.
ServeStep(c) ==
    \/ ReadError(c) \/ ReadPing(c) \/ ReadRejected(c)
    \/ \E r \in Routes : ReadRequest(c, r)
    \/ CallFails(c) \/ \E u \in Users \cup {NoUser} : CallSucceeds(c, u)
    \/ ReplyWritten(c) \/ Login(c) \/ Touch(c)

LEMMA ServeStepInv ==
  ASSUME IInv, NEW c \in Clients, ServeStep(c)
  PROVE  IInv'
  <1>. DEFINE Same == hb' = hb /\ userConnections' = userConnections
                        /\ connections' = connections /\ metrics' = metrics
  <1>1. /\ GoodHeartbeats /\ userConnections \in UserMap
        /\ pc \in [Clients -> Serving \cup {"new", "done"}]
        /\ route \in [Clients -> Routes] /\ then \in [Clients -> Serving]
        /\ reply \in [Clients -> Users \cup {NoUser}] /\ auth \in [Clients -> BOOLEAN]
    BY DEF IInv, TypeOK, CM!TypeOK, GoodHeartbeats, UserMap
  <1>2. pc[c] # "new" => c \in CM!Tracked
    BY DEF IInv, ServedAreTracked
  <1>3. Same => GoodHeartbeats' /\ CM!Tracked' = CM!Tracked /\ userConnections' \in UserMap
    BY <1>1 DEF GoodHeartbeats, CM!HeartbeatTypeOK, MissedBelowLimit, CM!Tracked
  <1>4. ASSUME NEW next \in Serving, Reply(c, next)
        PROVE  /\ pc' = [pc EXCEPT ![c] = "reply"] /\ then' \in [Clients -> Serving]
               /\ route' \in [Clients -> Routes]
    BY <1>1, <1>4 DEF Reply, Routes
  <1>5. CASE ReadError(c)
    BY <1>1, <1>3, <1>5, ServingStep DEF ReadError, Serving
  <1>6. CASE ReadPing(c)
    <2>1. pc[c] = "read" /\ pc' = [pc EXCEPT ![c] = "read"] /\ hb' = CM!RecordedActivity(c)
      BY <1>1, <1>6 DEF ReadPing, CM!RecordActivity, CM!Heard
    <2>2. GoodHeartbeats' /\ CM!Tracked' = CM!Tracked
      BY <1>1, <1>2, <2>1, ActivityHeartbeat
    <2>. QED  BY <1>1, <1>6, <2>1, <2>2, ServingStep
              DEF ReadPing, CM!RecordActivity, CM!Heard, Serving
  <1>7. CASE ReadRejected(c)
    BY <1>1, <1>3, <1>4, <1>7, ServingStep DEF ReadRejected, Serving
  <1>8. ASSUME NEW r \in Routes, ReadRequest(c, r)
        PROVE  IInv'
    BY <1>1, <1>3, <1>8, ServingStep DEF ReadRequest, Serving
  <1>9. CASE CallFails(c)
    <2>1. (IF route[c] = "session" THEN "exit" ELSE "read") \in Serving
      BY DEF Serving
    <2>. QED  BY <1>1, <1>3, <1>4, <1>9, <2>1, ServingStep DEF CallFails, Serving
  <1>10. ASSUME NEW u \in Users \cup {NoUser}, CallSucceeds(c, u)
         PROVE  IInv'
    <2>1. (IF route[c] = "session" THEN "login" ELSE "touch") \in Serving
      BY DEF Serving
    <2>2. reply' \in [Clients -> Users \cup {NoUser}]
      BY <1>1, <1>10 DEF CallSucceeds
    <2>. QED  BY <1>1, <1>3, <1>4, <1>10, <2>1, <2>2, ServingStep DEF CallSucceeds, Serving
  <1>11. CASE ReplyWritten(c)
    <2>1. then[c] \in Serving /\ then' \in [Clients -> Serving]
      BY <1>1, <1>11 DEF ReplyWritten, Serving
    <2>. QED  BY <1>1, <1>3, <1>11, <2>1, ServingStep DEF ReplyWritten, Serving
  <1>12. CASE Login(c)
    <2>1. /\ pc[c] = "login" /\ pc' = [pc EXCEPT ![c] = "touch"]
          /\ reply' \in [Clients -> Users \cup {NoUser}] /\ auth' \in [Clients -> BOOLEAN]
          /\ UNCHANGED <<route, then, sock, tickerVars, sub, toCome>>
      BY <1>1, <1>12 DEF Login
    <2>2. /\ UNCHANGED <<hb, connections, metrics>>
          /\ userConnections' \in UserMap
      BY <1>1, <1>12 DEF Login, CM!RegisterUserConnection, UserMap
    <2>3. GoodHeartbeats' /\ CM!Tracked' = CM!Tracked
      BY <1>1, <2>2 DEF GoodHeartbeats, CM!HeartbeatTypeOK, MissedBelowLimit, CM!Tracked
    <2>. QED  BY <1>1, <2>1, <2>2, <2>3, ServingStep DEF Serving
  <1>13. CASE Touch(c)
    <2>1. /\ pc[c] = "touch" /\ pc' = [pc EXCEPT ![c] = "read"]
          /\ hb' = CM!RecordedActivity(c)
          /\ UNCHANGED <<connections, userConnections, metrics>>
          /\ UNCHANGED <<route, then, reply, auth, sock, tickerVars, sub, toCome>>
      BY <1>13 DEF Touch, CM!RecordActivity, CM!Heard
    <2>2. GoodHeartbeats' /\ CM!Tracked' = CM!Tracked
      BY <1>1, <1>2, <2>1, ActivityHeartbeat
    <2>. QED  BY <1>1, <2>1, <2>2, ServingStep DEF Serving
  <1>. QED  BY <1>5, <1>6, <1>7, <1>8, <1>9, <1>10, <1>11, <1>12, <1>13 DEF ServeStep

\* A connection arrives: its entry, its socket and its goroutine together.
LEMMA AcceptInv ==
  ASSUME IInv, NEW c \in Clients, Accept(c)
  PROVE  IInv'
  <1>1. /\ ToCut = {} /\ c \notin connections
        /\ connections' = connections \cup {c}
        /\ hb' = CM!RecordedPing(c) /\ CM!Fresh(c)
        /\ pc' = [pc EXCEPT ![c] = "read"] /\ sock' = [sock EXCEPT ![c] = TRUE]
        /\ metrics' = [metrics EXCEPT !.total = @ + 1, !.active = @ + 1]
        /\ UNCHANGED <<userConnections, route, then, reply, auth, tickerVars, sub, toCome>>
    BY DEF Accept, Unlocked, CM!RegisterConnection
  <1>2. GoodHeartbeats' /\ CM!Tracked' = CM!Tracked \cup {c}
    BY <1>1, RegisterHeartbeat DEF IInv, TypeOK, CM!TypeOK, GoodHeartbeats
  <1>3. metrics' \in Metrics
    <2>1. /\ metrics \in Metrics
          /\ metrics.total + 1 \in Nat /\ metrics.active + 1 \in Nat
      BY DEF IInv, TypeOK, CM!TypeOK, Metrics
    <2>2. metrics' = [metrics EXCEPT !.total = metrics.total + 1,
                                     !.active = metrics.active + 1]
      BY <1>1
    <2>. QED  BY <2>1, <2>2 DEF Metrics
  <1>4. TypeOK'
    BY <1>1, <1>2, <1>3 DEF IInv, TypeOK, CM!TypeOK, GoodHeartbeats, Metrics, Serving
  <1>5. /\ pc'[c] = "read" /\ \A d \in Clients : d # c => pc'[d] = pc[d]
        /\ \A d \in Clients : d # c => sock'[d] = sock[d]
        /\ connections \subseteq Clients
    BY <1>1 DEF IInv, TypeOK, CM!TypeOK
  <1>6. ServedAreTracked' /\ ConnectionsServed' /\ DroppedIsClosing'
    BY <1>1, <1>2, <1>5 DEF IInv, ServedAreTracked, ConnectionsServed, DroppedIsClosing,
       Serving
  <1>7. CutsHeld' /\ KickHasClient'
    BY <1>1 DEF IInv, CutsHeld, ToCut, KickHasClient
  <1>. QED  BY <1>2, <1>4, <1>6, <1>7 DEF IInv, GoodHeartbeats

\* The deferred cleanup.
LEMMA ExitInv ==
  ASSUME IInv, NEW c \in Clients, Exit(c)
  PROVE  IInv'
  <1>1. /\ ToCut = {} /\ pc[c] = "exit" /\ connections' = connections \ {c} /\ hb' = hb
        /\ pc' = [pc EXCEPT ![c] = "done"] /\ sock' = [sock EXCEPT ![c] = FALSE]
        /\ UNCHANGED <<route, then, reply, auth, tickerVars, sub, toCome>>
    BY DEF Exit, Unlocked, CM!UnregisterConnection, CM!cmVars
  <1>2. metrics' \in Metrics
    <2>1. metrics \in Metrics /\ metrics.active \in Nat
      BY DEF IInv, TypeOK, CM!TypeOK, Metrics
    <2>2. CM!Less(metrics.active, 1) \in Nat
      BY <2>1, LessType
    <2>3. metrics' \in {metrics, [metrics EXCEPT !.active = CM!Less(metrics.active, 1)]}
      BY DEF Exit, CM!UnregisterConnection, CM!cmVars
    <2>. QED  BY <2>1, <2>2, <2>3 DEF Metrics
  <1>3. userConnections' \in UserMap
    <2>1. userConnections \in UserMap
      BY DEF IInv, TypeOK, CM!TypeOK, UserMap
    <2>2. \/ userConnections' = userConnections
          \/ \E u \in Users : userConnections' = [userConnections EXCEPT ![u] = NoClient]
      BY DEF Exit, CM!UnregisterConnection, CM!cmVars, CM!ForgetOneUserOf, CM!UsersOf
    <2>. QED  BY <2>1, <2>2 DEF UserMap
  <1>4. CM!Tracked' = CM!Tracked /\ CM!HeartbeatTypeOK' /\ MissedBelowLimit'
    BY <1>1 DEF IInv, TypeOK, CM!TypeOK, CM!HeartbeatTypeOK, CM!Tracked, MissedBelowLimit
  <1>5. TypeOK'
    BY <1>1, <1>2, <1>3, <1>4 DEF IInv, TypeOK, CM!TypeOK, UserMap, Metrics
  <1>6. /\ pc'[c] = "done" /\ \A d \in Clients : d # c => pc'[d] = pc[d]
        /\ \A d \in Clients : d # c => sock'[d] = sock[d]
        /\ connections \subseteq Clients
    BY <1>1 DEF IInv, TypeOK, CM!TypeOK
  <1>7. ServedAreTracked' /\ ConnectionsServed' /\ DroppedIsClosing'
    BY <1>1, <1>4, <1>6 DEF IInv, ServedAreTracked, ConnectionsServed, DroppedIsClosing,
       Serving
  <1>8. CutsHeld' /\ KickHasClient'
    BY <1>1 DEF IInv, CutsHeld, ToCut, KickHasClient
  <1>. QED  BY <1>4, <1>5, <1>7, <1>8 DEF IInv

\* A message names a user: the connection it is mapped to is taken out of the
\* map, and the subscriber has it in hand from then on.
LEMMA ReceiveInvalidationInv ==
  ASSUME IInv, NEW u \in Users, ReceiveInvalidation(u)
  PROVE  IInv'
  <1>. DEFINE c == userConnections[u]
  <1>1. /\ sub.at = "waiting" /\ ToCut = {} /\ hb' = hb
        /\ sub' = IF c \in connections THEN [at |-> "kicking", client |-> c] ELSE sub
        /\ toCome' = toCome - 1 /\ toCome > 0
        /\ UNCHANGED <<handlerVars, sock, tickerVars>>
    BY DEF ReceiveInvalidation, Unlocked, CM!DisconnectByUserID, CM!DisconnectUnknownUser,
           CM!DisconnectMappedUser, CM!cmVars
  <1>2. /\ c \in Clients \cup {NoClient} /\ connections \subseteq Clients
        /\ NoClient \notin Clients /\ sub.client = NoClient
        /\ sub \in [at : {"waiting", "kicking", "pausing", "closing"},
                    client : Clients \cup {NoClient}]
    BY <1>1, GatewayAssumption DEF IInv, TypeOK, CM!TypeOK, KickHasClient
  <1>3. connections' = connections \ {c}
    BY <1>2 DEF ReceiveInvalidation, CM!DisconnectByUserID, CM!DisconnectUnknownUser,
       CM!DisconnectMappedUser, CM!cmVars
  <1>4. metrics' \in Metrics
    <2>1. metrics \in Metrics /\ metrics.active \in Nat /\ metrics.disconnected + 1 \in Nat
      BY DEF IInv, TypeOK, CM!TypeOK, Metrics
    <2>2. CM!Less(metrics.active, 1) \in Nat
      BY <2>1, LessType
    <2>3. \/ metrics' = metrics
          \/ metrics' = [metrics EXCEPT !.active = CM!Less(metrics.active, 1),
                                        !.disconnected = metrics.disconnected + 1]
      BY DEF ReceiveInvalidation, CM!DisconnectByUserID, CM!DisconnectUnknownUser,
             CM!DisconnectMappedUser, CM!cmVars
    <2>. QED  BY <2>1, <2>2, <2>3 DEF Metrics
  <1>5. userConnections' \in UserMap
    BY DEF ReceiveInvalidation, CM!DisconnectByUserID, CM!DisconnectUnknownUser,
           CM!DisconnectMappedUser, CM!cmVars, IInv, TypeOK, CM!TypeOK, UserMap
  <1>6. CM!Tracked' = CM!Tracked /\ CM!HeartbeatTypeOK' /\ MissedBelowLimit'
    BY <1>1 DEF IInv, TypeOK, CM!TypeOK, CM!HeartbeatTypeOK, CM!Tracked, MissedBelowLimit
  <1>7. /\ toCome' \in 0 .. MaxInvalidations
        /\ sub' \in [at : {"waiting", "kicking", "pausing", "closing"},
                     client : Clients \cup {NoClient}]
        /\ sub'.at = "waiting" <=> sub'.client = NoClient
        /\ c \in connections => sub'.client = c
    BY <1>1, <1>2, GatewayAssumption DEF IInv, TypeOK
  <1>. HIDE DEF c
  <1>8. TypeOK'
    BY <1>1, <1>2, <1>3, <1>4, <1>5, <1>6, <1>7
    DEF IInv, TypeOK, CM!TypeOK, UserMap, Metrics
  <1>9. ServedAreTracked' /\ ConnectionsServed' /\ KickHasClient'
    BY <1>1, <1>3, <1>6, <1>7 DEF IInv, ServedAreTracked, ConnectionsServed, KickHasClient
  <1>10. DroppedIsClosing'
    BY <1>1, <1>2, <1>3, <1>7 DEF IInv, DroppedIsClosing
  <1>11. CutsHeld'
    BY <1>1 DEF IInv, CutsHeld, ToCut
  <1>. QED  BY <1>6, <1>8, <1>9, <1>10, <1>11 DEF IInv

\* The rest of what the subscriber does.
LEMMA SubscriberInv ==
  ASSUME IInv, ReceiveMalformed \/ SubscriberEnds \/ Subscriber
  PROVE  IInv'
  <1>0. /\ sub \in [at : {"waiting", "kicking", "pausing", "closing"},
                    client : Clients \cup {NoClient}]
        /\ toCome \in 0 .. MaxInvalidations /\ sock \in [Clients -> BOOLEAN]
        /\ NoClient \notin Clients /\ MaxInvalidations \in Nat
    BY GatewayAssumption DEF IInv, TypeOK
  <1>1. UNCHANGED <<managerVars, handlerVars, tickerVars>>
    BY DEF ReceiveMalformed, SubscriberEnds, Subscriber, KickStep, KickClose
  <1>2. CASE ReceiveMalformed \/ SubscriberEnds
    <2>1. sub' = sub /\ sock' = sock /\ toCome' \in 0 .. MaxInvalidations
      BY <1>0, <1>2 DEF ReceiveMalformed, SubscriberEnds
    <2>. QED  BY <1>1, <2>1 DEF IInv, TypeOK, CM!TypeOK, CM!HeartbeatTypeOK, MissedBelowLimit,
         ServedAreTracked, CM!Tracked, ConnectionsServed, CutsHeld, ToCut, KickHasClient,
         DroppedIsClosing
  <1>3. CASE KickStep("kicking", "pausing") \/ KickStep("pausing", "closing")
    <2>1. /\ sub.at # "waiting" /\ sub'.at \in {"pausing", "closing"}
          /\ sub'.client = sub.client
          /\ sub' \in [at : {"waiting", "kicking", "pausing", "closing"},
                       client : Clients \cup {NoClient}]
          /\ sock' = sock /\ toCome' = toCome
      BY <1>0, <1>3 DEF KickStep
    <2>. QED  BY <1>1, <2>1 DEF IInv, TypeOK, CM!TypeOK, CM!HeartbeatTypeOK, MissedBelowLimit,
         ServedAreTracked, CM!Tracked, ConnectionsServed, CutsHeld, ToCut, KickHasClient,
         DroppedIsClosing
  <1>4. CASE KickClose
    <2>1. /\ sub.at = "closing" /\ sub.client \in Clients
          /\ sock' = [sock EXCEPT ![sub.client] = FALSE]
          /\ sub' = Waiting /\ toCome' = toCome
      BY <1>0, <1>4 DEF KickClose, IInv, KickHasClient
    <2>2. TypeOK' /\ KickHasClient'
      BY <1>0, <1>1, <2>1 DEF IInv, TypeOK, CM!TypeOK, CM!HeartbeatTypeOK, Waiting, KickHasClient
    <2>3. DroppedIsClosing'
      BY <1>0, <1>1, <2>1 DEF IInv, DroppedIsClosing, Waiting
    <2>4. MissedBelowLimit' /\ ServedAreTracked' /\ ConnectionsServed' /\ CutsHeld'
      BY <1>1 DEF IInv, MissedBelowLimit, ServedAreTracked, CM!Tracked, ConnectionsServed,
         CutsHeld, ToCut
    <2>. QED  BY <2>2, <2>3, <2>4 DEF IInv
  <1>. QED  BY <1>2, <1>3, <1>4 DEF Subscriber

\* The check takes the lock: whom it will cut is in the map, in one of two
\* sets.
LEMMA CheckBeginInv ==
  ASSUME IInv, CheckBegin
  PROVE  IInv'
  <1>1. /\ hb' = CM!CheckedHeartbeats
        /\ checker' = [failed |-> CM!HeartbeatTimeoutClients,
                       idle |-> CM!IdleTimeoutClients, writing |-> NoClient]
        /\ tick' = FALSE
        /\ UNCHANGED <<connections, userConnections, metrics, handlerVars, sock,
                       stopped, sub, toCome>>
    BY DEF CheckBegin
  <1>2. connections \subseteq Clients
    BY DEF IInv, TypeOK, CM!TypeOK
  <1>3. GoodHeartbeats' /\ CM!Tracked' = CM!Tracked
    BY <1>1, <1>2, CheckHeartbeat DEF IInv, TypeOK, CM!TypeOK, GoodHeartbeats
  <1>4. /\ CM!HeartbeatTimeoutClients \subseteq connections
        /\ CM!IdleTimeoutClients \subseteq connections
        /\ CM!HeartbeatTimeoutClients \cap CM!IdleTimeoutClients = {}
    BY DEF CM!HeartbeatTimeoutClients, CM!IdleTimeoutClients
  <1>5. TypeOK'
    BY <1>1, <1>2, <1>3, <1>4 DEF IInv, TypeOK, CM!TypeOK, GoodHeartbeats
  <1>6. ServedAreTracked' /\ ConnectionsServed' /\ KickHasClient' /\ DroppedIsClosing'
    BY <1>1, <1>3 DEF IInv, ServedAreTracked, ConnectionsServed, KickHasClient,
       DroppedIsClosing
  <1>7. CutsHeld'
    BY <1>1, <1>4 DEF CutsHeld, ToCut
  <1>. QED  BY <1>3, <1>5, <1>6, <1>7 DEF IInv, GoodHeartbeats

LEMMA CutWriteInv ==
  ASSUME IInv, NEW c \in Clients, CutWrite(c)
  PROVE  IInv'
  <1>1. /\ checker' = [checker EXCEPT !.writing = c] /\ c \in ToCut
        /\ UNCHANGED <<managerVars, handlerVars, sock, tick, stopped, sub, toCome>>
    BY DEF CutWrite, ToCut
  <1>2. TypeOK'
    BY <1>1 DEF IInv, TypeOK, CM!TypeOK, CM!HeartbeatTypeOK
  <1>3. /\ checker'.failed = checker.failed /\ checker'.idle = checker.idle
        /\ checker'.writing = c
    BY <1>1 DEF IInv, TypeOK
  <1>4. CutsHeld'
    BY <1>1, <1>3 DEF IInv, CutsHeld, ToCut
  <1>5. MissedBelowLimit' /\ ServedAreTracked' /\ ConnectionsServed' /\ KickHasClient'
          /\ DroppedIsClosing'
    BY <1>1 DEF IInv, MissedBelowLimit, ServedAreTracked, CM!Tracked, ConnectionsServed,
       KickHasClient, DroppedIsClosing
  <1>. QED  BY <1>2, <1>4, <1>5 DEF IInv

\* What the cut of one client changes, counters included.
LEMMA CutCloseStep ==
  ASSUME IInv, NEW c \in Clients, CutClose(c)
  PROVE  /\ c \in ToCut /\ c \in connections
         /\ checker'.failed = checker.failed \ {c} /\ checker'.idle = checker.idle \ {c}
         /\ checker'.writing = NoClient /\ ToCut' = ToCut \ {c}
         /\ metrics' = [metrics EXCEPT
                          !.active = CM!Less(@, 1),
                          !.disconnected = @ + 1,
                          !.hbFailures = IF c \in checker.failed THEN @ + 1 ELSE @]
         /\ metrics' \in Metrics
  <1>1. c \in ToCut /\ c \in connections
    BY GatewayAssumption DEF CutClose, IInv, CutsHeld
  <1>2. /\ checker' = [failed |-> checker.failed \ {c}, idle |-> checker.idle \ {c},
                       writing |-> NoClient]
        /\ metrics' = [metrics EXCEPT
                         !.active = CM!Less(@, 1),
                         !.disconnected = @ + 1,
                         !.hbFailures = IF c \in checker.failed THEN @ + 1 ELSE @]
    BY DEF CutClose
  <1>3. ToCut' = ToCut \ {c}
    BY <1>2 DEF ToCut
  <1>4. metrics' \in Metrics
    <2>1. /\ metrics \in Metrics /\ metrics.active \in Nat
          /\ metrics.disconnected + 1 \in Nat
          /\ (IF c \in checker.failed THEN metrics.hbFailures + 1 ELSE metrics.hbFailures)
               \in Nat
      BY DEF IInv, TypeOK, CM!TypeOK, Metrics
    <2>2. CM!Less(metrics.active, 1) \in Nat
      BY <2>1, LessType
    <2>. QED  BY <1>2, <2>1, <2>2 DEF Metrics
  <1>. QED  BY <1>1, <1>2, <1>3, <1>4

LEMMA CutCloseInv ==
  ASSUME IInv, NEW c \in Clients, CutClose(c)
  PROVE  IInv'
  <1>1. /\ sock' = [sock EXCEPT ![c] = FALSE] /\ connections' = connections \ {c}
        /\ checker' = [failed |-> checker.failed \ {c}, idle |-> checker.idle \ {c},
                       writing |-> NoClient]
        /\ UNCHANGED <<hb, userConnections, handlerVars, tick, stopped, sub, toCome>>
    BY DEF CutClose
  <1>2. /\ ToCut' = ToCut \ {c} /\ metrics' \in Metrics
        /\ checker'.writing = NoClient
        /\ checker'.failed = checker.failed \ {c} /\ checker'.idle = checker.idle \ {c}
    BY CutCloseStep
  <1>3. TypeOK'
    BY <1>1, <1>2 DEF IInv, TypeOK, CM!TypeOK, CM!HeartbeatTypeOK, Metrics
  <1>4. CutsHeld'
    BY <1>1, <1>2 DEF IInv, CutsHeld
  <1>5. MissedBelowLimit' /\ ServedAreTracked' /\ ConnectionsServed' /\ KickHasClient'
    BY <1>1 DEF IInv, MissedBelowLimit, ServedAreTracked, CM!Tracked, ConnectionsServed,
       KickHasClient
  <1>6. DroppedIsClosing'
    <2>1. sock'[c] = FALSE /\ \A d \in Clients : d # c => sock'[d] = sock[d]
      BY <1>1 DEF IInv, TypeOK
    <2>. QED  BY <1>1, <2>1 DEF IInv, DroppedIsClosing
  <1>. QED  BY <1>3, <1>4, <1>5, <1>6 DEF IInv

\* Time passes, and the ticker stops.
LEMMA ElapseInv ==
  ASSUME IInv, Elapse
  PROVE  IInv'
  <1>1. /\ hb' = CM!Aged /\ tick' = TRUE
        /\ UNCHANGED <<connections, userConnections, metrics, handlerVars, sock, stopped,
                       checker, sub, toCome>>
    BY DEF Elapse, CM!Elapse, CM!Heard
  <1>2. GoodHeartbeats' /\ CM!Tracked' = CM!Tracked
    BY <1>1, AgedHeartbeat DEF IInv, TypeOK, CM!TypeOK, GoodHeartbeats
  <1>3. TypeOK'
    BY <1>1, <1>2 DEF IInv, TypeOK, CM!TypeOK, GoodHeartbeats
  <1>4. ServedAreTracked' /\ ConnectionsServed' /\ CutsHeld' /\ KickHasClient'
          /\ DroppedIsClosing'
    BY <1>1, <1>2 DEF IInv, ServedAreTracked, ConnectionsServed, CutsHeld, ToCut,
       KickHasClient, DroppedIsClosing
  <1>. QED  BY <1>2, <1>3, <1>4 DEF IInv, GoodHeartbeats

LEMMA OthersInv ==
  ASSUME IInv, Stop \/ UNCHANGED vars
  PROVE  IInv'
  <1>1. /\ tick' \in BOOLEAN /\ stopped' \in BOOLEAN
        /\ UNCHANGED <<managerVars, handlerVars, sock, checker, sub, toCome>>
    BY DEF Stop, vars, IInv, TypeOK
  <1>. QED  BY <1>1 DEF IInv, TypeOK, CM!TypeOK, CM!HeartbeatTypeOK, MissedBelowLimit,
       ServedAreTracked, CM!Tracked, ConnectionsServed, CutsHeld, ToCut, KickHasClient,
       DroppedIsClosing

\* Every step preserves the invariant.
LEMMA NextInv == IInv /\ [Next]_vars => IInv'
  <1>. SUFFICES ASSUME IInv, [Next]_vars PROVE IInv'
    OBVIOUS
  <1>1. ASSUME NEW c \in Clients,
               \/ Accept(c) \/ ReadError(c) \/ ReadPing(c) \/ ReadRejected(c)
               \/ \E r \in Routes : ReadRequest(c, r)
               \/ HandlerProgress(c)
        PROVE  IInv'
    BY <1>1, AcceptInv, ServeStepInv, ExitInv DEF HandlerProgress, ServeStep
  <1>2. CASE Checker
    BY <1>2, CheckBeginInv, CutWriteInv, CutCloseInv DEF Checker
  <1>. QED  BY <1>1, <1>2, ReceiveInvalidationInv, SubscriberInv, ElapseInv, OthersInv
            DEF Next, Idle

-----------------------------------------------------------------------------
\* The inductive invariant holds in every reachable state.
THEOREM Invariant == Spec => []IInv
  BY InitInv, NextInv, PTL DEF Spec

\* Every component of the state keeps its type.
THEOREM TypeCorrect == Spec => []TypeOK
  <1>1. IInv => TypeOK
    BY DEF IInv
  <1>. QED  BY <1>1, Invariant, PTL

\* Whoever is in the map has a goroutine that will take it out.
THEOREM AllServed == Spec => []ConnectionsServed
  <1>1. IInv => ConnectionsServed
    BY DEF IInv
  <1>. QED  BY <1>1, Invariant, PTL

\* Whoever was taken out of the map behind its goroutine's back is closed, or
\* the subscriber is about to close it.
THEOREM DroppedAreClosing == Spec => []DroppedIsClosing
  <1>1. IInv => DroppedIsClosing
    BY DEF IInv
  <1>. QED  BY <1>1, Invariant, PTL

-----------------------------------------------------------------------------
(***************************************************************************)
(* The goroutines implement the manager.                                   *)
(***************************************************************************)
\* What the manager's map and counters are taken to be.
Kept == connections \ ToCut

Counted ==
    [metrics EXCEPT !.active = CM!Less(@, Cardinality(ToCut)),
                    !.disconnected = @ + Cardinality(ToCut),
                    !.hbFailures = @ + Cardinality(checker.failed)]

\* While the ticker cuts nobody, the manager's state is what the code's is.
LEMMA NobodyToCut ==
  ASSUME NEW m \in Metrics
  PROVE  [m EXCEPT !.active = CM!Less(@, Cardinality({})),
                   !.disconnected = @ + Cardinality({}),
                   !.hbFailures = @ + Cardinality({})] = m
  <1>1. /\ Cardinality({}) = 0
        /\ CM!Less(m.active, 0) = m.active
        /\ m.disconnected + 0 = m.disconnected
        /\ m.hbFailures + 0 = m.hbFailures
    BY FS_EmptySet DEF Metrics, CM!Less
  <1>. QED  BY <1>1 DEF Metrics

LEMMA UncutState ==
  /\ TypeOK /\ ToCut = {} => Kept = connections /\ Counted = metrics
  /\ TypeOK' /\ ToCut' = {} => Kept' = connections' /\ Counted' = metrics'
  <1>1. ASSUME TypeOK, ToCut = {} PROVE Counted = metrics
    <2>1. metrics \in Metrics /\ checker.failed = {}
      BY <1>1 DEF TypeOK, CM!TypeOK, Metrics, ToCut
    <2>. QED  BY <1>1, <2>1, NobodyToCut DEF Counted
  <1>2. ASSUME TypeOK', ToCut' = {} PROVE Counted' = metrics'
    <2>1. metrics' \in Metrics /\ checker'.failed = {}
      BY <1>2 DEF TypeOK, CM!TypeOK, Metrics, ToCut
    <2>. QED  BY <1>2, <2>1, NobodyToCut DEF Counted
  <1>. QED  BY <1>1, <1>2 DEF Kept

\* Both name the same heartbeat map.
LEMMA SameHeartbeats ==
  /\ Manager!Tracked = CM!Tracked
  /\ Manager!CheckedHeartbeats = [c \in Clients |->
        IF c \in Kept \cap CM!Tracked THEN CM!CheckedState(hb[c]) ELSE hb[c]]
  /\ Manager!HeartbeatTimeoutClients = {c \in Kept \cap CM!Tracked : CM!TimesOut(hb[c])}
  /\ Manager!IdleTimeoutClients =
        {c \in Kept \cap CM!Tracked :
            ~CM!TimesOut(hb[c]) /\ CM!IdlesOut(CM!CheckedState(hb[c]))}
  /\ Manager!Aged = CM!Aged
  /\ \A c : /\ Manager!RecordedPing(c) = CM!RecordedPing(c)
            /\ Manager!RecordedActivity(c) = CM!RecordedActivity(c)
  BY DEF Manager!Tracked, CM!Tracked, Manager!CheckedHeartbeats, Manager!CheckedState,
     CM!CheckedState, Manager!HeartbeatTimeoutClients, Manager!IdleTimeoutClients,
     Manager!TimesOut, CM!TimesOut, Manager!IdlesOut, CM!IdlesOut, Manager!Overdue,
     CM!Overdue, Manager!CheckAge, CM!CheckAge, Manager!Never, CM!Never, Manager!Aged,
     CM!Aged, Manager!Older, CM!Older, Manager!MaxAge, CM!MaxAge, Manager!RecordedPing,
     CM!RecordedPing, Manager!NewState, CM!NewState, Manager!RecordedActivity,
     CM!RecordedActivity, Kept

LEMMA InitImplements ==
  ASSUME Init PROVE Manager!Init
  <1>1. TypeOK /\ ToCut = {}
    BY InitInv DEF IInv, Init, ToCut
  <1>2. Kept = {} /\ Counted = metrics
    BY <1>1, UncutState DEF Init, CM!Init
  <1>. QED  BY <1>2 DEF Init, CM!Init, Manager!Init, CM!HeartbeatInit, Manager!HeartbeatInit,
       Kept, Counted

\* A step that leaves the maps and the counters alone is none of the manager's.
LEMMA Unseen ==
  ASSUME UNCHANGED managerVars, ToCut' = ToCut, checker'.failed = checker.failed
  PROVE  UNCHANGED Manager!cmVars
  BY DEF Manager!cmVars, CM!Less

\* ServeWS: a frame or a reply is activity, a login is a mapping.
LEMMA ServeStepImplements ==
  ASSUME IInv, NEW c \in Clients, ServeStep(c)
  PROVE  Manager!Next \/ UNCHANGED Manager!cmVars
  <1>1. UNCHANGED checker /\ ToCut' = ToCut
    BY DEF ServeStep, ReadError, ReadPing, ReadRejected, ReadRequest, CallFails, CallSucceeds,
           ReplyWritten, Login, Touch, ToCut
  <1>2. CASE UNCHANGED managerVars
    BY <1>1, <1>2, Unseen
  <1>3. CASE ReadPing(c) \/ Touch(c)
    <2>1. /\ hb' = CM!RecordedActivity(c)
          /\ UNCHANGED <<connections, userConnections, metrics>>
          /\ c \in CM!Tracked
      BY <1>3 DEF ReadPing, Touch, CM!RecordActivity, CM!Heard, IInv, ServedAreTracked
    <2>2. c \in Manager!Tracked /\ Manager!RecordActivity(c)
      BY <1>1, <2>1, SameHeartbeats DEF Manager!RecordActivity, Manager!Heard, CM!Less
    <2>. QED  BY <2>2 DEF Manager!Next, Manager!ClientStep
  <1>4. CASE Login(c) /\ reply[c] # NoUser
    <2>1. /\ reply[c] \in Users
          /\ userConnections' = [userConnections EXCEPT ![reply[c]] = c]
          /\ UNCHANGED <<hb, connections, metrics>>
          /\ c \in CM!Tracked
      BY <1>4 DEF Login, CM!RegisterUserConnection, IInv, TypeOK, ServedAreTracked
    <2>2. c \in Manager!Tracked /\ Manager!RegisterUserConnection(reply[c], c)
      BY <1>1, <2>1, SameHeartbeats DEF Manager!RegisterUserConnection, CM!Less
    <2>. QED  BY <2>1, <2>2 DEF Manager!Next, Manager!ClientStep
  <1>. QED  BY <1>2, <1>3, <1>4 DEF ServeStep, ReadError, ReadRejected, ReadRequest, CallFails,
            CallSucceeds, ReplyWritten, Login

\* A connection is registered.
LEMMA AcceptImplements ==
  ASSUME IInv, NEW c \in Clients, Accept(c)
  PROVE  Manager!Next
  <1>1. /\ ToCut = {} /\ ToCut' = {} /\ c \notin connections /\ CM!Fresh(c)
        /\ connections' = connections \cup {c}
        /\ metrics' = [metrics EXCEPT !.total = @ + 1, !.active = @ + 1]
        /\ hb' = CM!RecordedPing(c) /\ userConnections' = userConnections
    BY DEF Accept, Unlocked, CM!RegisterConnection, ToCut
  <1>2. TypeOK /\ TypeOK'
    BY AcceptInv DEF IInv
  <1>3. /\ Kept = connections /\ Kept' = connections'
        /\ Counted = metrics /\ Counted' = metrics'
    BY <1>1, <1>2, UncutState
  <1>4. Manager!Fresh(c) /\ Manager!RegisterConnection(c)
    BY <1>1, <1>3, SameHeartbeats
    DEF Kept, Counted, Manager!Fresh, CM!Fresh, Manager!RegisterConnection
  <1>. QED  BY <1>4 DEF Manager!Next, Manager!ClientStep

\* The deferred cleanup is an unregistration.
LEMMA ExitImplements ==
  ASSUME IInv, NEW c \in Clients, Exit(c)
  PROVE  Manager!Next
  <1>1. /\ ToCut = {} /\ ToCut' = {} /\ pc[c] = "exit"
        /\ CM!UnregisterConnection(c)
    BY DEF Exit, Unlocked, ToCut
  <1>2. /\ Kept = connections /\ Kept' = connections'
        /\ Counted = metrics /\ Counted' = metrics'
    BY <1>1, ExitInv, UncutState DEF IInv
  <1>3. c \in Manager!Tracked
    BY <1>1, SameHeartbeats DEF IInv, ServedAreTracked
  <1>4. Manager!UnregisterConnection(c)
    BY <1>1, <1>2
    DEF CM!UnregisterConnection, Manager!UnregisterConnection, CM!ForgetOneUserOf,
        Manager!ForgetOneUserOf, CM!UsersOf, Manager!UsersOf, CM!cmVars, Manager!cmVars,
        CM!Less, Manager!Less, Kept, Counted
  <1>. QED  BY <1>3, <1>4 DEF Manager!Next, Manager!ClientStep

\* A kick takes effect on the maps under the lock.
LEMMA ReceiveInvalidationImplements ==
  ASSUME IInv, NEW u \in Users, ReceiveInvalidation(u)
  PROVE  Manager!Next
  <1>1. ToCut = {} /\ ToCut' = {} /\ CM!DisconnectByUserID(u)
    BY DEF ReceiveInvalidation, Unlocked, ToCut
  <1>2. /\ Kept = connections /\ Kept' = connections'
        /\ Counted = metrics /\ Counted' = metrics'
    BY <1>1, ReceiveInvalidationInv, UncutState DEF IInv
  <1>3. Manager!DisconnectByUserID(u)
    BY <1>1, <1>2
    DEF CM!DisconnectByUserID, CM!DisconnectUnknownUser, CM!DisconnectMappedUser, CM!cmVars,
        Manager!DisconnectByUserID, Manager!DisconnectUnknownUser,
        Manager!DisconnectMappedUser, Manager!cmVars, CM!Less, Manager!Less, Kept, Counted
  <1>. QED  BY <1>3 DEF Manager!Next

\* Cutting n clients one by one counts as cutting them at once.
LEMMA CountDown ==
  ASSUME NEW a \in Nat, NEW n \in Nat \ {0}
  PROVE  CM!Less(CM!Less(a, 1), n - 1) = CM!Less(a, n)
  BY DEF CM!Less

LEMMA SameCardinality == \A S : Manager!Cardinality(S) = Cardinality(S)
  BY DEF Manager!Cardinality, Cardinality

\* The check is the manager's from the moment it has collected whom to cut ...
LEMMA CheckBeginImplements ==
  ASSUME IInv, CheckBegin
  PROVE  Manager!Next
  <1>1. /\ ToCut = {} /\ hb' = CM!CheckedHeartbeats
        /\ checker'.failed = CM!HeartbeatTimeoutClients
        /\ ToCut' = CM!HeartbeatTimeoutClients \cup CM!IdleTimeoutClients
        /\ UNCHANGED <<connections, userConnections, metrics>>
    BY DEF CheckBegin, Unlocked, ToCut
  <1>2. Kept = connections /\ Counted = metrics
    BY <1>1, UncutState DEF IInv
  <1>3. /\ Manager!CheckedHeartbeats = CM!CheckedHeartbeats
        /\ Manager!HeartbeatTimeoutClients = CM!HeartbeatTimeoutClients
        /\ Manager!IdleTimeoutClients = CM!IdleTimeoutClients
    BY <1>2, SameHeartbeats DEF CM!CheckedHeartbeats, CM!HeartbeatTimeoutClients,
       CM!IdleTimeoutClients
  <1>4. /\ Kept' = Kept \ ToCut'
        /\ Counted' = [Counted EXCEPT
                         !.active = CM!Less(@, Cardinality(ToCut')),
                         !.disconnected = @ + Cardinality(ToCut'),
                         !.hbFailures = @ + Cardinality(checker'.failed)]
    BY <1>1, <1>2 DEF Kept, Counted
  <1>5. Manager!CheckAllConnections
    <2>1. \A a, n : Manager!Less(a, n) = CM!Less(a, n)
      BY DEF CM!Less, Manager!Less
    <2>2. ToCut' = Manager!HeartbeatTimeoutClients \cup Manager!IdleTimeoutClients
      BY <1>1, <1>3
    <2>3. /\ hb' = Manager!CheckedHeartbeats
          /\ checker'.failed = Manager!HeartbeatTimeoutClients
      BY <1>1, <1>3
    <2>4. Counted' =
            LET cut == Manager!HeartbeatTimeoutClients \cup Manager!IdleTimeoutClients
            IN  [Counted EXCEPT
                   !.active = Manager!Less(@, Cardinality(cut)),
                   !.disconnected = @ + Cardinality(cut),
                   !.hbFailures = @ + Cardinality(Manager!HeartbeatTimeoutClients)]
      BY <1>4, <2>1, <2>2, <2>3
    <2>5. Kept' = Kept \ (Manager!HeartbeatTimeoutClients \cup Manager!IdleTimeoutClients)
      BY <1>4, <2>2
    <2>. QED  BY <1>1, <2>3, <2>4, <2>5, SameCardinality
              DEF Manager!CheckAllConnections, Kept, Counted
  <1>. QED  BY <1>5 DEF Manager!Next

\* ... and cutting them one by one is none of its steps.
LEMMA CutCloseImplements ==
  ASSUME IInv, NEW c \in Clients, CutClose(c)
  PROVE  UNCHANGED Manager!cmVars
  <1>1. /\ c \in ToCut /\ ToCut' = ToCut \ {c} /\ checker'.failed = checker.failed \ {c}
        /\ metrics' = [metrics EXCEPT
                         !.active = CM!Less(@, 1),
                         !.disconnected = @ + 1,
                         !.hbFailures = IF c \in checker.failed THEN @ + 1 ELSE @]
    BY CutCloseStep
  <1>2. /\ hb' = hb /\ userConnections' = userConnections
        /\ connections' = connections \ {c}
    BY DEF CutClose
  <1>3. IsFiniteSet(ToCut) /\ IsFiniteSet(checker.failed)
    <2>1. ToCut \subseteq Clients /\ checker.failed \subseteq Clients
      BY DEF IInv, TypeOK, ToCut
    <2>. QED  BY <2>1, GatewayAssumption, FS_Subset
  <1>. DEFINE n == Cardinality(ToCut)
              f == Cardinality(checker.failed)
  <1>4. n \in Nat \ {0} /\ Cardinality(ToCut') = n - 1
    <2>1. Cardinality(ToCut \ {c}) = n - 1
      BY <1>1, <1>3, FS_RemoveElement
    <2>2. n \in Nat /\ Cardinality(ToCut \ {c}) \in Nat
      BY <1>3, FS_CardinalityType, FS_RemoveElement
    <2>. QED  BY <1>1, <2>1, <2>2
  <1>5. /\ f \in Nat
        /\ Cardinality(checker'.failed) = IF c \in checker.failed THEN f - 1 ELSE f
    <2>1. f \in Nat
      BY <1>3, FS_CardinalityType
    <2>2. Cardinality(checker.failed \ {c}) = IF c \in checker.failed THEN f - 1 ELSE f
      BY <1>3, FS_RemoveElement
    <2>. QED  BY <1>1, <2>1, <2>2
  <1>6. /\ metrics \in Metrics
        /\ metrics.active \in Nat /\ metrics.disconnected \in Nat
        /\ metrics.hbFailures \in Nat
    BY DEF IInv, TypeOK, CM!TypeOK, Metrics
  <1>7. Counted' = Counted
    <2>. HIDE DEF n, f
    <2>1. /\ metrics'.active = CM!Less(metrics.active, 1)
          /\ metrics'.disconnected = metrics.disconnected + 1
          /\ metrics'.hbFailures = IF c \in checker.failed THEN metrics.hbFailures + 1
                                                          ELSE metrics.hbFailures
      BY <1>1, <1>6 DEF Metrics
    <2>2. /\ CM!Less(metrics'.active, n - 1) = CM!Less(metrics.active, n)
          /\ metrics'.disconnected + (n - 1) = metrics.disconnected + n
          /\ metrics'.hbFailures + (IF c \in checker.failed THEN f - 1 ELSE f)
               = metrics.hbFailures + f
      BY <1>4, <1>5, <1>6, <2>1, CountDown
    <2>3. Counted = [metrics EXCEPT !.active = CM!Less(metrics.active, n),
                                    !.disconnected = metrics.disconnected + n,
                                    !.hbFailures = metrics.hbFailures + f]
      BY DEF Counted, n, f
    <2>4. Counted' = [metrics' EXCEPT
                        !.active = CM!Less(metrics'.active, n - 1),
                        !.disconnected = metrics'.disconnected + (n - 1),
                        !.hbFailures = metrics'.hbFailures
                                         + (IF c \in checker.failed THEN f - 1 ELSE f)]
      BY <1>4, <1>5 DEF Counted
    <2>5. metrics' = [metrics EXCEPT !.active = metrics'.active,
                                     !.disconnected = metrics'.disconnected,
                                     !.hbFailures = metrics'.hbFailures]
      BY <1>1, <1>6, <2>1 DEF Metrics
    <2>. QED  BY <1>6, <2>2, <2>3, <2>4, <2>5 DEF Metrics
  <1>8. Kept' = Kept
    BY <1>1, <1>2 DEF Kept
  <1>. QED  BY <1>2, <1>7, <1>8 DEF Manager!cmVars, Kept, Counted

LEMMA CutWriteImplements ==
  ASSUME IInv, NEW c \in Clients, CutWrite(c)
  PROVE  UNCHANGED Manager!cmVars
  <1>1. checker' = [checker EXCEPT !.writing = c] /\ UNCHANGED managerVars
    BY DEF CutWrite
  <1>2. checker'.failed = checker.failed /\ ToCut' = ToCut
    BY <1>1 DEF IInv, TypeOK, ToCut
  <1>. QED  BY <1>1, <1>2, Unseen

LEMMA ElapseImplements ==
  ASSUME IInv, Elapse
  PROVE  Manager!Next
  <1>1. /\ hb' = CM!Aged
        /\ UNCHANGED <<connections, userConnections, metrics, checker>>
    BY DEF Elapse, CM!Elapse, CM!Heard
  <1>2. Manager!Elapse
    BY <1>1, SameHeartbeats DEF Manager!Elapse, Manager!Heard, ToCut, CM!Less
  <1>. QED  BY <1>2 DEF Manager!Next

\* What the subscriber does between two messages, and the end of the ticker.
LEMMA OthersImplement ==
  ASSUME \/ ReceiveMalformed \/ SubscriberEnds \/ Subscriber \/ Stop \/ UNCHANGED vars
  PROVE  UNCHANGED Manager!cmVars
  <1>1. UNCHANGED managerVars /\ UNCHANGED checker
    BY DEF ReceiveMalformed, SubscriberEnds, Subscriber, KickStep, KickClose, Stop, vars
  <1>. QED  BY <1>1, Unseen DEF ToCut

\* Every step of the goroutines is one of the manager's, or none.
LEMMA NextImplements ==
  IInv /\ [Next]_vars => [Manager!Next]_(Manager!cmVars)
  <1>. SUFFICES ASSUME IInv, [Next]_vars
                PROVE  Manager!Next \/ UNCHANGED Manager!cmVars
    OBVIOUS
  <1>1. ASSUME NEW c \in Clients,
               \/ Accept(c) \/ ReadError(c) \/ ReadPing(c) \/ ReadRejected(c)
               \/ \E r \in Routes : ReadRequest(c, r)
               \/ HandlerProgress(c)
        PROVE  Manager!Next \/ UNCHANGED Manager!cmVars
    BY <1>1, AcceptImplements, ServeStepImplements, ExitImplements
    DEF HandlerProgress, ServeStep
  <1>2. CASE Checker
    BY <1>2, CheckBeginImplements, CutWriteImplements, CutCloseImplements DEF Checker
  <1>. QED  BY <1>1, <1>2, ReceiveInvalidationImplements, OthersImplement, ElapseImplements
            DEF Next, Idle

\* The gateway's goroutines, with the check and the kick in pieces, do nothing
\* that ConnectionManager's atomic methods do not.
THEOREM Implementation == Spec => ImplementsManager
  <1>1. Spec => Manager!Init
    BY InitImplements DEF Spec
  <1>. QED  BY <1>1, Invariant, NextImplements, PTL DEF Spec, ImplementsManager, Manager!Spec

==============================================================================
