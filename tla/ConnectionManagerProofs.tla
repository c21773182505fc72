----------------------- MODULE ConnectionManagerProofs -----------------------
(***************************************************************************)
(* Theorems of module ConnectionManager, for any number of clients and     *)
(* users and any timeouts.                                                 *)
(***************************************************************************)
EXTENDS ConnectionManager, FiniteSetTheorems, TLAPS

\* A client that is alive may still miss a check: the counter is below its
\* limit, so counting one more miss stays within it.
MissedBelowLimit == \A c \in Alive : hb[c].missed < MaxMissed

\* The inductive invariant.
IInv ==
    /\ TypeOK
    /\ MissedBelowLimit
    /\ ConnectionsMonitored
    /\ ActiveNotOvercounted
    /\ CountersAccurate
    /\ UndercountExplained

USE DEF HeartbeatTypeOK

-----------------------------------------------------------------------------
(***************************************************************************)
(* The heartbeat operators.                                                *)
(***************************************************************************)
LEMMA AgesType == MaxAge \in Nat /\ MaxAge > Timeout /\ 0 \in Ages
  BY HeartbeatAssumption DEF MaxAge, Ages

\* A new entry is a well-formed one of a live client.
LEMMA NewStateType == NewState \in ConnState
  BY HeartbeatAssumption, AgesType DEF NewState, ConnState, Never

\* An entry that exists is a record; the absent one is not.
LEMMA EntryType ==
  ASSUME HeartbeatTypeOK, NEW c \in Tracked
  PROVE  c \in Clients /\ hb[c] \in ConnState
  BY DEF Tracked

\* A check leaves a well-formed entry, dead exactly if it timed out.
LEMMA CheckedStateType ==
  ASSUME NEW s \in ConnState, s.alive => s.missed < MaxMissed
  PROVE  /\ CheckedState(s) \in ConnState
         /\ CheckedState(s).alive <=> (s.alive /\ ~TimesOut(s))
         /\ CheckedState(s).alive => CheckedState(s).missed < MaxMissed
         /\ TimesOut(s) => s.alive
  <1>1. CASE Overdue(s)
    <2>1. CheckedState(s) =
            [s EXCEPT !.missed = @ + 1, !.alive = s.missed + 1 < MaxMissed]
      BY <1>1 DEF CheckedState
    <2>2. s.alive /\ s.missed + 1 \in 0 .. MaxMissed
      BY <1>1, HeartbeatAssumption DEF Overdue, ConnState
    <2>3. TimesOut(s) <=> ~(s.missed + 1 < MaxMissed)
      BY <1>1, <2>2, HeartbeatAssumption DEF TimesOut
    <2>4. (s.missed + 1 < MaxMissed) \in BOOLEAN
      OBVIOUS
    <2>5. CheckedState(s) \in ConnState
      BY <2>1, <2>2, <2>4 DEF ConnState
    <2>6. /\ CheckedState(s).alive = (s.missed + 1 < MaxMissed)
          /\ CheckedState(s).missed = s.missed + 1
      BY <2>1 DEF ConnState
    <2>. QED  BY <2>2, <2>3, <2>5, <2>6
  <1>2. CASE ~Overdue(s)
    BY <1>2 DEF CheckedState, TimesOut
  <1>. QED  BY <1>1, <1>2

\* Growing older keeps an age an age, and "never" never.
LEMMA OlderType ==
  /\ \A a \in Ages : Older(a) \in Ages
  /\ Older(Never) = Never
  BY AgesType DEF Older, Ages, Never

-----------------------------------------------------------------------------
(***************************************************************************)
(* What each step does to the heartbeat map, the domain it covers and the  *)
(* clients it believes alive.                                              *)
(***************************************************************************)
\* The three facts about hb that every step keeps or establishes.
GoodHeartbeats == HeartbeatTypeOK /\ MissedBelowLimit

\* A step that replaces entries by well-formed ones of the same liveness.
LEMMA SameLiveness ==
  ASSUME GoodHeartbeats,
         hb' \in [Clients -> ConnState \cup {NoState}],
         \A c \in Clients : hb'[c] = NoState <=> hb[c] = NoState,
         \A c \in Tracked :
            hb'[c].alive = hb[c].alive
              /\ (hb[c].missed < MaxMissed => hb'[c].missed < MaxMissed)
  PROVE  GoodHeartbeats' /\ Tracked' = Tracked /\ Alive' = Alive
  <1>1. Tracked' = Tracked
    BY DEF Tracked
  <1>2. Alive' = Alive
    BY <1>1 DEF Alive
  <1>3. MissedBelowLimit'
    BY <1>1, <1>2 DEF GoodHeartbeats, MissedBelowLimit, Alive
  <1>. QED  BY <1>1, <1>2, <1>3 DEF GoodHeartbeats

\* A new client becomes one more tracked, live client.
LEMMA RegisterHeartbeat ==
  ASSUME GoodHeartbeats, NEW c \in Clients, Fresh(c), hb' = RecordedPing(c)
  PROVE  /\ GoodHeartbeats'
         /\ Tracked' = Tracked \cup {c} /\ c \notin Tracked
         /\ Alive' = Alive \cup {c}
  <1>1. hb[c] = NoState
    BY DEF Fresh, Tracked
  <1>2. hb' = [hb EXCEPT ![c] = NewState]
    BY <1>1 DEF RecordedPing
  <1>3. HeartbeatTypeOK'
    BY <1>2, NewStateType DEF GoodHeartbeats
  <1>4. NewState # NoState /\ NewState.alive /\ NewState.missed < MaxMissed
    <2>1. NewState # NoState
      BY NewStateType, HeartbeatAssumption
    <2>2. NewState.alive = TRUE /\ NewState.missed = 0
      BY DEF NewState
    <2>. QED  BY <2>1, <2>2, HeartbeatAssumption
  <1>5. /\ hb'[c] = NewState
        /\ \A d \in Clients \ {c} : hb'[d] = hb[d]
    BY <1>2 DEF GoodHeartbeats
  <1>6. Tracked' = Tracked \cup {c} /\ c \notin Tracked
    BY <1>1, <1>4, <1>5 DEF Tracked
  <1>7. Alive' = Alive \cup {c}
    BY <1>4, <1>5, <1>6 DEF Alive, Tracked
  <1>8. MissedBelowLimit'
    BY <1>4, <1>5, <1>7 DEF MissedBelowLimit, GoodHeartbeats, Alive, Tracked
  <1>. QED  BY <1>3, <1>6, <1>7, <1>8 DEF GoodHeartbeats

\* RecordPing, RecordPong, RecordActivity of a tracked client, and time.
LEMMA HeardHeartbeat ==
  ASSUME GoodHeartbeats,
         \/ \E c \in Tracked : \/ hb' = RecordedPing(c)
                               \/ hb' = RecordedPong(c)
                               \/ hb' = RecordedActivity(c)
         \/ hb' = Aged
         \/ hb' = hb
  PROVE  GoodHeartbeats' /\ Tracked' = Tracked /\ Alive' = Alive
  <1>. USE DEF GoodHeartbeats
  <1>1. ASSUME NEW c \in Tracked,
               NEW s \in ConnState,
               s.alive = hb[c].alive,
               hb[c].missed < MaxMissed => s.missed < MaxMissed,
               hb' = [hb EXCEPT ![c] = s]
        PROVE  GoodHeartbeats' /\ Tracked' = Tracked /\ Alive' = Alive
    <2>1. c \in Clients /\ hb[c] # NoState /\ s # NoState
      BY <1>1, HeartbeatAssumption DEF Tracked
    <2>2. hb'[c] = s /\ \A d \in Clients \ {c} : hb'[d] = hb[d]
      BY <1>1, <2>1
    <2>. QED  BY <1>1, <2>1, <2>2, SameLiveness DEF Tracked
  <1>2. ASSUME NEW c \in Tracked, hb' = RecordedPing(c)
        PROVE  GoodHeartbeats' /\ Tracked' = Tracked /\ Alive' = Alive
    <2>. DEFINE s == [hb[c] EXCEPT !.ping = 0, !.activity = 0, !.missed = 0]
    <2>1. c \in Clients /\ hb[c] # NoState /\ hb[c] \in ConnState
      BY EntryType DEF Tracked
    <2>2. hb' = [hb EXCEPT ![c] = s]
      BY <1>2, <2>1 DEF RecordedPing
    <2>3. 0 \in 0 .. MaxMissed /\ 0 < MaxMissed
      BY HeartbeatAssumption
    <2>4. s \in ConnState
      BY <2>1, <2>3, AgesType DEF ConnState
    <2>5. s.alive = hb[c].alive /\ s.missed = 0
      BY <2>1 DEF ConnState
    <2>. QED  BY <1>1, <2>2, <2>3, <2>4, <2>5
  <1>3. ASSUME NEW c \in Tracked, hb' = RecordedPong(c)
        PROVE  GoodHeartbeats' /\ Tracked' = Tracked /\ Alive' = Alive
    <2>. DEFINE s == [hb[c] EXCEPT !.pong = 0, !.missed = 0]
    <2>1. c \in Clients /\ hb[c] # NoState /\ hb[c] \in ConnState
      BY EntryType DEF Tracked
    <2>2. hb' = [hb EXCEPT ![c] = s]
      BY <1>3, <2>1 DEF RecordedPong
    <2>3. 0 \in 0 .. MaxMissed /\ 0 < MaxMissed
      BY HeartbeatAssumption
    <2>4. s \in ConnState
      BY <2>1, <2>3, AgesType DEF ConnState
    <2>5. s.alive = hb[c].alive /\ s.missed = 0
      BY <2>1 DEF ConnState
    <2>. QED  BY <1>1, <2>2, <2>3, <2>4, <2>5
  <1>4. ASSUME NEW c \in Tracked, hb' = RecordedActivity(c)
        PROVE  GoodHeartbeats' /\ Tracked' = Tracked /\ Alive' = Alive
    <2>. DEFINE s == [hb[c] EXCEPT !.activity = 0]
    <2>1. c \in Clients /\ hb[c] # NoState /\ hb[c] \in ConnState
      BY EntryType DEF Tracked
    <2>2. hb' = [hb EXCEPT ![c] = s]
      BY <1>4, <2>1 DEF RecordedActivity
    <2>3. s \in ConnState /\ s.alive = hb[c].alive /\ s.missed = hb[c].missed
      BY <2>1, AgesType DEF ConnState
    <2>. QED  BY <1>1, <2>2, <2>3
  <1>5. CASE hb' = Aged
    <2>1. \A c \in Tracked :
            /\ hb'[c] \in ConnState
            /\ hb'[c].alive = hb[c].alive /\ hb'[c].missed = hb[c].missed
      BY <1>5, EntryType, OlderType DEF Aged, ConnState, Tracked
    <2>2. \A c \in Clients \ Tracked : hb'[c] = NoState
      BY <1>5 DEF Aged, Tracked
    <2>3. hb' \in [Clients -> ConnState \cup {NoState}]
      BY <1>5, <2>1, <2>2 DEF Aged
    <2>4. \A c \in Clients : hb'[c] = NoState <=> hb[c] = NoState
      BY <2>1, <2>2, HeartbeatAssumption DEF Tracked
    <2>. QED  BY <2>1, <2>3, <2>4, SameLiveness
  <1>6. CASE hb' = hb
    BY <1>6, SameLiveness
  <1>. QED  BY <1>2, <1>3, <1>4, <1>5, <1>6

\* A check of all connections kills exactly those that timed out.
LEMMA CheckHeartbeat ==
  ASSUME GoodHeartbeats, connections \subseteq Clients, hb' = CheckedHeartbeats
  PROVE  /\ GoodHeartbeats'
         /\ Tracked' = Tracked
         /\ Alive' = Alive \ HeartbeatTimeoutClients
         /\ HeartbeatTimeoutClients \subseteq Alive \cap connections
  <1>. USE DEF GoodHeartbeats
  <1>1. \A c \in connections \cap Tracked :
          /\ hb'[c] = CheckedState(hb[c])
          /\ hb'[c] \in ConnState
          /\ hb'[c].alive <=> (hb[c].alive /\ ~TimesOut(hb[c]))
          /\ hb'[c].alive => hb'[c].missed < MaxMissed
          /\ TimesOut(hb[c]) => hb[c].alive
    BY EntryType, CheckedStateType
       DEF CheckedHeartbeats, MissedBelowLimit, Alive
  <1>2. \A c \in Clients : c \notin connections \cap Tracked => hb'[c] = hb[c]
    BY DEF CheckedHeartbeats
  <1>3. hb' \in [Clients -> ConnState \cup {NoState}]
    BY <1>1, <1>2 DEF CheckedHeartbeats
  <1>4. Tracked' = Tracked
    BY <1>1, <1>2, HeartbeatAssumption DEF Tracked
  <1>5. HeartbeatTimeoutClients \subseteq Alive \cap connections
    BY <1>1 DEF HeartbeatTimeoutClients, Alive
  <1>6. Alive' = Alive \ HeartbeatTimeoutClients
    <2>1. \A c \in Tracked :
            c \in Alive' <=> c \in Alive /\ c \notin HeartbeatTimeoutClients
      BY <1>1, <1>2, <1>4, EntryType DEF Alive, HeartbeatTimeoutClients
    <2>. QED  BY <1>4, <2>1 DEF Alive
  <1>7. MissedBelowLimit'
    BY <1>1, <1>2, <1>6 DEF MissedBelowLimit, Alive, Tracked
  <1>. QED  BY <1>3, <1>4, <1>5, <1>6, <1>7

-----------------------------------------------------------------------------
(***************************************************************************)
(* Counting.                                                               *)
(***************************************************************************)
\* The clamp keeps ActiveConnections a natural number, and taking n away from
\* it keeps it within what is left of a larger number.
LEMMA LessType ==
  ASSUME NEW a \in Nat, NEW n \in Nat
  PROVE  /\ Less(a, n) \in Nat
         /\ Less(a, n) <= a /\ a - n <= Less(a, n)
         /\ \A k \in Nat : a <= k /\ n <= k => Less(a, n) <= k - n
  BY DEF Less

\* Everything that is counted is finite.
LEMMA FiniteSets ==
  ASSUME connections \subseteq Clients
  PROVE  /\ IsFiniteSet(connections) /\ Cardinality(connections) \in Nat
         /\ IsFiniteSet(Tracked) /\ Cardinality(Tracked) \in Nat
         /\ IsFiniteSet(Tracked \ Alive) /\ Cardinality(Tracked \ Alive) \in Nat
  <1>1. Tracked \in SUBSET Clients /\ Tracked \ Alive \in SUBSET Clients
    BY DEF Tracked
  <1>. QED  BY <1>1, FS_Subset, FS_CardinalityType, ConnectionManagerAssumption

\* Taking one set out of another takes its size out of the size.
LEMMA RemoveSet ==
  ASSUME NEW S, IsFiniteSet(S), NEW T, T \subseteq S
  PROVE  /\ IsFiniteSet(T) /\ Cardinality(T) \in Nat
         /\ Cardinality(T) <= Cardinality(S)
         /\ Cardinality(S \ T) = Cardinality(S) - Cardinality(T)
  <1>1. /\ IsFiniteSet(T) /\ IsFiniteSet(S \ T)
        /\ Cardinality(T) <= Cardinality(S)
    BY FS_Subset
  <1>2. /\ Cardinality(T) \in Nat /\ Cardinality(S \ T) \in Nat
        /\ Cardinality(S) \in Nat
    BY <1>1, FS_CardinalityType
  <1>3. Cardinality(T \cup (S \ T)) =
          Cardinality(T) + Cardinality(S \ T) - Cardinality(T \cap (S \ T))
    BY <1>1, FS_Union
  <1>4. T \cup (S \ T) = S /\ T \cap (S \ T) = {}
    OBVIOUS
  <1>5. Cardinality({}) = 0
    BY FS_EmptySet
  <1>6. Cardinality(S) = Cardinality(T) + Cardinality(S \ T) - 0
    BY <1>3, <1>4, <1>5
  <1>. QED  BY <1>1, <1>2, <1>6

\* A step that neither tracks nor kills a client keeps the counters accurate as
\* long as it lowers none.
LEMMA SameCounters ==
  ASSUME IInv,
         Tracked' = Tracked, Alive' = Alive,
         metrics'.total = metrics.total,
         metrics'.hbFailures = metrics.hbFailures,
         metrics'.disconnected \in Nat,
         metrics'.disconnected >= metrics.disconnected
  PROVE  CountersAccurate'
  <1>1. /\ metrics.total = Cardinality(Tracked)
        /\ metrics.hbFailures = Cardinality(Tracked \ Alive)
        /\ metrics.hbFailures <= metrics.disconnected
        /\ metrics.hbFailures \in Nat /\ metrics.disconnected \in Nat
    BY DEF IInv, TypeOK, CountersAccurate
  <1>. QED  BY <1>1 DEF CountersAccurate

-----------------------------------------------------------------------------
(***************************************************************************)
(* One lemma per action: it preserves the inductive invariant.             *)
(***************************************************************************)
\* What the invariant says, ready for use.
LEMMA InvFacts ==
  ASSUME IInv
  PROVE  /\ GoodHeartbeats
         /\ connections \subseteq Clients /\ connections \subseteq Alive
         /\ metrics.total \in Nat /\ metrics.active \in Nat
         /\ metrics.disconnected \in Nat /\ metrics.hbFailures \in Nat
         /\ metrics.active <= Cardinality(connections)
         /\ Cardinality(connections) - metrics.active
              <= metrics.disconnected - metrics.hbFailures
  BY DEF IInv, TypeOK, GoodHeartbeats, ConnectionsMonitored,
         ActiveNotOvercounted, UndercountExplained

\* RegisterConnection counts the new client in both maps.
LEMMA RegisterConnectionInv ==
  ASSUME IInv, NEW c \in Clients, Fresh(c), RegisterConnection(c)
  PROVE  IInv'
  <1>. USE InvFacts DEF RegisterConnection
  <1>1. /\ GoodHeartbeats'
        /\ Tracked' = Tracked \cup {c} /\ c \notin Tracked
        /\ Alive' = Alive \cup {c}
    BY RegisterHeartbeat
  <1>2. metrics' = [metrics EXCEPT !.total = metrics.total + 1,
                                   !.active = metrics.active + 1]
    OBVIOUS
  <1>3. /\ metrics'.total = metrics.total + 1
        /\ metrics'.active = metrics.active + 1
        /\ metrics'.disconnected = metrics.disconnected
        /\ metrics'.hbFailures = metrics.hbFailures
    BY <1>2 DEF IInv, TypeOK
  <1>4. TypeOK'
    <2>1. metrics.total + 1 \in Nat /\ metrics.active + 1 \in Nat
      OBVIOUS
    <2>2. metrics' \in [total : Nat, active : Nat, disconnected : Nat,
                        hbFailures : Nat]
      BY <1>2, <2>1 DEF IInv, TypeOK
    <2>. QED  BY <1>1, <2>2 DEF IInv, TypeOK, GoodHeartbeats
  <1>5. ConnectionsMonitored'
    BY <1>1 DEF ConnectionsMonitored
  <1>6. ActiveNotOvercounted'
    <2>1. Cardinality(connections') = Cardinality(connections) + 1
      BY FiniteSets, FS_AddElement
    <2>. QED  BY <1>3, <2>1, FiniteSets DEF ActiveNotOvercounted
  <1>7. CountersAccurate'
    <2>1. Tracked' \ Alive' = Tracked \ Alive
      BY <1>1
    <2>2. Cardinality(Tracked') = Cardinality(Tracked) + 1
      BY <1>1, FiniteSets, FS_AddElement
    <2>. QED  BY <1>3, <2>1, <2>2 DEF IInv, CountersAccurate
  <1>8. UndercountExplained'
    <2>1. Cardinality(connections') = Cardinality(connections) + 1
      BY FiniteSets, FS_AddElement
    <2>. QED  BY <1>3, <2>1, FiniteSets DEF UndercountExplained
  <1>. QED  BY <1>1, <1>4, <1>5, <1>6, <1>7, <1>8 DEF IInv, GoodHeartbeats

\* UnregisterConnection, whether or not the client is still in the map.
LEMMA UnregisterConnectionInv ==
  ASSUME IInv, NEW c \in Clients, UnregisterConnection(c)
  PROVE  IInv'
  <1>1. CASE c \in connections
    <2>. USE InvFacts
    <2>1. /\ connections' = connections \ {c}
          /\ metrics' = [metrics EXCEPT !.active = Less(metrics.active, 1)]
          /\ ForgetOneUserOf(c) /\ hb' = hb
      BY <1>1 DEF UnregisterConnection
    <2>2. GoodHeartbeats' /\ Tracked' = Tracked /\ Alive' = Alive
      BY <2>1, HeardHeartbeat
    <2>3. /\ Less(metrics.active, 1) \in Nat
          /\ Less(metrics.active, 1) <= Cardinality(connections) - 1
          /\ metrics.active - 1 <= Less(metrics.active, 1)
      <3>1. Cardinality(connections) \in Nat \ {0}
        BY <1>1, FiniteSets, FS_EmptySet
      <3>2. metrics.active \in Nat /\ 1 \in Nat
        OBVIOUS
      <3>3. /\ Less(metrics.active, 1) \in Nat
            /\ metrics.active - 1 <= Less(metrics.active, 1)
            /\ \A k \in Nat : metrics.active <= k /\ 1 <= k
                               => Less(metrics.active, 1) <= k - 1
        BY <3>2, LessType
      <3>4. 1 <= Cardinality(connections)
        BY <3>1
      <3>. QED  BY <3>1, <3>3, <3>4
    <2>4. /\ metrics'.total = metrics.total
          /\ metrics'.active = Less(metrics.active, 1)
          /\ metrics'.disconnected = metrics.disconnected
          /\ metrics'.hbFailures = metrics.hbFailures
      BY <2>1 DEF IInv, TypeOK
    <2>5. userConnections' \in [Users -> Clients \cup {NoClient}]
      BY <2>1 DEF ForgetOneUserOf, UsersOf, IInv, TypeOK
    <2>6. TypeOK'
      BY <2>1, <2>2, <2>3, <2>5 DEF IInv, TypeOK, GoodHeartbeats
    <2>7. ConnectionsMonitored'
      BY <2>1, <2>2 DEF ConnectionsMonitored
    <2>8. ActiveNotOvercounted'
      BY <1>1, <2>1, <2>3, <2>4, FiniteSets, FS_RemoveElement
         DEF ActiveNotOvercounted
    <2>9. CountersAccurate'
      BY <2>2, <2>4, SameCounters
    <2>10. UndercountExplained'
      <3>1. /\ Cardinality(connections') = Cardinality(connections) - 1
            /\ Cardinality(connections) \in Nat
        BY <1>1, <2>1, FiniteSets, FS_RemoveElement
      <3>. QED  BY <2>3, <2>4, <3>1 DEF UndercountExplained
    <2>. QED  BY <2>2, <2>6, <2>7, <2>8, <2>9, <2>10 DEF IInv, GoodHeartbeats
  <1>2. CASE c \notin connections
    BY <1>2 DEF UnregisterConnection, cmVars, IInv, TypeOK, MissedBelowLimit,
                ConnectionsMonitored, ActiveNotOvercounted, CountersAccurate,
                UndercountExplained,
                Tracked, Alive
  <1>. QED  BY <1>1, <1>2

\* A stuttering step.
LEMMA StutterInv ==
  ASSUME IInv, UNCHANGED cmVars
  PROVE  IInv'
  BY DEF cmVars, IInv, TypeOK, MissedBelowLimit, ConnectionsMonitored,
         ActiveNotOvercounted, CountersAccurate, UndercountExplained, Tracked,
         Alive

\* RegisterUserConnection touches the user mapping only.
LEMMA RegisterUserConnectionInv ==
  ASSUME IInv, NEW u \in Users, NEW c \in Clients, RegisterUserConnection(u, c)
  PROVE  IInv'
  <1>1. userConnections' \in [Users -> Clients \cup {NoClient}]
    BY DEF RegisterUserConnection, IInv, TypeOK
  <1>. QED
    BY <1>1 DEF RegisterUserConnection, IInv, TypeOK, MissedBelowLimit,
                ConnectionsMonitored, ActiveNotOvercounted, CountersAccurate,
                UndercountExplained,
                Tracked, Alive

\* DisconnectByUserID: ActiveConnections goes down even if the mapping was
\* stale and no connection leaves the map, so it can only undercount.
LEMMA DisconnectMappedUserInv ==
  ASSUME IInv, NEW u \in Users, DisconnectMappedUser(u)
  PROVE  IInv'
  <1>. DEFINE c == userConnections[u]
  <1>. USE InvFacts
  <1>1. /\ connections' = connections \ {c}
        /\ userConnections' = [userConnections EXCEPT ![u] = NoClient]
        /\ metrics' = [metrics EXCEPT
                         !.active = Less(metrics.active, 1),
                         !.disconnected = metrics.disconnected + 1]
        /\ hb' = hb
    BY DEF DisconnectMappedUser
  <1>2. GoodHeartbeats' /\ Tracked' = Tracked /\ Alive' = Alive
    BY <1>1, HeardHeartbeat
  <1>3. /\ Less(metrics.active, 1) \in Nat
        /\ Less(metrics.active, 1) <= metrics.active
        /\ metrics.active - 1 <= Less(metrics.active, 1)
        /\ \A k \in Nat : metrics.active <= k /\ 1 <= k
                           => Less(metrics.active, 1) <= k - 1
    <2>1. metrics.active \in Nat /\ 1 \in Nat
      OBVIOUS
    <2>. QED  BY <2>1, LessType
  <1>4. metrics.disconnected + 1 \in Nat
    OBVIOUS
  <1>5. /\ metrics'.total = metrics.total
        /\ metrics'.active = Less(metrics.active, 1)
        /\ metrics'.disconnected = metrics.disconnected + 1
        /\ metrics'.hbFailures = metrics.hbFailures
    BY <1>1 DEF IInv, TypeOK
  <1>6. TypeOK'
    BY <1>1, <1>2, <1>3, <1>4 DEF IInv, TypeOK, GoodHeartbeats
  <1>7. ConnectionsMonitored'
    BY <1>1, <1>2 DEF ConnectionsMonitored
  <1>8. ActiveNotOvercounted'
    <2>1. CASE c \in connections
      <3>1. /\ Cardinality(connections') = Cardinality(connections) - 1
            /\ Cardinality(connections) \in Nat
            /\ Cardinality(connections') \in Nat
        BY <1>1, <2>1, FiniteSets, FS_RemoveElement, FS_CardinalityType
      <3>2. 1 <= Cardinality(connections)
        BY <3>1
      <3>. QED  BY <1>3, <1>5, <3>1, <3>2 DEF ActiveNotOvercounted
    <2>2. CASE c \notin connections
      <3>1. connections' = connections
        BY <1>1, <2>2
      <3>. QED  BY <1>3, <1>5, <3>1, FiniteSets DEF ActiveNotOvercounted
    <2>. QED  BY <2>1, <2>2
  <1>9. CountersAccurate'
    BY <1>2, <1>4, <1>5, SameCounters
  <1>10. UndercountExplained'
    <2>1. /\ Cardinality(connections') <= Cardinality(connections)
          /\ Cardinality(connections) \in Nat
          /\ Cardinality(connections') \in Nat
      BY <1>1, FiniteSets, FS_Subset, FS_CardinalityType
    <2>. QED  BY <1>3, <1>5, <2>1 DEF UndercountExplained
  <1>. QED  BY <1>2, <1>6, <1>7, <1>8, <1>9, <1>10 DEF IInv, GoodHeartbeats

\* checkAllConnections: who is cut leaves the map, and who is declared dead is
\* among those cut.
LEMMA CheckAllConnectionsInv ==
  ASSUME IInv, CheckAllConnections
  PROVE  IInv'
  <1>. DEFINE failed == HeartbeatTimeoutClients
              cut == HeartbeatTimeoutClients \cup IdleTimeoutClients
              n == Cardinality(cut)
              f == Cardinality(failed)
  <1>. USE InvFacts
  <1>1. /\ hb' = CheckedHeartbeats
        /\ connections' = connections \ cut
        /\ metrics' = [metrics EXCEPT
                         !.active = Less(metrics.active, n),
                         !.disconnected = metrics.disconnected + n,
                         !.hbFailures = metrics.hbFailures + f]
        /\ userConnections' = userConnections
    BY DEF CheckAllConnections
  <1>2. /\ GoodHeartbeats' /\ Tracked' = Tracked
        /\ Alive' = Alive \ failed
        /\ failed \subseteq Alive \cap connections
    BY <1>1, CheckHeartbeat
  <1>3. failed \subseteq cut /\ cut \subseteq connections
    BY DEF HeartbeatTimeoutClients, IdleTimeoutClients
  <1>4. /\ n \in Nat /\ n <= Cardinality(connections)
        /\ Cardinality(connections') = Cardinality(connections) - n
        /\ Cardinality(connections) \in Nat
        /\ f \in Nat /\ f <= n
    <2>1. IsFiniteSet(connections) /\ Cardinality(connections) \in Nat
      BY FiniteSets
    <2>2. /\ IsFiniteSet(cut) /\ n \in Nat /\ n <= Cardinality(connections)
          /\ Cardinality(connections \ cut) = Cardinality(connections) - n
      BY <1>3, <2>1, RemoveSet
    <2>3. f \in Nat /\ f <= n
      BY <1>3, <2>2, RemoveSet
    <2>. QED  BY <1>1, <2>1, <2>2, <2>3
  <1>. HIDE DEF n, f, cut, failed
  <1>5. /\ Less(metrics.active, n) \in Nat
        /\ Less(metrics.active, n) <= Cardinality(connections) - n
        /\ metrics.active - n <= Less(metrics.active, n)
    <2>1. metrics.active \in Nat
      OBVIOUS
    <2>2. /\ Less(metrics.active, n) \in Nat
          /\ metrics.active - n <= Less(metrics.active, n)
          /\ \A k \in Nat : metrics.active <= k /\ n <= k
                             => Less(metrics.active, n) <= k - n
      BY <1>4, <2>1, LessType
    <2>. QED  BY <1>4, <2>2
  <1>6. /\ metrics'.total = metrics.total
        /\ metrics'.active = Less(metrics.active, n)
        /\ metrics'.disconnected = metrics.disconnected + n
        /\ metrics'.hbFailures = metrics.hbFailures + f
    BY <1>1 DEF IInv, TypeOK
  <1>7. TypeOK'
    <2>1. /\ metrics.disconnected + n \in Nat
          /\ metrics.hbFailures + f \in Nat
      BY <1>4
    <2>2. metrics' \in [total : Nat, active : Nat, disconnected : Nat,
                        hbFailures : Nat]
      BY <1>1, <1>5, <2>1 DEF IInv, TypeOK
    <2>3. connections' \in SUBSET Clients
      BY <1>1
    <2>. QED  BY <1>1, <1>2, <2>2, <2>3 DEF IInv, TypeOK, GoodHeartbeats
  <1>8. ConnectionsMonitored'
    BY <1>1, <1>2, <1>3 DEF ConnectionsMonitored
  <1>9. ActiveNotOvercounted'
    BY <1>4, <1>5, <1>6 DEF ActiveNotOvercounted
  <1>10. CountersAccurate'
    <2>1. Tracked' \ Alive' = (Tracked \ Alive) \cup failed
      BY <1>2 DEF Alive
    <2>2. (Tracked \ Alive) \cap failed = {}
      BY <1>2
    <2>3. IsFiniteSet(Tracked \ Alive) /\ IsFiniteSet(failed)
      BY <1>2, FiniteSets, FS_Subset
    <2>4. Cardinality((Tracked \ Alive) \cup failed) =
            Cardinality(Tracked \ Alive) + f
                - Cardinality((Tracked \ Alive) \cap failed)
      BY <2>3, FS_Union DEF f
    <2>5. Cardinality({}) = 0
      BY FS_EmptySet
    <2>6. Cardinality(Tracked' \ Alive') = Cardinality(Tracked \ Alive) + f - 0
      BY <2>1, <2>2, <2>4, <2>5
    <2>7. /\ metrics.total = Cardinality(Tracked)
          /\ metrics.hbFailures = Cardinality(Tracked \ Alive)
          /\ metrics.hbFailures <= metrics.disconnected
      BY DEF IInv, CountersAccurate
    <2>. QED  BY <1>2, <1>4, <1>6, <2>6, <2>7 DEF CountersAccurate
  <1>11. UndercountExplained'
    BY <1>4, <1>5, <1>6 DEF UndercountExplained
  <1>. QED  BY <1>2, <1>7, <1>8, <1>9, <1>10, <1>11 DEF IInv, GoodHeartbeats

\* RecordPing, RecordPong, RecordActivity and the passing of time.
LEMMA HeardInv ==
  ASSUME IInv,
         \/ \E c \in Tracked : RecordPing(c) \/ RecordPong(c) \/ RecordActivity(c)
         \/ Elapse
  PROVE  IInv'
  <1>1. UNCHANGED <<connections, userConnections, metrics>>
    BY DEF RecordPing, RecordPong, RecordActivity, Elapse, Heard
  <1>2. GoodHeartbeats' /\ Tracked' = Tracked /\ Alive' = Alive
    <2>1. \/ \E c \in Tracked : \/ hb' = RecordedPing(c)
                                \/ hb' = RecordedPong(c)
                                \/ hb' = RecordedActivity(c)
          \/ hb' = Aged
      BY DEF RecordPing, RecordPong, RecordActivity, Elapse, Heard
    <2>. QED  BY <2>1, HeardHeartbeat, InvFacts
  <1>. QED  BY <1>1, <1>2 DEF IInv, TypeOK, GoodHeartbeats, ConnectionsMonitored,
                              ActiveNotOvercounted, CountersAccurate,
                              UndercountExplained

-----------------------------------------------------------------------------
(***************************************************************************)
(* The invariant.                                                          *)
(***************************************************************************)
\* It holds when the gateway starts.
LEMMA InitInv == Init => IInv
  <1>. SUFFICES ASSUME Init PROVE IInv
    OBVIOUS
  <1>1. Tracked = {} /\ Alive = {}
    BY DEF Init, HeartbeatInit, Tracked, Alive
  <1>2. Cardinality({}) = 0
    BY FS_EmptySet
  <1>. QED  BY <1>1, <1>2 DEF Init, HeartbeatInit, IInv, TypeOK, MissedBelowLimit,
                              ConnectionsMonitored, ActiveNotOvercounted,
                              CountersAccurate, UndercountExplained

\* Every step preserves it.
LEMMA StepInv == IInv /\ [Next]_cmVars => IInv'
  <1>. SUFFICES ASSUME IInv, [Next]_cmVars PROVE IInv'
    OBVIOUS
  <1>1. ASSUME NEW c \in Clients, ClientStep(c) PROVE IInv'
    <2>1. CASE Fresh(c) /\ RegisterConnection(c)
      BY <2>1, RegisterConnectionInv
    <2>2. CASE UnregisterConnection(c)
      BY <2>2, UnregisterConnectionInv
    <2>3. CASE c \in Tracked /\ (RecordPing(c) \/ RecordPong(c) \/ RecordActivity(c))
      BY <2>3, HeardInv
    <2>4. CASE \E u \in Users : RegisterUserConnection(u, c)
      BY <2>4, RegisterUserConnectionInv
    <2>. QED  BY <1>1, <2>1, <2>2, <2>3, <2>4 DEF ClientStep
  <1>2. ASSUME NEW u \in Users, DisconnectByUserID(u) PROVE IInv'
    <2>1. CASE DisconnectUnknownUser(u)
      BY <2>1, StutterInv DEF DisconnectUnknownUser
    <2>2. CASE DisconnectMappedUser(u)
      BY <2>2, DisconnectMappedUserInv
    <2>. QED  BY <1>2, <2>1, <2>2 DEF DisconnectByUserID
  <1>3. CASE CheckAllConnections
    BY <1>3, CheckAllConnectionsInv
  <1>4. CASE Elapse
    BY <1>4, HeardInv
  <1>5. CASE UNCHANGED cmVars
    BY <1>5, StutterInv
  <1>. QED  BY <1>1, <1>2, <1>3, <1>4, <1>5 DEF Next

\* The inductive invariant holds in every reachable state.
THEOREM Invariant == Spec => []IInv
  BY InitInv, StepInv, PTL DEF Spec

\* Every map and counter of the manager keeps its type; in particular the
\* clamps keep ActiveConnections from going negative.
THEOREM TypeCorrect == Spec => []TypeOK
  <1>1. IInv => TypeOK
    BY DEF IInv
  <1>. QED  BY <1>1, Invariant, PTL

\* ActiveConnections never exceeds the number of connections.
THEOREM ActiveNeverOvercounts == Spec => []ActiveNotOvercounted
  <1>1. IInv => ActiveNotOvercounted
    BY DEF IInv
  <1>. QED  BY <1>1, Invariant, PTL

\* The counters agree with the connection map and the heartbeat map.
THEOREM CountersAgree == Spec => []CountersAccurate
  <1>1. IInv => CountersAccurate
    BY DEF IInv
  <1>. QED  BY <1>1, Invariant, PTL

\* Every registered connection can still be timed out.
THEOREM AllMonitored == Spec => []ConnectionsMonitored
  <1>1. IInv => ConnectionsMonitored
    BY DEF IInv
  <1>. QED  BY <1>1, Invariant, PTL

\* Whatever the gauge misses, kicks and idle cuts account for; no cleanup
\* counts a connection off a second time.
THEOREM UndercountsExplained == Spec => []UndercountExplained
  <1>1. IInv => UndercountExplained
    BY DEF IInv
  <1>. QED  BY <1>1, Invariant, PTL

=============================================================================
