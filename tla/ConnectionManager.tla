-------------------------- MODULE ConnectionManager --------------------------
(***************************************************************************)
(* ConnectionManager of gateway/internal/ws/connection_manager.go, at the  *)
(* grain of its mutex: each exported method is one atomic step, which is   *)
(* what its callers (one goroutine per connection, the ticker of Start and *)
(* the session subscriber) may rely on.  Module Gateway opens up the two   *)
(* methods that are not one critical section and shows that it still       *)
(* implements this one.                                                    *)
(***************************************************************************)
EXTENDS Heartbeat, FiniteSets

CONSTANTS
    Users,      \* user identifiers
    NoClient    \* "no entry" in userConnections

VARIABLES
    connections,      \* the clientIDs that have an entry in connections
    userConnections,  \* userID -> clientID
    metrics           \* ConnectionMetrics

cmVars == <<hb, connections, userConnections, metrics>>

ASSUME ConnectionManagerAssumption ==
    /\ IsFiniteSet(Clients)
    /\ NoClient \notin Clients

TypeOK ==
    /\ HeartbeatTypeOK
    /\ connections \in SUBSET Clients
    /\ userConnections \in [Users -> Clients \cup {NoClient}]
    /\ metrics \in [total : Nat, active : Nat, disconnected : Nat,
                    hbFailures : Nat]

Init ==
    /\ HeartbeatInit
    /\ connections = {}
    /\ userConnections = [u \in Users |-> NoClient]
    /\ metrics = [total |-> 0, active |-> 0, disconnected |-> 0,
                  hbFailures |-> 0]

-----------------------------------------------------------------------------
\* Faulty variant: the clamp is missing.
LessUnclamped(active, n) == active - n

\* ActiveConnections less n, never below zero.
Less(active, n) == IF active >= n THEN active - n ELSE 0

\* ServeWS draws clientIDs from a counter, and heartbeat entries are never
\* deleted: an identifier that was registered once has an entry for ever.
Fresh(c) == c \notin Tracked

RegisterConnection(c) ==
    /\ c \notin connections
    /\ connections' = connections \cup {c}
    /\ metrics' = [metrics EXCEPT !.total = @ + 1, !.active = @ + 1]
    /\ hb' = RecordedPing(c)
    /\ UNCHANGED userConnections

\* The users mapped to c: the loop deletes the first one it meets.
UsersOf(c) == {u \in Users : userConnections[u] = c}

ForgetOneUserOf(c) ==
    IF UsersOf(c) = {}
    THEN UNCHANGED userConnections
    ELSE \E u \in UsersOf(c) :
            userConnections' = [userConnections EXCEPT ![u] = NoClient]

\* Faulty variant: ActiveConnections is left as it is.
UnregisterUncounted(c) ==
    IF c \in connections
    THEN /\ connections' = connections \ {c}
         /\ ForgetOneUserOf(c)
         /\ UNCHANGED <<hb, metrics>>
    ELSE UNCHANGED cmVars

\* Faulty variant: who is gone already is counted off once more.
UnregisterAgain(c) ==
    /\ connections' = connections \ {c}
    /\ metrics' = [metrics EXCEPT !.active = Less(@, 1)]
    /\ ForgetOneUserOf(c)
    /\ UNCHANGED hb

UnregisterConnection(c) ==
    IF c \in connections
    THEN /\ connections' = connections \ {c}
         /\ metrics' = [metrics EXCEPT !.active = Less(@, 1)]
         /\ ForgetOneUserOf(c)
         /\ UNCHANGED hb
    ELSE UNCHANGED cmVars

RegisterUserConnection(u, c) ==
    /\ userConnections' = [userConnections EXCEPT ![u] = c]
    /\ UNCHANGED <<hb, connections, metrics>>

\* The three ways through DisconnectByUserID, up to its unlock.
DisconnectUnknownUser(u) ==
    /\ userConnections[u] = NoClient
    /\ UNCHANGED cmVars

\* ... both "only the mapping is left" and "the client is connected": the same
\* bookkeeping, whether or not the client still has an entry in connections.
DisconnectMappedUser(u) ==
    /\ userConnections[u] # NoClient
    /\ connections' = connections \ {userConnections[u]}
    /\ userConnections' = [userConnections EXCEPT ![u] = NoClient]
    /\ metrics' = [metrics EXCEPT !.active = Less(@, 1), !.disconnected = @ + 1]
    /\ UNCHANGED hb

DisconnectByUserID(u) == DisconnectUnknownUser(u) \/ DisconnectMappedUser(u)

\* checkAllConnections collects those two sets ...
HeartbeatTimeoutClients == {c \in connections \cap Tracked : TimesOut(hb[c])}

IdleTimeoutClients ==
    {c \in connections \cap Tracked :
        ~TimesOut(hb[c]) /\ IdlesOut(CheckedState(hb[c]))}

CheckedHeartbeats ==
    [c \in Clients |->
        IF c \in connections \cap Tracked THEN CheckedState(hb[c]) ELSE hb[c]]

\* Faulty variant: idle clients count as heartbeat failures too.
CheckCountingIdle ==
    LET cut == HeartbeatTimeoutClients \cup IdleTimeoutClients
    IN  /\ hb' = CheckedHeartbeats
        /\ connections' = connections \ cut
        /\ metrics' = [metrics EXCEPT
                         !.active = Less(@, Cardinality(cut)),
                         !.disconnected = @ + Cardinality(cut),
                         !.hbFailures = @ + Cardinality(cut)]
        /\ UNCHANGED userConnections

\* ... and drops the clients of both; their users stay in userConnections.
CheckAllConnections ==
    LET cut == HeartbeatTimeoutClients \cup IdleTimeoutClients
    IN  /\ hb' = CheckedHeartbeats
        /\ connections' = connections \ cut
        /\ metrics' = [metrics EXCEPT
                         !.active = Less(@, Cardinality(cut)),
                         !.disconnected = @ + Cardinality(cut),
                         !.hbFailures = @ + Cardinality(HeartbeatTimeoutClients)]
        /\ UNCHANGED userConnections

Heard(newHb) ==
    /\ hb' = newHb
    /\ UNCHANGED <<connections, userConnections, metrics>>

RecordPing(c) == Heard(RecordedPing(c))

RecordPong(c) == Heard(RecordedPong(c))

RecordActivity(c) == Heard(RecordedActivity(c))

Elapse == Heard(Aged)

-----------------------------------------------------------------------------
\* A handler reports activity, logs its user in or unregisters only after it
\* registered; it may do so after the client was dropped behind its back.
ClientStep(c) ==
    \/ Fresh(c) /\ RegisterConnection(c)
    \/ /\ c \in Tracked
       /\ \/ UnregisterConnection(c)
          \/ RecordPing(c)
          \/ RecordPong(c)
          \/ RecordActivity(c)
          \/ \E u \in Users : RegisterUserConnection(u, c)

Next ==
    \/ \E c \in Clients : ClientStep(c)
    \/ \E u \in Users : DisconnectByUserID(u)
    \/ CheckAllConnections
    \/ Elapse

Spec == Init /\ [][Next]_cmVars

-----------------------------------------------------------------------------
\* The gauge ActiveConnections never claims more connections than the map
\* holds, through every double disconnect, kick of a stale mapping and clamp
\* at zero (connection_manager.go:84-88, 188-193, 267-271, 279-283).
ActiveNotOvercounted == metrics.active <= Cardinality(connections)

\* The counters tell the same story as the two maps: TotalConnections counts
\* every client ever registered, HeartbeatFailures every client declared dead,
\* and a declared death is also counted as a disconnection.
CountersAccurate ==
    /\ metrics.total = Cardinality(Tracked)
    /\ metrics.hbFailures = Cardinality(Tracked \ Alive)
    /\ metrics.hbFailures <= metrics.disconnected

\* Every registered connection is one the heartbeat check will still time out:
\* CheckTimeout answers false for ever about a client that has no entry or is
\* no longer alive (heartbeat.go:107-110), and a refreshed entry is not revived
\* (heartbeat.go:49-52), so such a connection would never be cut.
ConnectionsMonitored == connections \subseteq Alive

\* The gauge may count too few connections, for a kick through a mapping that
\* outlived its connection counts off one that was counted off before
\* (connection_manager.go:187, :267).  Nothing else does: every connection the
\* gauge misses is accounted for by a disconnection that was not a heartbeat
\* failure, and the deferred UnregisterConnection of a handler whose client was
\* cut or kicked behind its back counts nothing off again.
UndercountExplained ==
    Cardinality(connections) - metrics.active
        <= metrics.disconnected - metrics.hbFailures

=============================================================================
