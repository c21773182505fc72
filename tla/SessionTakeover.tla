--------------------------- MODULE SessionTakeover ---------------------------
(***************************************************************************)
(* Session takeover across the system: the user service (UserService), the *)
(* Redis channel, and the gateways that kick the connection a new login    *)
(* replaces.  A gateway is reduced to what takeover needs of it: which     *)
(* connections are logged in and which connection each user is mapped to;  *)
(* Gateway and ConnectionManager have the rest.                            *)
(*                                                                         *)
(* A connection makes one call to a session route and is named by it.      *)
(***************************************************************************)
EXTENDS UserService

CONSTANTS
    NoConn,
    Home,         \* connection -> the gateway it is connected to
    ReplyField    \* the JSON name under which a reply carries the user's id;
                  \* the code's is "userId"

VARIABLES
    conn,         \* connection -> is it waiting, online or closed
    userConn,     \* gateway -> userConnections
    told          \* history: the connections whose gateway has handled an
                  \* invalidation for their user since they were replaced

gatewayVars == <<conn, userConn, told>>
takeoverVars == <<serviceVars, gatewayVars>>

ASSUME TakeoverAssumption ==
    /\ Home \in [Requests -> Gateways]
    /\ ReplyField \in {"userId", "user_id"}
    /\ NoConn \notin Requests

TakeoverTypeOK ==
    /\ TypeOK
    /\ conn \in [Requests -> {"waiting", "online", "closed"}]
    /\ userConn \in [Gateways -> [Users -> Requests \cup {NoConn}]]
    /\ told \in SUBSET Requests

TakeoverInit ==
    /\ Init
    /\ conn = [r \in Requests |-> "waiting"]
    /\ userConn = [g \in Gateways |-> [u \in Users |-> NoConn]]
    /\ told = {}

-----------------------------------------------------------------------------
\* The reply of a session route, as the ingress encodes it, and what the
\* gateway finds in it: it knows the name "user_id" only.
EncodedReply(u) == [field |-> ReplyField, user |-> u]

ExtractUserID(reply) == IF reply.field = "user_id" THEN reply.user ELSE NoUser

CallService(r, k, u) ==
    /\ conn[r] = "waiting"
    /\ Receive(r, k, u)
    /\ UNCHANGED gatewayVars

ServiceStep ==
    /\ \/ \E r \in Requests : Step(r)
       \/ \E u \in Users : Expire(u)
    /\ UNCHANGED gatewayVars

\* ServeWS, after a successful reply to a session route.
LoggedIn(r) ==
    /\ conn[r] = "waiting"
    /\ req[r].at = "ok"
    /\ conn' = [conn EXCEPT ![r] = "online"]
    /\ LET u == ExtractUserID(EncodedReply(req[r].user))
       IN  userConn' = IF u = NoUser THEN userConn
                       ELSE [userConn EXCEPT ![Home[r]][u] = r]
    /\ UNCHANGED <<serviceVars, told>>

\* ServeWS, after an error from a session route.
Refused(r) ==
    /\ conn[r] = "waiting"
    /\ req[r].at = "refused"
    /\ conn' = [conn EXCEPT ![r] = "closed"]
    /\ UNCHANGED <<serviceVars, userConn, told>>

\* The client goes away; the handler unregisters the connection.
Leave(r) ==
    /\ conn[r] = "online"
    /\ conn' = [conn EXCEPT ![r] = "closed"]
    /\ userConn' = [userConn EXCEPT ![Home[r]] =
                      [u \in Users |-> IF @[u] = r THEN NoConn ELSE @[u]]]
    /\ UNCHANGED <<serviceVars, told>>

\* The session of r was issued, and its token is not valid any more.
Replaced(r) == req[r].at \in {"issued", "publish", "ok"} /\ tokenOwner[r] = NoUser

\* Faulty variant: a message is gone for all once one gateway has taken it.
TakenForAll(g, u) == channel' = [h \in Gateways |-> [channel[h] EXCEPT ![u] = 0]]

Taken(g, u) == channel' = [channel EXCEPT ![g][u] = @ - 1]

\* handleMessage: DisconnectByUserID of whoever the user is mapped to here.
HandleInvalidation(g, u) ==
    /\ channel[g][u] > 0
    /\ Taken(g, u)
    /\ userConn' = [userConn EXCEPT ![g][u] = NoConn]
    /\ conn' = IF userConn[g][u] = NoConn THEN conn
               ELSE [conn EXCEPT ![userConn[g][u]] = "closed"]
    /\ told' = told \cup {r \in Requests :
                            Home[r] = g /\ req[r].user = u /\ Replaced(r)}
    /\ UNCHANGED <<Store, req, faults, expiries>>

\* Redis Pub/Sub keeps nothing for a subscriber that is not there.
LoseInvalidation(g, u) ==
    /\ Fault
    /\ channel[g][u] > 0
    /\ Taken(g, u)
    /\ UNCHANGED <<Store, req, expiries, gatewayVars>>

-----------------------------------------------------------------------------
TakeoverNext ==
    \/ \E r \in Requests :
          \/ \E k \in Kinds, u \in Users : CallService(r, k, u)
          \/ LoggedIn(r)
          \/ Refused(r)
          \/ Leave(r)
    \/ ServiceStep
    \/ \E g \in Gateways, u \in Users :
          HandleInvalidation(g, u) \/ LoseInvalidation(g, u)

TakeoverSpec == TakeoverInit /\ [][TakeoverNext]_takeoverVars

-----------------------------------------------------------------------------
\* The call of r is answered and the gateway has done with the answer.
Settled(r) == req[r].at \in {"ok", "refused"} /\ conn[r] # "waiting"

\* Nothing that concerns u is under way.
Quiet(u) ==
    /\ \A g \in Gateways : channel[g][u] = 0
    /\ \A r \in Requests : req[r].user = u => Settled(r)

NoFault == faults = MaxFaults /\ expiries = MaxExpiries

\* The present session of u is that of a registration which replaced another:
\* a login came between its insertion of the account and its script.
HeldByRegistration(u) ==
    \E q \in Requests :
        userSession[u] = q /\ req[q].kind = "register" /\ req[q].hadOld

\* Once nothing of an account is under way, the gateway of every connection that
\* is online with a replaced session was told of that after it had happened, on
\* whichever gateways the two are and in whatever order calls were answered and
\* messages handled (server.go:163-171, session_subscriber.go:42-70).  Excepted
\* is who was replaced by a registration, which tells nobody (server.go:215).
\* Whether the gateway then finds the connection is another matter: see
\* OnlineKickable and OneTerminal.
ReplacedAreTold ==
    NoFault =>
        \A u \in Users :
            Quiet(u) /\ ~HeldByRegistration(u) =>
                \A r \in Requests :
                    conn[r] = "online" /\ req[r].user = u /\ Replaced(r)
                        => r \in told

\* The same without the exception, which the code does not keep.
RegistrationsTellToo ==
    NoFault =>
        \A r \in Requests :
            conn[r] = "online" /\ Quiet(req[r].user) /\ Replaced(r) => r \in told

\* Every connection that is logged in can be kicked: its user is mapped to it.
\* After a lost message two connections of a user may be online, and one mapped.
OnlineKickable ==
    NoFault =>
        \A r \in Requests :
            conn[r] = "online" => userConn[Home[r]][req[r].user] = r

Online(u) == {r \in Requests : conn[r] = "online" /\ req[r].user = u}

\* "同一账号同时只能一个设备在线": once nothing is under way, an account is
\* online on one connection at most, on whichever gateways they are.  A message
\* that is lost, or a session that expires before its connection does, leaves
\* a connection that no later login kicks.
OneTerminal ==
    NoFault => \A u \in Users : Quiet(u) => Cardinality(Online(u)) <= 1

\* A kick hits a connection whose session was replaced, never the one whose
\* token is the valid one.
KickSparesValid ==
    [][\A g \in Gateways, u \in Users :
          channel'[g][u] < channel[g][u] /\ userConn[g][u] # NoConn
             => tokenOwner[userConn[g][u]] = NoUser]_takeoverVars

=============================================================================
