----------------------------- MODULE UserService -----------------------------
(***************************************************************************)
(* The user service (services/user/cmd/user/server.go): Login and Register *)
(* as concurrent requests over MySQL (the accounts), Redis (the two        *)
(* session keys, changed by one Lua script) and the Redis channel          *)
(* kd48:session:invalidate.                                                *)
(*                                                                         *)
(* A token is 32 random bytes, so no two requests draw the same one: a     *)
(* token is named by the request that drew it.  A user's id, name and      *)
(* password are one value.  Both keys of a session get the same TTL in one *)
(* script and expire together.                                             *)
(***************************************************************************)
EXTENDS Naturals, FiniteSets

CONSTANTS
    Users,
    Requests,      \* the calls the service handles, each of them once
    Gateways,      \* subscribers of the invalidation channel
    NoUser, NoToken,
    MaxFaults,     \* bound on failures: lost answers, lost calls, crashes
    MaxExpiries    \* bound on sessions that expire

ASSUME UserServiceAssumption ==
    /\ NoUser \notin Users
    /\ NoToken \notin Requests
    /\ MaxFaults \in Nat
    /\ MaxExpiries \in Nat

VARIABLES
    accounts,      \* the users table
    userSession,   \* user:{userID}:session : user -> token
    tokenOwner,    \* user:session:{token} : token -> user
    req,           \* the goroutine of each call
    channel,       \* published messages each subscriber has yet to see
    faults,        \* failures that may still happen
    expiries       \* expirations that may still happen

serviceVars == <<accounts, userSession, tokenOwner, req, channel, faults, expiries>>

Kinds == {"login", "register"}

\* lookup: before GetUserByUsername and the password check of Login
\* create, fetch: before CreateUser and GetUserByUsername of Register
\* issue: before the script; issued: it ran, its answer is under way
\* publish: before PUBLISH; ok, refused: the call has returned
Places == {"new", "lookup", "create", "fetch", "issue", "issued", "publish",
           "ok", "refused"}

InFlight(r) == req[r].at \notin {"new", "ok", "refused"}

Call == [kind : Kinds, user : Users \cup {NoUser}, at : Places, hadOld : BOOLEAN]

TypeOK ==
    /\ accounts \in SUBSET Users
    /\ userSession \in [Users -> Requests \cup {NoToken}]
    /\ tokenOwner \in [Requests -> Users \cup {NoUser}]
    /\ req \in [Requests -> Call]
    /\ channel \in [Gateways -> [Users -> Nat]]
    /\ faults \in Nat
    /\ expiries \in Nat

Init ==
    /\ accounts = {}
    /\ userSession = [u \in Users |-> NoToken]
    /\ tokenOwner = [t \in Requests |-> NoUser]
    /\ req = [r \in Requests |-> [kind |-> "login", user |-> NoUser,
                                  at |-> "new", hadOld |-> FALSE]]
    /\ channel = [g \in Gateways |-> [u \in Users |-> 0]]
    /\ faults = MaxFaults
    /\ expiries = MaxExpiries

Go(r, place) == req' = [req EXCEPT ![r].at = place]

Fault == faults > 0 /\ faults' = faults - 1

Store == <<accounts, userSession, tokenOwner>>

-----------------------------------------------------------------------------
Receive(r, k, u) ==
    /\ req[r].at = "new"
    /\ req' = [req EXCEPT ![r] =
                 [kind |-> k, user |-> u, hadOld |-> FALSE,
                  at |-> IF k = "login" THEN "lookup" ELSE "create"]]
    /\ UNCHANGED <<Store, channel, faults, expiries>>

\* No such user, a wrong password, an empty name, a database that fails before
\* it did anything: the call is refused and nothing was changed.
Refuse(r) ==
    /\ req[r].at \in {"lookup", "create", "fetch"}
    /\ Go(r, "refused")
    /\ UNCHANGED <<Store, channel, faults, expiries>>

\* Faulty variant: a user that is not found is let through.
LookupAnyone(r) ==
    /\ req[r].at = "lookup"
    /\ Go(r, "issue")
    /\ UNCHANGED <<Store, channel, faults, expiries>>

Lookup(r) ==
    /\ req[r].at = "lookup"
    /\ req[r].user \in accounts
    /\ Go(r, "issue")
    /\ UNCHANGED <<Store, channel, faults, expiries>>

\* CreateUser: the unique key on the name decides (error 1062).
CreateUser(r) ==
    /\ req[r].at = "create"
    /\ accounts' = accounts \cup {req[r].user}
    /\ Go(r, IF req[r].user \in accounts THEN "refused" ELSE "fetch")
    /\ UNCHANGED <<userSession, tokenOwner, channel, faults, expiries>>

\* The row is inserted but the answer is lost: the client is told "internal".
CreateUserUnanswered(r) ==
    /\ Fault
    /\ req[r].at = "create"
    /\ accounts' = accounts \cup {req[r].user}
    /\ Go(r, "refused")
    /\ UNCHANGED <<userSession, tokenOwner, channel, expiries>>

FetchUser(r) ==
    /\ req[r].at = "fetch"
    /\ Go(r, "issue")
    /\ UNCHANGED <<Store, channel, faults, expiries>>

-----------------------------------------------------------------------------
\* Faulty variant: the script forgets to delete the session it replaces.
ScriptKeepingOld(r) ==
    LET u == req[r].user
    IN  /\ userSession' = [userSession EXCEPT ![u] = r]
        /\ tokenOwner' = [tokenOwner EXCEPT ![r] = u]
        /\ req' = [req EXCEPT ![r].at = "issued",
                              ![r].hadOld = userSession[u] # NoToken]

\* Faulty variant: issueSession, which writes the token's key alone.
ScriptTokenOnly(r) ==
    /\ tokenOwner' = [tokenOwner EXCEPT ![r] = req[r].user]
    /\ req' = [req EXCEPT ![r].at = "issued"]
    /\ UNCHANGED userSession

\* loginSessionLua: delete the old token's key unless the old token is the new
\* one (a script that is run again), then write both keys; return the old token.
Script(r) ==
    LET u == req[r].user
        old == userSession[u]
    IN  /\ userSession' = [userSession EXCEPT ![u] = r]
        /\ tokenOwner' = [t \in Requests |->
                            IF t = r THEN u
                            ELSE IF t = old THEN NoUser ELSE tokenOwner[t]]
        /\ req' = [req EXCEPT ![r].at = "issued", ![r].hadOld = old # NoToken]

\* issueSessionAtomic: the script runs ...
IssueSession(r) ==
    /\ req[r].at = "issue"
    /\ Script(r)
    /\ UNCHANGED <<accounts, channel, faults, expiries>>

\* Faulty variant: only registrations notify.
SessionIssuedOfRegister(r) ==
    /\ req[r].at = "issued"
    /\ Go(r, IF req[r].kind = "register" /\ req[r].hadOld THEN "publish" ELSE "ok")
    /\ UNCHANGED <<Store, channel, faults, expiries>>

\* ... and its answer arrives.  Only Login looks at the old token.
SessionIssued(r) ==
    /\ req[r].at = "issued"
    /\ Go(r, IF req[r].kind = "login" /\ req[r].hadOld THEN "publish" ELSE "ok")
    /\ UNCHANGED <<Store, channel, faults, expiries>>

\* The script ran but its answer is lost: the Redis client runs it once more,
\* with the same token.
IssueAgain(r) ==
    /\ Fault
    /\ req[r].at = "issued"
    /\ Go(r, "issue")
    /\ UNCHANGED <<Store, channel, expiries>>

\* publishSessionInvalidate: every subscriber will see a message.
Published(u) ==
    channel' = [g \in Gateways |-> [channel[g] EXCEPT ![u] = @ + 1]]

Publish(r) ==
    /\ req[r].at = "publish"
    /\ Published(req[r].user)
    /\ Go(r, "ok")
    /\ UNCHANGED <<Store, faults, expiries>>

\* The message is out but the answer is lost: it is sent once more.
PublishAgain(r) ==
    /\ Fault
    /\ req[r].at = "publish"
    /\ Published(req[r].user)
    /\ UNCHANGED <<Store, req, expiries>>

\* The message is not sent; the error is logged and the login goes on.
PublishFails(r) ==
    /\ Fault
    /\ req[r].at = "publish"
    /\ Go(r, "ok")
    /\ UNCHANGED <<Store, channel, expiries>>

\* A call ends early: the script was not reached, or its answer never came, or
\* the process died.  The gateway is answered with an error.
Fail(r) ==
    /\ Fault
    /\ InFlight(r)
    /\ Go(r, "refused")
    /\ UNCHANGED <<Store, channel, expiries>>

\* Redis drops both keys of a session when their TTL is over.
Expire(u) ==
    /\ expiries > 0
    /\ expiries' = expiries - 1
    /\ userSession[u] # NoToken
    /\ tokenOwner' = [tokenOwner EXCEPT ![userSession[u]] = NoUser]
    /\ userSession' = [userSession EXCEPT ![u] = NoToken]
    /\ UNCHANGED <<accounts, req, channel, faults>>

-----------------------------------------------------------------------------
Step(r) ==
    \/ Refuse(r)
    \/ Lookup(r)
    \/ CreateUser(r)
    \/ CreateUserUnanswered(r)
    \/ FetchUser(r)
    \/ IssueSession(r)
    \/ SessionIssued(r)
    \/ IssueAgain(r)
    \/ Publish(r)
    \/ PublishAgain(r)
    \/ PublishFails(r)
    \/ Fail(r)

Next ==
    \/ \E r \in Requests :
          \/ \E k \in Kinds, u \in Users : Receive(r, k, u)
          \/ Step(r)
    \/ \E u \in Users : Expire(u)

Spec == Init /\ [][Next]_serviceVars

-----------------------------------------------------------------------------
\* The two keys of a session mirror each other: the token an account's key
\* names is valid and belongs to it, and every valid token is the one its
\* account's key names.  So no account has two valid tokens, however logins,
\* registrations, repeated scripts and expirations interleave.
KeysMirror ==
    \A u \in Users, t \in Requests : userSession[u] = t <=> tokenOwner[t] = u

\* Sessions belong to accounts that exist, also if the row was inserted by a
\* registration that failed afterwards.
SessionsHaveAccounts == \A t \in Requests : tokenOwner[t] \in accounts \cup {NoUser}

\* Of all the calls that got a session for an account, one at most was told
\* there was none before, and one more for each session that expired.  Two
\* concurrent logins therefore never both skip the notification (the design's
\* "concurrent login" problem).
First(u) ==
    {r \in Requests : /\ req[r].user = u
                      /\ req[r].at \in {"issued", "publish", "ok"}
                      /\ ~req[r].hadOld}

OneFirst ==
    \A u \in Users : Cardinality(First(u)) <= 1 + (MaxExpiries - expiries)

\* A login that replaced a session has told every subscriber by the time it
\* returns, unless one of the failures so far was a message that was not sent.
Replacements(u) ==
    {r \in Requests : /\ req[r].user = u /\ req[r].kind = "login"
                      /\ req[r].at = "ok" /\ req[r].hadOld}

ReplacementAnnounced ==
    \A u \in Users, g \in Gateways :
        Cardinality(Replacements(u)) <= channel[g][u] + (MaxFaults - faults)

\* The calls implement the promise of one session per account.
Sessions ==
    INSTANCE SingleSession WITH
        valid <- {s \in Users \X Requests : tokenOwner[s[2]] = s[1]}

ImplementsSingleSession == Sessions!Spec

=============================================================================
