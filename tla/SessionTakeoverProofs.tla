------------------------ MODULE SessionTakeoverProofs ------------------------
(***************************************************************************)
(* Theorems of modules UserService and SessionTakeover, for any accounts,  *)
(* gateways, calls, failures and expirations: first what the service       *)
(* promises, then what becomes of a session across the gateways.           *)
(***************************************************************************)
EXTENDS SessionTakeover, FiniteSetTheorems, TLAPS

\* A call that has passed its checks works for an account that exists.
CallsHaveAccounts ==
    \A r \in Requests :
        /\ req[r].at # "new" => req[r].user \in Users
        /\ req[r].at \in {"fetch", "issue", "issued", "publish"}
             => req[r].user \in accounts
        /\ req[r].at = "lookup" => req[r].kind = "login"

\* A valid token belongs to the account of the call that drew it.
TokensOfCaller ==
    \A r \in Requests :
        tokenOwner[r] # NoUser => req[r].at # "new" /\ tokenOwner[r] = req[r].user

\* The inductive invariant of the service.
UserInv ==
    /\ TypeOK
    /\ KeysMirror
    /\ CallsHaveAccounts
    /\ TokensOfCaller
    /\ SessionsHaveAccounts

USE DEF Store

-----------------------------------------------------------------------------
\* It holds when the service starts.
LEMMA InitInv == Init => UserInv
  <1>. SUFFICES ASSUME Init PROVE UserInv
    OBVIOUS
  <1>1. TypeOK
    BY UserServiceAssumption DEF Init, TypeOK, Call, Kinds, Places
  <1>2. KeysMirror /\ SessionsHaveAccounts
    BY UserServiceAssumption DEF Init, KeysMirror, SessionsHaveAccounts
  <1>3. CallsHaveAccounts /\ TokensOfCaller
    BY DEF Init, CallsHaveAccounts, TokensOfCaller
  <1>. QED  BY <1>1, <1>2, <1>3 DEF UserInv

\* A call that only moves to another place.
LEMMA GoType ==
  ASSUME TypeOK, NEW r \in Requests, NEW place \in Places, Go(r, place)
  PROVE  /\ req' \in [Requests -> Call]
         /\ req'[r].at = place /\ req'[r].user = req[r].user /\ req'[r].kind = req[r].kind
         /\ \A q \in Requests \ {r} : req'[q] = req[q]
  BY DEF TypeOK, Go, Call

\* A failure uses up one of those that may happen.
LEMMA FaultType == TypeOK /\ Fault => faults' \in Nat
  BY DEF TypeOK, Fault

\* A step that moves one call on, and touches neither accounts nor sessions.
LEMMA MoveOn ==
  ASSUME UserInv, NEW r \in Requests, NEW place \in Places, Go(r, place),
         UNCHANGED Store,
         channel' \in [Gateways -> [Users -> Nat]],
         faults' \in Nat, expiries' \in Nat,
         req[r].at # "new", place \notin {"new", "lookup"},
         place \in {"fetch", "issue", "issued", "publish"} => req[r].user \in accounts
  PROVE  UserInv'
  <1>1. /\ req' \in [Requests -> Call]
        /\ req'[r].at = place /\ req'[r].user = req[r].user /\ req'[r].kind = req[r].kind
        /\ \A q \in Requests \ {r} : req'[q] = req[q]
    BY GoType DEF UserInv
  <1>2. TypeOK'
    BY <1>1 DEF UserInv, TypeOK, Call
  <1>3. KeysMirror' /\ SessionsHaveAccounts'
    BY DEF UserInv, KeysMirror, SessionsHaveAccounts
  <1>4. CallsHaveAccounts' /\ TokensOfCaller'
    BY <1>1 DEF UserInv, CallsHaveAccounts, TokensOfCaller, Places
  <1>. QED  BY <1>2, <1>3, <1>4 DEF UserInv

\* CreateUser, answered or not: an account appears.
LEMMA AccountAppears ==
  ASSUME UserInv, NEW r \in Requests, req[r].at = "create",
         NEW place \in {"fetch", "refused"}, Go(r, place),
         accounts' = accounts \cup {req[r].user},
         UNCHANGED <<userSession, tokenOwner, channel, expiries>>,
         faults' \in Nat
  PROVE  UserInv'
  <1>0. place \in Places
    BY DEF Places
  <1>1. /\ req' \in [Requests -> Call]
        /\ req'[r].at = place /\ req'[r].user = req[r].user /\ req'[r].kind = req[r].kind
        /\ \A q \in Requests \ {r} : req'[q] = req[q]
    BY <1>0, GoType DEF UserInv
  <1>2. req[r].user \in Users
    BY DEF UserInv, CallsHaveAccounts
  <1>3. TypeOK'
    BY <1>1, <1>2 DEF UserInv, TypeOK, Call
  <1>4. KeysMirror' /\ SessionsHaveAccounts'
    BY DEF UserInv, KeysMirror, SessionsHaveAccounts
  <1>5. CallsHaveAccounts' /\ TokensOfCaller'
    BY <1>1, <1>2 DEF UserInv, CallsHaveAccounts, TokensOfCaller
  <1>. QED  BY <1>3, <1>4, <1>5 DEF UserInv

\* The script: whatever session there was, both keys name the new one after it.
LEMMA IssueSessionInv ==
  ASSUME UserInv, NEW r \in Requests, IssueSession(r)
  PROVE  UserInv'
  <1>. DEFINE u == req[r].user
              old == userSession[u]
  <1>1. /\ req[r].at = "issue" /\ u \in Users /\ u \in accounts
        /\ UNCHANGED <<accounts, channel, faults, expiries>>
    BY DEF IssueSession, UserInv, CallsHaveAccounts
  <1>2. /\ userSession' = [userSession EXCEPT ![u] = r]
        /\ tokenOwner' = [t \in Requests |->
                            IF t = r THEN u
                            ELSE IF t = old THEN NoUser ELSE tokenOwner[t]]
        /\ req' = [req EXCEPT ![r].at = "issued", ![r].hadOld = (old # NoToken)]
    BY DEF IssueSession, Script
  <1>3. /\ req' \in [Requests -> Call]
        /\ req'[r].at = "issued" /\ req'[r].user = u
        /\ \A q \in Requests \ {r} : req'[q] = req[q]
    <2>1. (old # NoToken) \in BOOLEAN /\ "issued" \in Places
      BY DEF Places
    <2>. QED  BY <1>2, <2>1 DEF UserInv, TypeOK, Call
  <1>4. TypeOK'
    BY <1>1, <1>2, <1>3 DEF UserInv, TypeOK, Call
  <1>5. KeysMirror'
    <2>. SUFFICES ASSUME NEW v \in Users, NEW t \in Requests
                  PROVE  userSession'[v] = t <=> tokenOwner'[t] = v
      BY DEF KeysMirror
    <2>1. \A w \in Users, q \in Requests : userSession[w] = q <=> tokenOwner[q] = w
      BY DEF UserInv, KeysMirror
    <2>2. userSession \in [Users -> Requests \cup {NoToken}] /\ NoUser \notin Users
      BY UserServiceAssumption DEF UserInv, TypeOK
    <2>3. CASE v = u
      <3>1. userSession'[v] = r
        BY <1>1, <1>2, <2>2, <2>3
      <3>2. tokenOwner'[t] = v <=> t = r
        BY <1>1, <1>2, <2>1, <2>2, <2>3
      <3>. QED  BY <3>1, <3>2
    <2>4. CASE v # u
      <3>1. userSession'[v] = userSession[v]
        BY <1>1, <1>2, <2>2, <2>4
      <3>2. CASE t = r
        <4>1. tokenOwner'[t] = u
          BY <1>2, <3>2
        <4>2. userSession[v] # r
          BY <2>1, <2>2, <2>4 DEF UserInv, TokensOfCaller
        <4>. QED  BY <2>4, <3>1, <3>2, <4>1, <4>2
      <3>3. CASE t # r
        <4>1. CASE t = old
          <5>1. tokenOwner'[t] = NoUser /\ tokenOwner[t] = u
            BY <1>1, <1>2, <2>1, <3>3, <4>1
          <5>. QED  BY <2>1, <2>2, <2>4, <3>1, <5>1
        <4>2. CASE t # old
          <5>1. tokenOwner'[t] = tokenOwner[t]
            BY <1>2, <3>3, <4>2
          <5>. QED  BY <2>1, <3>1, <5>1
        <4>. QED  BY <4>1, <4>2
      <3>. QED  BY <3>2, <3>3
    <2>. QED  BY <2>3, <2>4
  <1>6. SessionsHaveAccounts'
    BY <1>1, <1>2 DEF UserInv, SessionsHaveAccounts
  <1>7. CallsHaveAccounts' /\ TokensOfCaller'
    BY <1>1, <1>2, <1>3 DEF UserInv, CallsHaveAccounts, TokensOfCaller
  <1>. QED  BY <1>4, <1>5, <1>6, <1>7 DEF UserInv

\* A session expires: both keys go together.
LEMMA ExpireInv ==
  ASSUME UserInv, NEW u \in Users, Expire(u)
  PROVE  UserInv'
  <1>1. /\ userSession[u] \in Requests /\ tokenOwner[userSession[u]] = u
        /\ tokenOwner' = [tokenOwner EXCEPT ![userSession[u]] = NoUser]
        /\ userSession' = [userSession EXCEPT ![u] = NoToken]
        /\ expiries' \in Nat
        /\ UNCHANGED <<accounts, req, channel, faults>>
    BY DEF Expire, UserInv, TypeOK, KeysMirror
  <1>2. TypeOK'
    BY <1>1 DEF UserInv, TypeOK
  <1>3. KeysMirror'
    <2>1. /\ \A w \in Users, q \in Requests : userSession[w] = q <=> tokenOwner[q] = w
          /\ userSession \in [Users -> Requests \cup {NoToken}]
          /\ tokenOwner \in [Requests -> Users \cup {NoUser}]
          /\ NoUser \notin Users /\ NoToken \notin Requests
      BY UserServiceAssumption DEF UserInv, TypeOK, KeysMirror
    <2>. QED  BY <1>1, <2>1 DEF KeysMirror
  <1>4. CallsHaveAccounts' /\ TokensOfCaller' /\ SessionsHaveAccounts'
    BY <1>1 DEF UserInv, TypeOK, CallsHaveAccounts, TokensOfCaller, SessionsHaveAccounts
  <1>. QED  BY <1>2, <1>3, <1>4 DEF UserInv

\* A call arrives.
LEMMA ReceiveInv ==
  ASSUME UserInv, NEW r \in Requests, NEW k \in Kinds, NEW u \in Users, Receive(r, k, u)
  PROVE  UserInv'
  <1>. DEFINE call == [kind |-> k, user |-> u, hadOld |-> FALSE,
                       at |-> IF k = "login" THEN "lookup" ELSE "create"]
  <1>1. /\ req[r].at = "new" /\ req' = [req EXCEPT ![r] = call]
        /\ UNCHANGED <<accounts, userSession, tokenOwner, channel, faults, expiries>>
    BY DEF Receive
  <1>2. /\ call \in Call /\ call.user = u
        /\ call.at \in {"lookup", "create"}
        /\ call.at = "lookup" => call.kind = "login"
    BY DEF Call, Places
  <1>3. /\ req' \in [Requests -> Call] /\ req'[r] = call
        /\ \A q \in Requests \ {r} : req'[q] = req[q]
    BY <1>1, <1>2 DEF UserInv, TypeOK
  <1>. HIDE DEF call
  <1>4. TypeOK'
    BY <1>1, <1>3 DEF UserInv, TypeOK
  <1>5. KeysMirror' /\ SessionsHaveAccounts'
    BY <1>1 DEF UserInv, KeysMirror, SessionsHaveAccounts
  <1>6. CallsHaveAccounts' /\ TokensOfCaller'
    BY <1>1, <1>2, <1>3 DEF UserInv, CallsHaveAccounts, TokensOfCaller
  <1>. QED  BY <1>4, <1>5, <1>6 DEF UserInv

\* The steps of a call.
LEMMA CallStepInv ==
  ASSUME UserInv, NEW r \in Requests, Step(r)
  PROVE  UserInv'
  <1>. DEFINE Channels == [Gateways -> [Users -> Nat]]
  <1>1. /\ channel \in Channels /\ faults \in Nat /\ expiries \in Nat
        /\ Fault => faults' \in Nat
        /\ req[r].at # "new" => req[r].user \in Users
        /\ req[r].at \in {"fetch", "issue", "issued", "publish"}
              => req[r].user \in accounts
    BY FaultType DEF UserInv, TypeOK, CallsHaveAccounts
  <1>2. ASSUME req[r].user \in Users, Published(req[r].user)
        PROVE  channel' \in Channels
    BY <1>1, <1>2 DEF Published
  <1>3. CASE Refuse(r)
    BY <1>1, <1>3, MoveOn DEF Refuse, Places
  <1>4. CASE Lookup(r)
    BY <1>1, <1>4, MoveOn DEF Lookup, Places
  <1>5. CASE CreateUser(r)
    <2>1. (IF req[r].user \in accounts THEN "refused" ELSE "fetch") \in {"fetch", "refused"}
      OBVIOUS
    <2>. QED  BY <1>1, <1>5, <2>1, AccountAppears DEF CreateUser
  <1>6. CASE CreateUserUnanswered(r)
    BY <1>1, <1>6, AccountAppears DEF CreateUserUnanswered
  <1>7. CASE FetchUser(r)
    BY <1>1, <1>7, MoveOn DEF FetchUser, Places
  <1>8. CASE IssueSession(r)
    BY <1>8, IssueSessionInv
  <1>9. CASE SessionIssued(r)
    <2>1. (IF req[r].kind = "login" /\ req[r].hadOld THEN "publish" ELSE "ok")
             \in {"publish", "ok"}
      OBVIOUS
    <2>. QED  BY <1>1, <1>9, <2>1, MoveOn DEF SessionIssued, Places
  <1>10. CASE IssueAgain(r)
    BY <1>1, <1>10, MoveOn DEF IssueAgain, Places
  <1>11. CASE Publish(r)
    BY <1>1, <1>2, <1>11, MoveOn DEF Publish, Places
  <1>12. CASE PublishAgain(r)
    <2>1. /\ channel' \in Channels /\ faults' \in Nat
          /\ UNCHANGED <<accounts, userSession, tokenOwner, req, expiries>>
      BY <1>1, <1>2, <1>12 DEF PublishAgain
    <2>. QED  BY <1>1, <2>1 DEF UserInv, TypeOK, KeysMirror, CallsHaveAccounts,
                                TokensOfCaller, SessionsHaveAccounts
  <1>13. CASE PublishFails(r)
    BY <1>1, <1>13, MoveOn DEF PublishFails, Places
  <1>14. CASE Fail(r)
    BY <1>1, <1>14, MoveOn DEF Fail, InFlight, Places
  <1>. QED
    BY <1>3, <1>4, <1>5, <1>6, <1>7, <1>8, <1>9, <1>10, <1>11, <1>12, <1>13,
       <1>14 DEF Step

\* Every step preserves the invariant.
LEMMA StepInv == UserInv /\ [Next]_serviceVars => UserInv'
  <1>. SUFFICES ASSUME UserInv, [Next]_serviceVars PROVE UserInv'
    OBVIOUS
  <1>1. CASE UNCHANGED serviceVars
    BY <1>1 DEF serviceVars, UserInv, TypeOK, KeysMirror, CallsHaveAccounts,
                TokensOfCaller, SessionsHaveAccounts
  <1>2. CASE Next
    BY <1>2, ReceiveInv, CallStepInv, ExpireInv DEF Next
  <1>. QED  BY <1>1, <1>2

\* The inductive invariant holds in every reachable state.
THEOREM ServiceInvariant == Spec => []UserInv
  BY InitInv, StepInv, PTL DEF Spec

\* Every component of the state keeps its type.
THEOREM ServiceTypeCorrect == Spec => []TypeOK
  <1>1. UserInv => TypeOK
    BY DEF UserInv
  <1>. QED  BY <1>1, ServiceInvariant, PTL

\* The two session keys mirror each other: no account has two valid tokens.
THEOREM KeysAlwaysMirror == Spec => []KeysMirror
  <1>1. UserInv => KeysMirror
    BY DEF UserInv
  <1>. QED  BY <1>1, ServiceInvariant, PTL

\* Sessions belong to accounts that exist.
THEOREM SessionsOfAccounts == Spec => []SessionsHaveAccounts
  <1>1. UserInv => SessionsHaveAccounts
    BY DEF UserInv
  <1>. QED  BY <1>1, ServiceInvariant, PTL

-----------------------------------------------------------------------------
(***************************************************************************)
(* The service implements SingleSession.                                   *)
(***************************************************************************)
\* The sessions the store holds, as the abstract specification sees them.
Valid == {s \in Users \X Requests : tokenOwner[s[2]] = s[1]}

\* The script replaces, in one step, whatever session the account had.
LEMMA IssueReplaces ==
  ASSUME UserInv, NEW r \in Requests, IssueSession(r)
  PROVE  /\ req[r].user \in Users
         /\ Valid' = {s \in Valid : s[1] # req[r].user} \cup {<<req[r].user, r>>}
  <1>. DEFINE u == req[r].user
              old == userSession[u]
  <1>1. u \in Users
    BY DEF IssueSession, UserInv, CallsHaveAccounts
  <1>2. /\ tokenOwner'[r] = u
        /\ \A t \in Requests \ {r} :
              tokenOwner'[t] = IF t = old THEN NoUser ELSE tokenOwner[t]
    BY DEF IssueSession, Script
  <1>3. /\ \A w \in Users, t \in Requests : userSession[w] = t <=> tokenOwner[t] = w
        /\ NoUser \notin Users
        /\ tokenOwner[r] # NoUser => tokenOwner[r] = u
    BY UserServiceAssumption DEF UserInv, KeysMirror, TokensOfCaller
  <1>4. \A v \in Users, t \in Requests :
          tokenOwner'[t] = v <=> (v = u /\ t = r) \/ (v # u /\ tokenOwner[t] = v)
    <2>. TAKE v \in Users, t \in Requests
    <2>1. CASE t = r
      BY <1>1, <1>2, <1>3, <2>1
    <2>2. CASE t # r /\ t = old
      <3>1. tokenOwner[t] = u /\ tokenOwner'[t] = NoUser
        BY <1>1, <1>2, <1>3, <2>2
      <3>. QED  BY <1>3, <2>2, <3>1
    <2>3. CASE t # r /\ t # old
      <3>1. tokenOwner'[t] = tokenOwner[t] /\ tokenOwner[t] # u
        BY <1>1, <1>2, <1>3, <2>3
      <3>. QED  BY <2>3, <3>1
    <2>. QED  BY <2>1, <2>2, <2>3
  <1>5. \A s \in Users \X Requests :
          /\ s[1] \in Users /\ s[2] \in Requests
          /\ s = <<u, r>> <=> s[1] = u /\ s[2] = r
    OBVIOUS
  <1>6. <<u, r>> \in Users \X Requests
    BY <1>1
  <1>. HIDE DEF u, old
  <1>7. \A s : s \in Valid' <=> s \in {s0 \in Valid : s0[1] # u} \cup {<<u, r>>}
    BY <1>4, <1>5, <1>6 DEF Valid
  <1>8. Valid' = {s0 \in Valid : s0[1] # u} \cup {<<u, r>>}
    BY <1>7
  <1>. QED  BY <1>1, <1>8 DEF u

\* An expiration takes the account's session away.
LEMMA ExpireRemoves ==
  ASSUME UserInv, NEW u \in Users, Expire(u)
  PROVE  Valid' = {s \in Valid : s[1] # u}
  <1>1. /\ \A w \in Users, t \in Requests : userSession[w] = t <=> tokenOwner[t] = w
        /\ NoUser \notin Users
        /\ tokenOwner \in [Requests -> Users \cup {NoUser}]
        /\ userSession \in [Users -> Requests \cup {NoToken}]
    BY UserServiceAssumption DEF UserInv, KeysMirror, TypeOK
  <1>2. /\ userSession[u] \in Requests
        /\ tokenOwner' = [tokenOwner EXCEPT ![userSession[u]] = NoUser]
    BY <1>1 DEF Expire
  <1>3. \A v \in Users, t \in Requests :
          tokenOwner'[t] = v <=> v # u /\ tokenOwner[t] = v
    BY <1>1, <1>2
  <1>4. \A s \in Users \X Requests : s[1] \in Users /\ s[2] \in Requests
    OBVIOUS
  <1>5. \A s : s \in Valid' <=> s \in {s0 \in Valid : s0[1] # u}
    BY <1>3, <1>4 DEF Valid
  <1>. QED  BY <1>5

\* Every other step of a call leaves the sessions alone.
LEMMA OthersKeep ==
  ASSUME NEW r \in Requests, Step(r), ~IssueSession(r)
  PROVE  tokenOwner' = tokenOwner
  BY DEF Step, Refuse, Lookup, CreateUser, CreateUserUnanswered, FetchUser,
         SessionIssued, IssueAgain, Publish, PublishAgain, PublishFails, Fail

\* Concurrent logins, registrations, repeated scripts and failures are, to a
\* backend that looks tokens up, single steps that replace a session.
THEOREM SingleSessionImplemented == Spec => ImplementsSingleSession
  <1>1. Init => Sessions!Init
    <2>1. ASSUME Init PROVE Valid = {}
      BY <2>1, UserServiceAssumption DEF Init, Valid
    <2>. QED  BY <2>1 DEF Valid, Sessions!Init
  <1>2. UserInv /\ [Next]_serviceVars => [Sessions!Next]_Valid
    <2>. SUFFICES ASSUME UserInv, [Next]_serviceVars
                  PROVE  Sessions!Next \/ Valid' = Valid
      OBVIOUS
    <2>1. CASE UNCHANGED serviceVars
      BY <2>1 DEF serviceVars, Valid
    <2>2. ASSUME NEW r \in Requests, NEW k \in Kinds, NEW u \in Users, Receive(r, k, u)
          PROVE  Valid' = Valid
      BY <2>2 DEF Receive, Valid
    <2>3. ASSUME NEW r \in Requests, Step(r)
          PROVE  Sessions!Next \/ Valid' = Valid
      <3>1. CASE IssueSession(r)
        <4>1. Sessions!Replace(req[r].user, r)
          BY <3>1, IssueReplaces DEF Sessions!Replace, Valid
        <4>. QED  BY <3>1, <4>1, IssueReplaces DEF Sessions!Next
      <3>2. CASE ~IssueSession(r)
        BY <2>3, <3>2, OthersKeep DEF Valid
      <3>. QED  BY <3>1, <3>2
    <2>4. ASSUME NEW u \in Users, Expire(u)
          PROVE  Sessions!Next
      <3>1. Sessions!Expire(u)
        BY <2>4, ExpireRemoves DEF Sessions!Expire, Valid
      <3>. QED  BY <3>1 DEF Sessions!Next
    <2>. QED  BY <2>1, <2>2, <2>3, <2>4 DEF Next
  <1>3. UserInv /\ [Next]_serviceVars
          => [Sessions!Next]_{s \in Users \X Requests : tokenOwner[s[2]] = s[1]}
    BY <1>2 DEF Valid
  <1>. QED  BY <1>1, <1>3, ServiceInvariant, PTL DEF Spec, ImplementsSingleSession, Sessions!Spec

-----------------------------------------------------------------------------
(***************************************************************************)
(* Counting sessions and notifications.  Any number of calls may exist; at *)
(* any moment finitely many of them have been received.                    *)
(***************************************************************************)
Received == {r \in Requests : req[r].at # "new"}

\* An account that has a session now may have told one call that it was the
\* first; an account that has none lost as many as expired.
SessionsCounted ==
    \A u \in Users :
        Cardinality(First(u))
          <= (IF userSession[u] = NoToken THEN 0 ELSE 1) + (MaxExpiries - expiries)

\* What the counts rest on.
Countable ==
    /\ IsFiniteSet(Received)
    /\ faults \in 0 .. MaxFaults
    /\ expiries \in 0 .. MaxExpiries

\* A part of a finite set, and a part of it with one element more.
LEMMA NoMore ==
  ASSUME NEW S, NEW T, IsFiniteSet(S), T \subseteq S
  PROVE  /\ IsFiniteSet(T) /\ Cardinality(T) \in Nat
         /\ Cardinality(T) <= Cardinality(S)
  <1>1. T \in SUBSET S
    OBVIOUS
  <1>2. IsFiniteSet(T) /\ Cardinality(T) <= Cardinality(S)
    BY <1>1, FS_Subset
  <1>. QED  BY <1>2, FS_CardinalityType

LEMMA OneMore ==
  ASSUME NEW S, NEW T, NEW x, IsFiniteSet(S), T \subseteq S \cup {x}
  PROVE  /\ IsFiniteSet(T) /\ Cardinality(T) \in Nat
         /\ Cardinality(T) <= Cardinality(S) + 1
  <1>1. /\ IsFiniteSet(S \cup {x}) /\ Cardinality(S) \in Nat
        /\ Cardinality(S \cup {x}) = IF x \in S THEN Cardinality(S)
                                                ELSE Cardinality(S) + 1
    BY FS_AddElement, FS_CardinalityType
  <1>2. /\ IsFiniteSet(T) /\ Cardinality(T) \in Nat
        /\ Cardinality(T) <= Cardinality(S \cup {x})
    BY <1>1, NoMore
  <1>. QED  BY <1>1, <1>2

\* The sets that are counted are finite.
LEMMA CountedFinite ==
  ASSUME Countable, NEW u \in Users
  PROVE  /\ IsFiniteSet(First(u)) /\ Cardinality(First(u)) \in Nat
         /\ IsFiniteSet(Replacements(u)) /\ Cardinality(Replacements(u)) \in Nat
  <1>1. First(u) \subseteq Received /\ Replacements(u) \subseteq Received
    BY DEF First, Replacements, Received
  <1>. QED  BY <1>1, FS_Subset, FS_CardinalityType DEF Countable

\* What a step does to the calls: it moves one of them on, unless it is an
\* expiration or a message that is sent once more.
LEMMA OneCallMoves ==
  ASSUME UserInv, [Next]_serviceVars
  PROVE  \/ UNCHANGED req
         \/ \E r \in Requests :
              /\ \A q \in Requests \ {r} : req'[q] = req[q]
              /\ req'[r].at # "new"
  <1>1. CASE UNCHANGED serviceVars
    BY <1>1 DEF serviceVars
  <1>2. ASSUME NEW r \in Requests, NEW k \in Kinds, NEW u \in Users, Receive(r, k, u)
        PROVE  /\ \A q \in Requests \ {r} : req'[q] = req[q]
               /\ req'[r].at # "new"
    BY <1>2 DEF Receive, UserInv, TypeOK
  <1>3. ASSUME NEW r \in Requests, NEW place \in Places, Go(r, place), place # "new"
        PROVE  /\ \A q \in Requests \ {r} : req'[q] = req[q]
               /\ req'[r].at # "new"
    BY <1>3, GoType DEF UserInv
  <1>4. ASSUME NEW r \in Requests, Step(r)
        PROVE  \/ UNCHANGED req
               \/ /\ \A q \in Requests \ {r} : req'[q] = req[q]
                  /\ req'[r].at # "new"
    <2>1. CASE IssueSession(r)
      BY <2>1 DEF IssueSession, Script, UserInv, TypeOK, Call
    <2>2. CASE ~IssueSession(r)
      BY <1>3, <1>4, <2>2
      DEF Step, Places, Refuse, Lookup, CreateUser, CreateUserUnanswered, FetchUser,
          SessionIssued, IssueAgain, Publish, PublishAgain, PublishFails, Fail
    <2>. QED  BY <2>1, <2>2
  <1>5. ASSUME NEW u \in Users, Expire(u)
        PROVE  UNCHANGED req
    BY <1>5 DEF Expire
  <1>. QED  BY <1>1, <1>2, <1>4, <1>5 DEF Next

\* A step receives at most one call, and uses up at most one failure or one
\* expiration.
LEMMA StepCountable == UserInv /\ Countable /\ [Next]_serviceVars => Countable'
  <1>. SUFFICES ASSUME UserInv, Countable, [Next]_serviceVars PROVE Countable'
    OBVIOUS
  <1>1. IsFiniteSet(Received')
    <2>1. CASE UNCHANGED req
      BY <2>1 DEF Countable, Received
    <2>2. ASSUME NEW r \in Requests, \A q \in Requests \ {r} : req'[q] = req[q]
          PROVE  IsFiniteSet(Received')
      <3>1. Received' \subseteq Received \cup {r}
        BY <2>2 DEF Received
      <3>. QED  BY <3>1, FS_AddElement, FS_Subset DEF Countable
    <2>. QED  BY <2>1, <2>2, OneCallMoves
  <1>2. faults' \in {faults, faults - 1} /\ faults' \in Nat
    BY StepInv DEF UserInv, TypeOK, Next, Step, Receive, Expire, serviceVars, Fault, Refuse,
       Lookup, CreateUser, CreateUserUnanswered, FetchUser, IssueSession,
       SessionIssued, IssueAgain, Publish, PublishAgain, PublishFails, Fail
  <1>3. expiries' \in {expiries, expiries - 1} /\ expiries' \in Nat
    BY StepInv DEF UserInv, TypeOK, Next, Step, Receive, Expire, serviceVars, Refuse,
       Lookup, CreateUser, CreateUserUnanswered, FetchUser, IssueSession,
       SessionIssued, IssueAgain, Publish, PublishAgain, PublishFails, Fail
  <1>. QED  BY <1>1, <1>2, <1>3, UserServiceAssumption DEF Countable

\* A call that is not running the script joins no account's first sessions,
\* and leaves sessions and expirations alone.
LEMMA OthersJoinNoFirst ==
  ASSUME UserInv, NEW r \in Requests,
         \/ Step(r) /\ ~IssueSession(r)
         \/ \E k \in Kinds, v \in Users : Receive(r, k, v),
         NEW u \in Users
  PROVE  /\ First(u)' \subseteq First(u)
         /\ UNCHANGED <<userSession, expiries>>
  <1>1. ASSUME NEW place \in Places, Go(r, place),
               \/ place \notin {"issued", "publish", "ok"}
               \/ req[r].at \in {"issued", "publish", "ok"}
        PROVE  First(u)' \subseteq First(u)
    <2>1. /\ req'[r].at = place /\ req'[r].user = req[r].user /\ req'[r].kind = req[r].kind
          /\ req'[r].hadOld = req[r].hadOld
          /\ \A q \in Requests \ {r} : req'[q] = req[q]
      BY <1>1, GoType DEF Go, UserInv, TypeOK, Call
    <2>. QED  BY <1>1, <2>1 DEF First
  <1>2. CASE \E k \in Kinds, v \in Users : Receive(r, k, v)
    BY <1>2 DEF Receive, First, UserInv, TypeOK
  <1>3. CASE PublishAgain(r)
    BY <1>3 DEF PublishAgain, First
  <1>4. CASE Step(r) /\ ~IssueSession(r) /\ ~PublishAgain(r)
    <2>1. First(u)' \subseteq First(u)
      BY <1>1, <1>4 DEF Step, Places, Refuse, Lookup, CreateUser, CreateUserUnanswered,
         FetchUser, SessionIssued, IssueAgain, Publish, PublishFails, Fail
    <2>2. UNCHANGED <<userSession, expiries>>
      BY <1>4 DEF Step, Refuse, Lookup, CreateUser, CreateUserUnanswered,
         FetchUser, SessionIssued, IssueAgain, Publish, PublishFails, Fail
    <2>. QED  BY <2>1, <2>2
  <1>. QED  BY <1>2, <1>3, <1>4

\* The script tells the call the truth: it joins the first sessions of an
\* account only when the account has none.
LEMMA ScriptJoinsFirst ==
  ASSUME UserInv, NEW r \in Requests, IssueSession(r), NEW u \in Users
  PROVE  /\ expiries' = expiries
         /\ userSession[u] # NoToken => userSession'[u] # NoToken
         /\ \/ First(u)' \subseteq First(u)
            \/ /\ First(u)' \subseteq First(u) \cup {r}
               /\ userSession[u] = NoToken /\ userSession'[u] # NoToken
  <1>. DEFINE w == req[r].user
              old == userSession[w]
  <1>1. /\ w \in Users /\ expiries' = expiries
        /\ userSession' = [userSession EXCEPT ![w] = r]
        /\ userSession \in [Users -> Requests \cup {NoToken}] /\ r # NoToken
    BY UserServiceAssumption DEF IssueSession, Script, UserInv, TypeOK, CallsHaveAccounts
  <1>2. /\ req'[r].hadOld = (old # NoToken) /\ req'[r].user = w
        /\ \A q \in Requests \ {r} : req'[q] = req[q]
    BY DEF IssueSession, Script, UserInv, TypeOK, Call
  <1>3. userSession[u] # NoToken => userSession'[u] # NoToken
    BY <1>1
  <1>. HIDE DEF w, old
  <1>4. CASE u = w /\ old = NoToken
    <2>1. First(u)' \subseteq First(u) \cup {r}
      BY <1>2 DEF First
    <2>2. userSession[u] = NoToken /\ userSession'[u] # NoToken
      BY <1>1, <1>4 DEF old
    <2>. QED  BY <1>1, <1>3, <2>1, <2>2
  <1>5. CASE ~(u = w /\ old = NoToken)
    <2>1. First(u)' \subseteq First(u)
      BY <1>2, <1>5 DEF First
    <2>. QED  BY <1>1, <1>3, <2>1
  <1>. QED  BY <1>4, <1>5

\* Every step keeps the count.
LEMMA StepSessionsCounted ==
  UserInv /\ Countable /\ SessionsCounted /\ [Next]_serviceVars => SessionsCounted'
  <1>. SUFFICES ASSUME UserInv, Countable, SessionsCounted, [Next]_serviceVars,
                       NEW u \in Users
                PROVE  Cardinality(First(u)')
                         <= (IF userSession'[u] = NoToken THEN 0 ELSE 1)
                              + (MaxExpiries - expiries')
    BY DEF SessionsCounted
  <1>1. /\ IsFiniteSet(First(u)) /\ Cardinality(First(u)) \in Nat
        /\ Cardinality(First(u)) <= (IF userSession[u] = NoToken THEN 0 ELSE 1)
                                      + (MaxExpiries - expiries)
        /\ MaxExpiries \in Nat /\ expiries \in Nat /\ expiries' \in Nat
    BY CountedFinite, UserServiceAssumption, StepInv DEF SessionsCounted, UserInv, TypeOK
  <1>2. ASSUME First(u)' \subseteq First(u)
        PROVE  /\ Cardinality(First(u)') \in Nat
               /\ Cardinality(First(u)') <= Cardinality(First(u))
    BY <1>1, <1>2, NoMore
  <1>3. CASE UNCHANGED serviceVars
    BY <1>1, <1>3 DEF serviceVars, First
  <1>4. ASSUME NEW r \in Requests,
               \/ Step(r) /\ ~IssueSession(r)
               \/ \E k \in Kinds, v \in Users : Receive(r, k, v)
        PROVE  Cardinality(First(u)')
                 <= (IF userSession'[u] = NoToken THEN 0 ELSE 1)
                      + (MaxExpiries - expiries')
    <2>1. First(u)' \subseteq First(u) /\ UNCHANGED <<userSession, expiries>>
      BY <1>4, OthersJoinNoFirst
    <2>. QED  BY <1>1, <1>2, <2>1
  <1>5. ASSUME NEW r \in Requests, IssueSession(r)
        PROVE  Cardinality(First(u)')
                 <= (IF userSession'[u] = NoToken THEN 0 ELSE 1)
                      + (MaxExpiries - expiries')
    <2>1. /\ expiries' = expiries
          /\ userSession[u] # NoToken => userSession'[u] # NoToken
      BY <1>5, ScriptJoinsFirst
    <2>2. CASE First(u)' \subseteq First(u)
      BY <1>1, <1>2, <2>1, <2>2
    <2>3. CASE /\ First(u)' \subseteq First(u) \cup {r}
               /\ userSession[u] = NoToken /\ userSession'[u] # NoToken
      <3>1. /\ Cardinality(First(u)') \in Nat
            /\ Cardinality(First(u)') <= Cardinality(First(u)) + 1
        BY <1>1, <2>3, OneMore
      <3>. QED  BY <1>1, <2>1, <2>3, <3>1
    <2>. QED  BY <1>5, <2>2, <2>3, ScriptJoinsFirst
  <1>6. ASSUME NEW v \in Users, Expire(v)
        PROVE  Cardinality(First(u)')
                 <= (IF userSession'[u] = NoToken THEN 0 ELSE 1)
                      + (MaxExpiries - expiries')
    <2>1. /\ First(u)' = First(u) /\ expiries' = expiries - 1
          /\ userSession[u] = NoToken => userSession'[u] = NoToken
      BY <1>6 DEF Expire, First, UserInv, TypeOK
    <2>. QED  BY <1>1, <2>1
  <1>. QED  BY <1>3, <1>4, <1>5, <1>6 DEF Next

\* Both counts start at nothing.
LEMMA InitCounted ==
  Init => /\ Countable /\ SessionsCounted /\ ReplacementAnnounced
  <1>. SUFFICES ASSUME Init PROVE Countable /\ SessionsCounted /\ ReplacementAnnounced
    OBVIOUS
  <1>1. Received = {} /\ \A u \in Users : First(u) = {} /\ Replacements(u) = {}
    BY DEF Init, Received, First, Replacements
  <1>2. Countable
    BY <1>1, FS_EmptySet, UserServiceAssumption DEF Init, Countable
  <1>. DEFINE nothing == Cardinality({})
  <1>6. nothing = 0
    BY FS_EmptySet
  <1>5. \A u \in Users : /\ Cardinality(First(u)) = nothing
                       /\ Cardinality(Replacements(u)) = nothing
    BY <1>1
  <1>. HIDE DEF nothing
  <1>3. SessionsCounted
    BY <1>5, <1>6, UserServiceAssumption DEF Init, SessionsCounted
  <1>4. ReplacementAnnounced
    BY <1>5, <1>6, UserServiceAssumption DEF Init, ReplacementAnnounced
  <1>. QED  BY <1>2, <1>3, <1>4

\* Finitely many calls at a time, and no more failures and expirations than
\* the bounds.
THEOREM AlwaysCountable == Spec => []Countable
  BY InitCounted, StepCountable, ServiceInvariant, PTL DEF Spec

\* Of the calls that got a session for an account, one more than sessions
\* expired, at most, was told that there was none before: of two concurrent
\* logins one sees the other's session.
THEOREM OneIsFirst == Spec => []OneFirst
  <1>1. Spec => []SessionsCounted
    BY InitCounted, StepSessionsCounted, AlwaysCountable, ServiceInvariant, PTL DEF Spec
  <1>2. Countable /\ SessionsCounted => OneFirst
    <2>. SUFFICES ASSUME Countable, SessionsCounted, NEW u \in Users
                  PROVE  Cardinality(First(u)) <= 1 + (MaxExpiries - expiries)
      BY DEF OneFirst
    <2>. QED  BY CountedFinite, UserServiceAssumption DEF SessionsCounted, Countable
  <1>. QED  BY <1>1, <1>2, AlwaysCountable, PTL

-----------------------------------------------------------------------------
\* A call that has not returned as a login that replaced a session, and does
\* not return as one, joins no account's replacements.
LEMMA JoinsNoReplacements ==
  ASSUME UserInv, NEW r \in Requests, NEW place \in Places, Go(r, place),
         place = "ok" => ~(req[r].kind = "login" /\ req[r].hadOld), NEW u \in Users
  PROVE  Replacements(u)' \subseteq Replacements(u)
  <1>1. /\ req'[r].at = place /\ req'[r].kind = req[r].kind
        /\ req'[r].hadOld = req[r].hadOld
        /\ \A q \in Requests \ {r} : req'[q] = req[q]
    BY GoType DEF Go, UserInv, TypeOK, Call
  <1>. QED  BY <1>1 DEF Replacements

\* A step adds to the replacements of an account only a call that publishes,
\* and then either every subscriber has one message more to see or one failure
\* has been used up.
LEMMA ReplacementsStep ==
  ASSUME UserInv, [Next]_serviceVars, NEW u \in Users, NEW g \in Gateways
  PROVE  \/ /\ Replacements(u)' \subseteq Replacements(u)
            /\ channel'[g][u] >= channel[g][u] /\ faults' <= faults
         \/ \E r \in Requests :
              /\ Replacements(u)' \subseteq Replacements(u) \cup {r}
              /\ \/ channel'[g][u] = channel[g][u] + 1 /\ faults' = faults
                 \/ channel'[g][u] = channel[g][u] /\ faults' = faults - 1
  <1>. DEFINE Still == /\ Replacements(u)' \subseteq Replacements(u)
                       /\ channel'[g][u] >= channel[g][u] /\ faults' <= faults
  <1>1. /\ channel \in [Gateways -> [Users -> Nat]] /\ faults \in Nat
        /\ channel[g][u] \in Nat
    BY DEF UserInv, TypeOK
  <1>2. ASSUME channel' = channel, faults' = faults \/ Fault
        PROVE  channel'[g][u] >= channel[g][u] /\ faults' <= faults
    BY <1>1, <1>2 DEF Fault
  <1>3. ASSUME NEW v \in Users, Published(v)
        PROVE  /\ channel'[g][u] = channel[g][u] + (IF u = v THEN 1 ELSE 0)
               /\ channel'[g][u] >= channel[g][u]
    BY <1>1, <1>3 DEF Published
  <1>4. CASE UNCHANGED serviceVars
    BY <1>1, <1>4 DEF serviceVars, Replacements
  <1>5. ASSUME NEW v \in Users, Expire(v)
        PROVE  Still
    BY <1>1, <1>5 DEF Expire, Replacements
  <1>6. ASSUME NEW r \in Requests, NEW k \in Kinds, NEW v \in Users, Receive(r, k, v)
        PROVE  Still
    <2>1. Replacements(u)' \subseteq Replacements(u)
      BY <1>6 DEF Receive, Replacements, UserInv, TypeOK
    <2>. QED  BY <1>2, <1>6, <2>1 DEF Receive
  <1>7. ASSUME NEW r \in Requests, Step(r),
               ~Publish(r), ~PublishAgain(r), ~PublishFails(r)
        PROVE  Still
    <2>1. channel' = channel /\ (faults' = faults \/ Fault)
      BY <1>7 DEF Step, Refuse, Lookup, CreateUser, CreateUserUnanswered, FetchUser,
         IssueSession, SessionIssued, IssueAgain, Fail
    <2>2. CASE IssueSession(r)
      <3>1. Replacements(u)' \subseteq Replacements(u)
        BY <2>2 DEF IssueSession, Script, Replacements, UserInv, TypeOK, Call
      <3>. QED  BY <1>2, <2>1, <3>1
    <2>3. CASE SessionIssued(r)
      <3>. DEFINE place == IF req[r].kind = "login" /\ req[r].hadOld
                           THEN "publish" ELSE "ok"
      <3>1. /\ place \in Places /\ Go(r, place)
            /\ place = "ok" => ~(req[r].kind = "login" /\ req[r].hadOld)
        BY <2>3 DEF SessionIssued, Places
      <3>. HIDE DEF place
      <3>2. Replacements(u)' \subseteq Replacements(u)
        BY <3>1, JoinsNoReplacements
      <3>. QED  BY <1>2, <2>1, <3>2
    <2>4. CASE ~IssueSession(r) /\ ~SessionIssued(r)
      <3>1. \E place \in Places : Go(r, place) /\ place # "ok"
        BY <1>7, <2>4 DEF Step, Places, Refuse, Lookup, CreateUser, CreateUserUnanswered,
           FetchUser, IssueAgain, Fail
      <3>2. Replacements(u)' \subseteq Replacements(u)
        BY <3>1, JoinsNoReplacements
      <3>. QED  BY <1>2, <2>1, <3>2
    <2>. QED  BY <2>2, <2>3, <2>4
  <1>8. ASSUME NEW r \in Requests, PublishAgain(r)
        PROVE  Still
    <2>1. req[r].user \in Users /\ faults' <= faults /\ req' = req
      BY <1>1, <1>8 DEF PublishAgain, Fault, UserInv, CallsHaveAccounts
    <2>. QED  BY <1>3, <1>8, <2>1 DEF PublishAgain, Replacements
  <1>9. ASSUME NEW r \in Requests, Publish(r) \/ PublishFails(r)
        PROVE  \/ Still
               \/ /\ Replacements(u)' \subseteq Replacements(u) \cup {r}
                  /\ \/ channel'[g][u] = channel[g][u] + 1 /\ faults' = faults
                     \/ channel'[g][u] = channel[g][u] /\ faults' = faults - 1
    <2>1. /\ req'[r].user = req[r].user /\ req[r].user \in Users
          /\ \A q \in Requests \ {r} : req'[q] = req[q]
      BY <1>9, GoType DEF Publish, PublishFails, Places, UserInv, CallsHaveAccounts
    <2>2. Replacements(u)' \subseteq Replacements(u) \cup {r}
      BY <2>1 DEF Replacements
    <2>3. CASE Publish(r) /\ req[r].user = u
      BY <1>3, <2>1, <2>2, <2>3 DEF Publish
    <2>4. CASE Publish(r) /\ req[r].user # u
      <3>1. Replacements(u)' \subseteq Replacements(u)
        BY <2>1, <2>4 DEF Replacements
      <3>2. channel'[g][u] >= channel[g][u] /\ faults' <= faults
        BY <1>1, <1>3, <2>1, <2>4 DEF Publish
      <3>. QED  BY <3>1, <3>2
    <2>5. CASE PublishFails(r)
      BY <1>1, <2>2, <2>5 DEF PublishFails, Fault
    <2>. QED  BY <1>9, <2>3, <2>4, <2>5
  <1>. QED  BY <1>4, <1>5, <1>6, <1>7, <1>8, <1>9 DEF Next

\* A login that replaced a session has told every subscriber by the time it
\* returns, but for the messages that were not sent.
THEOREM ReplacementsAnnounced == Spec => []ReplacementAnnounced
  <1>1. UserInv /\ Countable /\ ReplacementAnnounced /\ [Next]_serviceVars
          => ReplacementAnnounced'
    <2>. SUFFICES ASSUME UserInv, Countable, ReplacementAnnounced, [Next]_serviceVars,
                         NEW u \in Users, NEW g \in Gateways
                  PROVE  Cardinality(Replacements(u)')
                           <= channel'[g][u] + (MaxFaults - faults')
      BY DEF ReplacementAnnounced
    <2>1. /\ IsFiniteSet(Replacements(u)) /\ Cardinality(Replacements(u)) \in Nat
          /\ Cardinality(Replacements(u)) <= channel[g][u] + (MaxFaults - faults)
          /\ MaxFaults \in Nat /\ faults \in Nat /\ faults' \in Nat
          /\ channel[g][u] \in Nat /\ channel'[g][u] \in Nat
      BY CountedFinite, UserServiceAssumption, StepInv
      DEF ReplacementAnnounced, UserInv, TypeOK
    <2>2. CASE /\ Replacements(u)' \subseteq Replacements(u)
               /\ channel'[g][u] >= channel[g][u] /\ faults' <= faults
      <3>1. /\ Cardinality(Replacements(u)') \in Nat
            /\ Cardinality(Replacements(u)') <= Cardinality(Replacements(u))
        BY <2>1, <2>2, NoMore
      <3>. QED  BY <2>1, <2>2, <3>1
    <2>3. ASSUME NEW r \in Requests,
                 Replacements(u)' \subseteq Replacements(u) \cup {r},
                 \/ channel'[g][u] = channel[g][u] + 1 /\ faults' = faults
                 \/ channel'[g][u] = channel[g][u] /\ faults' = faults - 1
          PROVE  Cardinality(Replacements(u)') <= channel'[g][u] + (MaxFaults - faults')
      <3>1. /\ Cardinality(Replacements(u)') \in Nat
            /\ Cardinality(Replacements(u)') <= Cardinality(Replacements(u)) + 1
        BY <2>1, <2>3, OneMore
      <3>. QED  BY <2>1, <2>3, <3>1
    <2>. QED  BY <2>2, <2>3, ReplacementsStep
  <1>. QED  BY <1>1, InitCounted, AlwaysCountable, ServiceInvariant, PTL DEF Spec

-----------------------------------------------------------------------------
(***************************************************************************)
(* Takeover: the service together with the gateways.                       *)
(***************************************************************************)
\* Failures and expirations are used up, never gained.
Spent == faults <= MaxFaults /\ expiries <= MaxExpiries

ServiceInv == UserInv /\ Spent

-----------------------------------------------------------------------------
(***************************************************************************)
(* The service: the steps of a call, and what they leave alone.            *)
(***************************************************************************)
\* Everything a call does but receive the request and run the script: it moves
\* on, sends a message at most, and leaves the sessions alone.
Moves(r) ==
    /\ UNCHANGED <<userSession, tokenOwner, expiries>>
    /\ accounts' \in {accounts, accounts \cup {req[r].user}}
    /\ req' \in [Requests -> Call]
    /\ \A q \in Requests \ {r} : req'[q] = req[q]
    /\ req'[r].kind = req[r].kind /\ req'[r].user = req[r].user
    /\ req'[r].hadOld = req[r].hadOld
    /\ req[r].at \notin {"new", "ok", "refused"}
    /\ req'[r].at \notin {"new", "lookup", "create"}
    /\ req'[r].at \in {"fetch", "issue", "issued", "publish"} => req[r].user \in accounts'
    /\ req'[r].at \in {"issued", "publish", "ok"} => req[r].at \in {"issued", "publish"}
    /\ \/ channel' = channel
       \/ /\ Published(req[r].user)
          /\ req[r].at = "publish" /\ req'[r].at \in {"publish", "ok"}
    /\ faults' \in Nat /\ faults' <= faults

\* ... and, if nothing fails, in this order.
InOrder(r) ==
    /\ req[r].at = "issued" /\ req[r].kind = "login" /\ req[r].hadOld
         => req'[r].at = "publish"
    /\ req[r].at = "publish" => req'[r].at = "ok" /\ Published(req[r].user)

LEMMA CallMoves ==
  ASSUME ServiceInv, NEW r \in Requests, Step(r), ~IssueSession(r)
  PROVE  Moves(r) /\ (faults' = faults => InOrder(r))
  <1>1. /\ req \in [Requests -> Call] /\ faults \in Nat
        /\ req[r].at \in {"fetch", "issue", "issued", "publish"}
             => req[r].user \in accounts
        /\ req[r].at = "lookup" => req[r].kind = "login"
    BY DEF ServiceInv, UserInv, TypeOK, CallsHaveAccounts
  <1>2. ASSUME NEW place \in Places, Go(r, place)
        PROVE  /\ req' \in [Requests -> Call] /\ req'[r].at = place
               /\ req'[r].kind = req[r].kind /\ req'[r].user = req[r].user
               /\ req'[r].hadOld = req[r].hadOld
               /\ \A q \in Requests \ {r} : req'[q] = req[q]
    BY <1>1, <1>2 DEF Go, Call
  <1>3. Fault => faults' \in Nat /\ faults' <= faults /\ faults' # faults
    BY <1>1 DEF Fault
  <1>4. CASE Refuse(r) \/ Lookup(r) \/ FetchUser(r)
    BY <1>1, <1>2, <1>4 DEF Refuse, Lookup, FetchUser, Store, Places,
       Moves, InOrder
  <1>5. CASE CreateUser(r) \/ CreateUserUnanswered(r)
    BY <1>1, <1>2, <1>3, <1>5 DEF CreateUser, CreateUserUnanswered, Places,
       Moves, InOrder
  <1>6. CASE SessionIssued(r) \/ IssueAgain(r)
    BY <1>1, <1>2, <1>3, <1>6 DEF SessionIssued, IssueAgain, Store, Places,
       Moves, InOrder
  <1>7. CASE Publish(r) \/ PublishFails(r)
    BY <1>1, <1>2, <1>3, <1>7 DEF Publish, PublishFails, Store, Places,
       Moves, InOrder
  <1>8. CASE PublishAgain(r)
    BY <1>1, <1>3, <1>8 DEF PublishAgain, Store, Moves
  <1>9. CASE Fail(r)
    BY <1>1, <1>2, <1>3, <1>9 DEF Fail, InFlight, Store, Places, Moves
  <1>. QED  BY <1>4, <1>5, <1>6, <1>7, <1>8, <1>9 DEF Step

\* The service starts without sessions.
LEMMA InitService == Init => ServiceInv
  BY InitInv, UserServiceAssumption DEF Init, ServiceInv, Spent

\* One message more for every gateway.
LEMMA PublishedType ==
  ASSUME NEW u \in Users, channel \in [Gateways -> [Users -> Nat]], Published(u)
  PROVE  /\ channel' \in [Gateways -> [Users -> Nat]]
         /\ \A g \in Gateways : /\ channel'[g][u] > 0
                                /\ \A v \in Users \ {u} : channel'[g][v] = channel[g][v]
  BY DEF Published

LEMMA MovesService ==
  ASSUME ServiceInv, NEW r \in Requests, Moves(r)
  PROVE  ServiceInv'
  <1>1. req[r].user \in Users
    BY DEF ServiceInv, UserInv, CallsHaveAccounts, Moves
  <1>2. channel' \in [Gateways -> [Users -> Nat]]
    BY <1>1, PublishedType DEF ServiceInv, UserInv, TypeOK, Moves
  <1>3. TypeOK' /\ Spent'
    BY <1>1, <1>2, TakeoverAssumption, UserServiceAssumption DEF ServiceInv, UserInv, TypeOK, Spent, Moves
  <1>4. KeysMirror' /\ SessionsHaveAccounts'
    BY DEF ServiceInv, UserInv, KeysMirror, SessionsHaveAccounts, Moves
  <1>5. CallsHaveAccounts' /\ TokensOfCaller'
    BY DEF ServiceInv, UserInv, CallsHaveAccounts, TokensOfCaller, Moves
  <1>. QED  BY <1>3, <1>4, <1>5 DEF ServiceInv, UserInv

\* What the script leaves behind.
LEMMA Issues ==
  ASSUME ServiceInv, NEW r \in Requests, IssueSession(r)
  PROVE  LET u == req[r].user
         IN  /\ req[r].at = "issue" /\ u \in Users /\ u \in accounts
             /\ UNCHANGED <<accounts, channel, faults, expiries>>
             /\ userSession' = [userSession EXCEPT ![u] = r]
             /\ tokenOwner'[r] = u
             /\ \A t \in Requests \ {r} :
                   tokenOwner'[t] = IF tokenOwner[t] = u THEN NoUser ELSE tokenOwner[t]
             /\ tokenOwner' \in [Requests -> Users \cup {NoUser}]
             /\ req' \in [Requests -> Call]
             /\ req'[r].at = "issued" /\ req'[r].user = u /\ req'[r].kind = req[r].kind
             /\ req'[r].hadOld = (userSession[u] # NoToken)
             /\ \A q \in Requests \ {r} : req'[q] = req[q]
  <1>. DEFINE u == req[r].user
              old == userSession[u]
  <1>1. /\ req[r].at = "issue" /\ u \in Users /\ u \in accounts
        /\ UNCHANGED <<accounts, channel, faults, expiries>>
    BY DEF IssueSession, ServiceInv, UserInv, CallsHaveAccounts
  <1>2. /\ userSession' = [userSession EXCEPT ![u] = r]
        /\ tokenOwner' = [t \in Requests |->
                            IF t = r THEN u
                            ELSE IF t = old THEN NoUser ELSE tokenOwner[t]]
        /\ req' = [req EXCEPT ![r].at = "issued", ![r].hadOld = (old # NoToken)]
    BY DEF IssueSession, Script
  <1>3. /\ req' \in [Requests -> Call]
        /\ req'[r].at = "issued" /\ req'[r].user = u /\ req'[r].kind = req[r].kind
        /\ req'[r].hadOld = (old # NoToken)
        /\ \A q \in Requests \ {r} : req'[q] = req[q]
    <2>1. (old # NoToken) \in BOOLEAN /\ "issued" \in Places
      BY DEF Places
    <2>. QED  BY <1>2, <2>1 DEF ServiceInv, UserInv, TypeOK, Call
  <1>4. \A t \in Requests : t = old <=> tokenOwner[t] = u
    BY <1>1 DEF ServiceInv, UserInv, KeysMirror
  <1>5. /\ tokenOwner'[r] = u
        /\ \A t \in Requests \ {r} :
              tokenOwner'[t] = IF tokenOwner[t] = u THEN NoUser ELSE tokenOwner[t]
        /\ tokenOwner' \in [Requests -> Users \cup {NoUser}]
    BY <1>1, <1>2, <1>4 DEF ServiceInv, UserInv, TypeOK
  <1>. QED  BY <1>1, <1>2, <1>3, <1>5

LEMMA IssuesService ==
  ASSUME ServiceInv, NEW r \in Requests, IssueSession(r)
  PROVE  ServiceInv'
  BY IssueSessionInv, Issues DEF ServiceInv, Spent

\* A session expires: both keys go together.
LEMMA ExpiresService ==
  ASSUME ServiceInv, NEW u \in Users, Expire(u)
  PROVE  /\ ServiceInv'
         /\ UNCHANGED <<accounts, req, channel, faults>>
         /\ expiries' < expiries
         /\ \A t \in Requests : tokenOwner'[t] \in {tokenOwner[t], NoUser}
  <1>1. /\ userSession[u] \in Requests /\ tokenOwner[userSession[u]] = u
        /\ tokenOwner' = [tokenOwner EXCEPT ![userSession[u]] = NoUser]
        /\ userSession' = [userSession EXCEPT ![u] = NoToken]
        /\ expiries' \in Nat /\ expiries' < expiries
        /\ UNCHANGED <<accounts, req, channel, faults>>
    BY DEF Expire, ServiceInv, UserInv, TypeOK, KeysMirror
  <1>2. ServiceInv'
    BY <1>1, ExpireInv, UserServiceAssumption DEF ServiceInv, UserInv, TypeOK, Spent
  <1>3. \A t \in Requests : tokenOwner'[t] \in {tokenOwner[t], NoUser}
    BY <1>1 DEF ServiceInv, UserInv, TypeOK
  <1>. QED  BY <1>1, <1>2, <1>3

\* A call arrives.
LEMMA ReceivesService ==
  ASSUME ServiceInv, NEW r \in Requests, NEW k \in Kinds, NEW u \in Users,
         Receive(r, k, u)
  PROVE  /\ ServiceInv'
         /\ UNCHANGED <<accounts, userSession, tokenOwner, channel, faults, expiries>>
         /\ req[r].at = "new" /\ req'[r].at \in {"lookup", "create"}
         /\ req'[r].user = u
         /\ \A q \in Requests \ {r} : req'[q] = req[q]
  <1>. DEFINE call == [kind |-> k, user |-> u, hadOld |-> FALSE,
                       at |-> IF k = "login" THEN "lookup" ELSE "create"]
  <1>1. /\ req[r].at = "new" /\ req' = [req EXCEPT ![r] = call]
        /\ UNCHANGED <<accounts, userSession, tokenOwner, channel, faults, expiries>>
    BY DEF Receive, Store
  <1>2. call \in Call /\ call.user = u /\ call.at \in {"lookup", "create"}
    BY DEF Call, Places
  <1>3. req'[r] = call /\ \A q \in Requests \ {r} : req'[q] = req[q]
    BY <1>1, <1>2 DEF ServiceInv, UserInv, TypeOK
  <1>4. ServiceInv'
    BY <1>1, ReceiveInv DEF ServiceInv, Spent
  <1>. HIDE DEF call
  <1>. QED  BY <1>1, <1>2, <1>3, <1>4

\* Where the answer of a call is read: the user's id is found or it is not.
LEMMA Extracted ==
  ASSUME NEW u \in Users
  PROVE  ExtractUserID(EncodedReply(u)) = IF ReplyField = "user_id" THEN u ELSE NoUser
  BY DEF ExtractUserID, EncodedReply

\* The service when a gateway makes a step of its own.
LEMMA ServiceStands ==
  ASSUME ServiceInv, UNCHANGED <<accounts, userSession, tokenOwner, req, expiries>>,
         channel' \in [Gateways -> [Users -> Nat]], faults' \in Nat, faults' <= faults
  PROVE  ServiceInv'
  <1>1. TypeOK' /\ Spent'
    BY TakeoverAssumption, UserServiceAssumption DEF ServiceInv, UserInv, TypeOK, Spent
  <1>2. KeysMirror' /\ SessionsHaveAccounts' /\ CallsHaveAccounts' /\ TokensOfCaller'
    BY DEF ServiceInv, UserInv, KeysMirror, SessionsHaveAccounts, CallsHaveAccounts,
       TokensOfCaller
  <1>. QED  BY <1>1, <1>2 DEF ServiceInv, UserInv

\* One message fewer.
LEMMA TakenType ==
  ASSUME NEW g \in Gateways, NEW u \in Users,
         channel \in [Gateways -> [Users -> Nat]], channel[g][u] > 0, Taken(g, u)
  PROVE  /\ channel' \in [Gateways -> [Users -> Nat]]
         /\ \A h \in Gateways, v \in Users : channel'[h][v] > 0 => channel[h][v] > 0
         /\ \A h \in Gateways, v \in Users :
               h # g \/ v # u => channel'[h][v] = channel[h][v]
  BY DEF Taken

-----------------------------------------------------------------------------
(***************************************************************************)
(* Types, and the service's promises, in the composed system.              *)
(***************************************************************************)
LEMMA NextKeepsTypes ==
  ASSUME ServiceInv, TakeoverTypeOK, [TakeoverNext]_takeoverVars
  PROVE  ServiceInv' /\ TakeoverTypeOK'
  <1>1. /\ conn \in [Requests -> {"waiting", "online", "closed"}]
        /\ userConn \in [Gateways -> [Users -> Requests \cup {NoConn}]]
        /\ told \in SUBSET Requests
        /\ channel \in [Gateways -> [Users -> Nat]] /\ faults \in Nat
        /\ Home \in [Requests -> Gateways]
    BY TakeoverAssumption, UserServiceAssumption DEF TakeoverTypeOK, TypeOK
  <1>2. ASSUME UNCHANGED gatewayVars, ServiceInv'
        PROVE  TakeoverTypeOK'
    BY <1>2 DEF TakeoverTypeOK, gatewayVars, ServiceInv, UserInv
  <1>3. ASSUME UNCHANGED serviceVars
        PROVE  ServiceInv'
    BY <1>1, <1>3, ServiceStands DEF serviceVars
  <1>4. ASSUME NEW r \in Requests, NEW k \in Kinds, NEW u \in Users, CallService(r, k, u)
        PROVE  ServiceInv' /\ TakeoverTypeOK'
    BY <1>2, <1>4, ReceivesService DEF CallService
  <1>5. ASSUME ServiceStep
        PROVE  ServiceInv' /\ TakeoverTypeOK'
    <2>1. ASSUME NEW r \in Requests, Step(r)
          PROVE  ServiceInv'
      <3>1. CASE IssueSession(r)
        BY <3>1, IssuesService
      <3>2. CASE ~IssueSession(r)
        <4>1. Moves(r)
          BY <2>1, <3>2, CallMoves
        <4>. QED  BY <4>1, MovesService
      <3>. QED  BY <3>1, <3>2
    <2>. QED  BY <1>2, <1>5, <2>1, ExpiresService DEF ServiceStep
  <1>6. ASSUME NEW r \in Requests, LoggedIn(r)
        PROVE  ServiceInv' /\ TakeoverTypeOK'
    <2>1. req[r].user \in Users
      BY <1>6 DEF LoggedIn, ServiceInv, UserInv, CallsHaveAccounts
    <2>2. /\ conn' \in [Requests -> {"waiting", "online", "closed"}]
          /\ userConn' \in [Gateways -> [Users -> Requests \cup {NoConn}]]
      BY <1>1, <1>6, <2>1, Extracted DEF LoggedIn
    <2>. QED  BY <1>3, <1>6, <2>2 DEF LoggedIn, TakeoverTypeOK, ServiceInv, UserInv
  <1>7. ASSUME NEW r \in Requests, Refused(r)
        PROVE  ServiceInv' /\ TakeoverTypeOK'
    BY <1>1, <1>3, <1>7 DEF Refused, TakeoverTypeOK, ServiceInv, UserInv
  <1>8. ASSUME NEW r \in Requests, Leave(r)
        PROVE  ServiceInv' /\ TakeoverTypeOK'
    <2>1. /\ conn' \in [Requests -> {"waiting", "online", "closed"}]
          /\ userConn' \in [Gateways -> [Users -> Requests \cup {NoConn}]]
      BY <1>1, <1>8 DEF Leave
    <2>. QED  BY <1>3, <1>8, <2>1 DEF Leave, TakeoverTypeOK, ServiceInv, UserInv
  <1>9. ASSUME NEW g \in Gateways, NEW u \in Users,
               HandleInvalidation(g, u) \/ LoseInvalidation(g, u)
        PROVE  ServiceInv' /\ TakeoverTypeOK'
    <2>1. channel' \in [Gateways -> [Users -> Nat]]
      BY <1>1, <1>9, TakenType DEF HandleInvalidation, LoseInvalidation
    <2>2. /\ UNCHANGED <<accounts, userSession, tokenOwner, req, expiries>>
          /\ faults' \in Nat /\ faults' <= faults
      BY <1>1, <1>9 DEF HandleInvalidation, LoseInvalidation, Fault
    <2>3. userConn' \in [Gateways -> [Users -> Requests \cup {NoConn}]]
      <3>1. CASE userConn' = userConn
        BY <1>1, <3>1
      <3>2. CASE userConn' = [userConn EXCEPT ![g][u] = NoConn]
        BY <1>1, <3>2
      <3>. QED
        BY <1>9, <3>1, <3>2 DEF HandleInvalidation, LoseInvalidation, gatewayVars
    <2>4. conn' \in [Requests -> {"waiting", "online", "closed"}]
      <3>1. conn' \in {conn, [conn EXCEPT ![userConn[g][u]] = "closed"]}
        BY <1>9 DEF HandleInvalidation, LoseInvalidation, gatewayVars
      <3>. QED  BY <1>1, <3>1
    <2>5. told' \in SUBSET Requests
      BY <1>1, <1>9 DEF HandleInvalidation, LoseInvalidation, gatewayVars
    <2>. QED
      BY <2>1, <2>2, <2>3, <2>4, <2>5, ServiceStands DEF TakeoverTypeOK, ServiceInv, UserInv
  <1>10. CASE UNCHANGED takeoverVars
    BY <1>2, <1>3, <1>10 DEF takeoverVars
  <1>. QED  BY <1>4, <1>5, <1>6, <1>7, <1>8, <1>9, <1>10 DEF TakeoverNext

\* It holds when service and gateways start.
LEMMA InitTakeover == TakeoverInit => ServiceInv /\ TakeoverTypeOK
  BY InitService DEF TakeoverInit, TakeoverTypeOK, ServiceInv, UserInv

\* The variables keep their types, and the service's two session keys mirror
\* each other, whatever the gateways do and whenever messages are handled.
THEOREM TypeCorrect == TakeoverSpec => [](TakeoverTypeOK /\ KeysMirror)
  <1>1. TakeoverInit => ServiceInv /\ TakeoverTypeOK
    BY InitTakeover
  <1>2. (ServiceInv /\ TakeoverTypeOK) /\ [TakeoverNext]_takeoverVars => (ServiceInv /\ TakeoverTypeOK)'
    BY NextKeepsTypes
  <1>3. ServiceInv /\ TakeoverTypeOK => TakeoverTypeOK /\ KeysMirror
    BY DEF ServiceInv, UserInv
  <1>. QED  BY <1>1, <1>2, <1>3, PTL DEF TakeoverSpec

-----------------------------------------------------------------------------
(***************************************************************************)
(* Who is replaced is told.                                                *)
(***************************************************************************)
\* A login that replaced a session of u has yet to publish.
Announcing(u) ==
    \E q \in Requests :
        /\ req[q].user = u /\ req[q].kind = "login" /\ req[q].hadOld
        /\ req[q].at \in {"issued", "publish"}

\* The gateway of a connection whose session was replaced was told, or will be,
\* or a registration replaced the session last.
ToldOrToCome ==
    \A r \in Requests :
        Replaced(r) /\ r \notin told =>
            \/ Announcing(req[r].user)
            \/ channel[Home[r]][req[r].user] > 0
            \/ HeldByRegistration(req[r].user)

\* The inductive invariant.
TInv == ServiceInv /\ TakeoverTypeOK /\ (NoFault => ToldOrToCome)

\* A step between two states without a fault is no fault.
LEMMA NoFaultBefore ==
  ASSUME ServiceInv, ServiceInv', NoFault', faults' <= faults, expiries' <= expiries
  PROVE  NoFault /\ faults' = faults /\ expiries' = expiries
  BY UserServiceAssumption DEF ServiceInv, UserInv, TypeOK, Spent, NoFault

\* The token an account holds is one of a call for that account, received.
LEMMA HolderCalls ==
  ASSUME ServiceInv, NEW u \in Users, NEW q \in Requests, userSession[u] = q
  PROVE  tokenOwner[q] = u /\ req[q].user = u /\ req[q].at # "new"
  BY UserServiceAssumption DEF ServiceInv, UserInv, KeysMirror, TokensOfCaller

\* Whose session was issued is a user, connected to a gateway.
LEMMA ReplacedIsUser ==
  ASSUME ServiceInv, NEW r \in Requests, Replaced(r)
  PROVE  req[r].user \in Users /\ Home[r] \in Gateways
  BY TakeoverAssumption DEF ServiceInv, UserInv, CallsHaveAccounts, Replaced

\* A call arrives: it has no session yet.
LEMMA CallTells ==
  ASSUME ServiceInv, ToldOrToCome, told' = told,
         NEW r \in Requests, NEW k \in Kinds, NEW u \in Users, Receive(r, k, u)
  PROVE  ToldOrToCome'
  <1>1. /\ UNCHANGED <<userSession, tokenOwner, channel>>
        /\ req[r].at = "new" /\ req'[r].at \in {"lookup", "create"}
        /\ \A q \in Requests \ {r} : req'[q] = req[q]
    BY ReceivesService
  <1>. SUFFICES ASSUME NEW q \in Requests, Replaced(q)', q \notin told
                PROVE  \/ Announcing(req[q].user)'
                       \/ channel'[Home[q]][req'[q].user] > 0
                       \/ HeldByRegistration(req[q].user)'
    BY DEF ToldOrToCome
  <1>2. q # r /\ req'[q] = req[q] /\ Replaced(q)
    BY <1>1 DEF Replaced
  <1>3. CASE Announcing(req[q].user)
    BY <1>1, <1>2, <1>3 DEF Announcing
  <1>4. CASE HeldByRegistration(req[q].user)
    <2>1. PICK p \in Requests : /\ userSession[req[q].user] = p
                                /\ req[p].kind = "register" /\ req[p].hadOld
      BY <1>4 DEF HeldByRegistration
    <2>2. p # r
      BY <1>1, <1>2, <2>1, HolderCalls, ReplacedIsUser
    <2>. QED  BY <1>1, <1>2, <2>1, <2>2 DEF HeldByRegistration
  <1>. QED  BY <1>1, <1>2, <1>3, <1>4 DEF ToldOrToCome

\* A call moves on: a login that has replaced a session publishes.
LEMMA MovesTell ==
  ASSUME ServiceInv, ToldOrToCome, told' = told,
         NEW r \in Requests, Moves(r), InOrder(r)
  PROVE  ToldOrToCome'
  <1>. SUFFICES ASSUME NEW q \in Requests, Replaced(q)', q \notin told
                PROVE  \/ Announcing(req[q].user)'
                       \/ channel'[Home[q]][req'[q].user] > 0
                       \/ HeldByRegistration(req[q].user)'
    BY DEF ToldOrToCome
  <1>. DEFINE u == req[q].user
  <1>1. Replaced(q) /\ req'[q].user = u
    BY DEF Replaced, Moves
  <1>2. u \in Users /\ Home[q] \in Gateways /\ req[r].user \in Users
    BY <1>1, ReplacedIsUser DEF ServiceInv, UserInv, CallsHaveAccounts, Moves
  <1>3. channel[Home[q]][u] > 0 => channel'[Home[q]][u] > 0
    <2>1. channel \in [Gateways -> [Users -> Nat]]
      BY DEF ServiceInv, UserInv, TypeOK
    <2>2. CASE Published(req[r].user)
      <3>1. \A g \in Gateways :
               /\ channel'[g][req[r].user] > 0
               /\ \A v \in Users \ {req[r].user} : channel'[g][v] = channel[g][v]
        BY <1>2, <2>1, <2>2, PublishedType
      <3>. QED  BY <1>2, <3>1
    <2>. QED  BY <2>2 DEF Moves
  <1>4. CASE Announcing(u)
    <2>1. PICK p \in Requests :
            /\ req[p].user = u /\ req[p].kind = "login" /\ req[p].hadOld
            /\ req[p].at \in {"issued", "publish"}
      BY <1>4 DEF Announcing
    <2>2. CASE p # r \/ req[p].at = "issued"
      BY <1>1, <2>1, <2>2 DEF Announcing, Moves, InOrder
    <2>3. CASE p = r /\ req[p].at = "publish"
      <3>1. Published(u)
        BY <2>1, <2>3 DEF InOrder
      <3>. QED
        BY <1>1, <1>2, <3>1, PublishedType DEF ServiceInv, UserInv, TypeOK
    <2>. QED  BY <2>1, <2>2, <2>3
  <1>5. CASE HeldByRegistration(u)
    <2>1. HeldByRegistration(u)'
      BY <1>1, <1>5 DEF HeldByRegistration, Moves
    <2>. QED  BY <1>1, <2>1
  <1>. QED  BY <1>1, <1>3, <1>4, <1>5 DEF ToldOrToCome

\* The script runs: whose session it takes away is the business of the call.
LEMMA IssueTells ==
  ASSUME ServiceInv, ToldOrToCome, told' = told, NEW r \in Requests, IssueSession(r)
  PROVE  ToldOrToCome'
  <1>. DEFINE u == req[r].user
  <1>1. /\ req[r].at = "issue" /\ u \in Users /\ channel' = channel
        /\ userSession' = [userSession EXCEPT ![u] = r]
        /\ tokenOwner'[r] = u
        /\ \A t \in Requests \ {r} :
              tokenOwner'[t] = IF tokenOwner[t] = u THEN NoUser ELSE tokenOwner[t]
        /\ req'[r].at = "issued" /\ req'[r].user = u /\ req'[r].kind = req[r].kind
        /\ req'[r].hadOld = (userSession[u] # NoToken)
        /\ \A q \in Requests \ {r} : req'[q] = req[q]
    BY Issues
  <1>2. /\ userSession \in [Users -> Requests \cup {NoToken}]
        /\ req[r].kind \in {"login", "register"}
    BY DEF ServiceInv, UserInv, TypeOK, Call, Kinds
  <1>3. ASSUME userSession[u] # NoToken
        PROVE  Announcing(u)' \/ HeldByRegistration(u)'
    BY <1>1, <1>2, <1>3 DEF Announcing, HeldByRegistration
  <1>. SUFFICES ASSUME NEW q \in Requests, Replaced(q)', q \notin told
                PROVE  \/ Announcing(req[q].user)'
                       \/ channel'[Home[q]][req'[q].user] > 0
                       \/ HeldByRegistration(req[q].user)'
    BY DEF ToldOrToCome
  <1>4. q # r /\ req'[q] = req[q]
    BY <1>1, UserServiceAssumption DEF Replaced
  <1>. DEFINE v == req[q].user
  <1>5. CASE tokenOwner[q] = u
    <2>1. v = u /\ userSession[u] # NoToken
      BY <1>1, <1>5, UserServiceAssumption
      DEF ServiceInv, UserInv, TokensOfCaller, KeysMirror
    <2>. QED  BY <1>1, <1>3, <1>4, <2>1 DEF Announcing, HeldByRegistration
  <1>6. CASE tokenOwner[q] # u
    <2>1. Replaced(q)
      BY <1>1, <1>4, <1>6 DEF Replaced
    <2>2. CASE Announcing(v)
      <3>1. Announcing(v)'
        BY <1>1, <2>2 DEF Announcing
      <3>. QED  BY <1>4, <3>1
    <2>3. CASE channel[Home[q]][v] > 0
      BY <1>1, <1>4, <2>3
    <2>4. CASE HeldByRegistration(v)
      <3>1. PICK p \in Requests : /\ userSession[v] = p
                                  /\ req[p].kind = "register" /\ req[p].hadOld
        BY <2>4 DEF HeldByRegistration
      <3>2. CASE v = u
        <4>1. userSession[u] # NoToken
          BY <3>1, <3>2, UserServiceAssumption
        <4>. QED
          BY <1>1, <1>3, <1>4, <3>2, <4>1 DEF Announcing, HeldByRegistration
      <3>3. CASE v # u
        <4>1. p # r /\ v \in Users
          BY <2>1, <3>1, <3>3, HolderCalls, ReplacedIsUser
        <4>2. userSession'[v] = p /\ req'[p] = req[p]
          BY <1>1, <1>2, <3>1, <3>3, <4>1
        <4>3. HeldByRegistration(v)'
          BY <1>4, <3>1, <4>2 DEF HeldByRegistration
        <4>. QED  BY <1>4, <4>3
      <3>. QED  BY <3>2, <3>3
    <2>. QED  BY <2>1, <2>2, <2>3, <2>4 DEF ToldOrToCome
  <1>. QED  BY <1>5, <1>6

\* A message is handled: who was replaced before is told.
LEMMA HandleTells ==
  ASSUME ServiceInv, ToldOrToCome,
         NEW g \in Gateways, NEW u \in Users, HandleInvalidation(g, u)
  PROVE  ToldOrToCome'
  <1>1. /\ UNCHANGED <<userSession, tokenOwner, req>>
        /\ told' = told \cup {r \in Requests :
                                Home[r] = g /\ req[r].user = u /\ Replaced(r)}
        /\ \A h \in Gateways, v \in Users :
              h # g \/ v # u => channel'[h][v] = channel[h][v]
    BY TakenType DEF HandleInvalidation, ServiceInv, UserInv, TypeOK
  <1>. SUFFICES ASSUME NEW q \in Requests, Replaced(q)', q \notin told'
                PROVE  \/ Announcing(req[q].user)'
                       \/ channel'[Home[q]][req'[q].user] > 0
                       \/ HeldByRegistration(req[q].user)'
    BY DEF ToldOrToCome
  <1>2. Replaced(q) /\ q \notin told /\ ~(Home[q] = g /\ req[q].user = u)
    BY <1>1 DEF Replaced
  <1>3. channel'[Home[q]][req[q].user] = channel[Home[q]][req[q].user]
    BY <1>1, <1>2, ReplacedIsUser
  <1>4. /\ Announcing(req[q].user)' <=> Announcing(req[q].user)
        /\ HeldByRegistration(req[q].user)' <=> HeldByRegistration(req[q].user)
    BY <1>1 DEF Announcing, HeldByRegistration
  <1>. QED  BY <1>1, <1>2, <1>3, <1>4 DEF ToldOrToCome

\* Every step, without a fault.
LEMMA NextTells ==
  ASSUME ServiceInv, ServiceInv', TakeoverTypeOK, ToldOrToCome, NoFault, NoFault',
         [TakeoverNext]_takeoverVars
  PROVE  ToldOrToCome'
  <1>1. /\ faults' = faults /\ expiries' = expiries
        /\ faults \in Nat /\ expiries \in Nat
    BY DEF NoFault, ServiceInv, UserInv, TypeOK
  <1>2. ASSUME UNCHANGED <<serviceVars, told>>
        PROVE  ToldOrToCome'
    BY <1>2 DEF ToldOrToCome, Replaced, Announcing, HeldByRegistration, serviceVars
  <1>3. CASE \E r \in Requests, k \in Kinds, u \in Users : CallService(r, k, u)
    BY <1>3, CallTells DEF CallService, gatewayVars
  <1>4. CASE \E r \in Requests : LoggedIn(r) \/ Refused(r) \/ Leave(r)
    BY <1>2, <1>4 DEF LoggedIn, Refused, Leave
  <1>5. CASE ServiceStep
    <2>1. told' = told
      BY <1>5 DEF ServiceStep, gatewayVars
    <2>2. ASSUME NEW r \in Requests, Step(r)
          PROVE  ToldOrToCome'
      <3>1. CASE IssueSession(r)
        BY <2>1, <3>1, IssueTells
      <3>2. CASE ~IssueSession(r)
        BY <1>1, <2>1, <2>2, <3>2, CallMoves, MovesTell
      <3>. QED  BY <3>1, <3>2
    <2>3. \A u \in Users : ~Expire(u)
      BY <1>1 DEF Expire
    <2>. QED  BY <1>5, <2>2, <2>3 DEF ServiceStep
  <1>6. CASE \E g \in Gateways, u \in Users :
               HandleInvalidation(g, u) \/ LoseInvalidation(g, u)
    <2>1. \A g \in Gateways, u \in Users : ~LoseInvalidation(g, u)
      BY <1>1 DEF LoseInvalidation, Fault
    <2>. QED  BY <1>6, <2>1, HandleTells
  <1>7. CASE UNCHANGED takeoverVars
    BY <1>2, <1>7 DEF takeoverVars, gatewayVars
  <1>. QED  BY <1>3, <1>4, <1>5, <1>6, <1>7 DEF TakeoverNext

\* Failures and expirations are never gained.
LEMMA NextSpends ==
  ASSUME ServiceInv, [TakeoverNext]_takeoverVars
  PROVE  faults' <= faults /\ expiries' <= expiries
  <1>1. faults \in Nat /\ expiries \in Nat
    BY DEF ServiceInv, UserInv, TypeOK
  <1>2. ASSUME UNCHANGED serviceVars
        PROVE  faults' <= faults /\ expiries' <= expiries
    BY <1>1, <1>2 DEF serviceVars
  <1>3. ASSUME NEW r \in Requests, Step(r)
        PROVE  faults' <= faults /\ expiries' <= expiries
    <2>1. CASE IssueSession(r)
      BY <1>1, <2>1 DEF IssueSession
    <2>2. CASE ~IssueSession(r)
      BY <1>1, <1>3, <2>2, CallMoves DEF Moves
    <2>. QED  BY <2>1, <2>2
  <1>4. ASSUME NEW u \in Users, Expire(u)
        PROVE  faults' <= faults /\ expiries' <= expiries
    BY <1>1, <1>4 DEF Expire
  <1>5. CASE \E r \in Requests, k \in Kinds, u \in Users : CallService(r, k, u)
    BY <1>1, <1>5 DEF CallService, Receive
  <1>6. CASE \E r \in Requests : LoggedIn(r) \/ Refused(r) \/ Leave(r)
    BY <1>2, <1>6 DEF LoggedIn, Refused, Leave
  <1>7. CASE \E g \in Gateways, u \in Users :
               HandleInvalidation(g, u) \/ LoseInvalidation(g, u)
    BY <1>1, <1>7 DEF HandleInvalidation, LoseInvalidation, Fault
  <1>8. CASE UNCHANGED takeoverVars
    BY <1>2, <1>8 DEF takeoverVars
  <1>. QED  BY <1>3, <1>4, <1>5, <1>6, <1>7, <1>8 DEF TakeoverNext, ServiceStep

\* Every gateway with a connection whose session was replaced handles an
\* invalidation for its user afterwards: for any number of gateways, connections
\* and concurrent calls, whenever messages are handled and answers arrive.
THEOREM ReplacedHearOfIt == TakeoverSpec => []ReplacedAreTold
  <1>1. TakeoverInit => TInv
    BY InitTakeover DEF TInv, TakeoverInit, Init, ToldOrToCome, Replaced
  <1>2. TInv /\ [TakeoverNext]_takeoverVars => TInv'
    BY NextKeepsTypes, NextSpends, NoFaultBefore, NextTells DEF TInv
  <1>3. TInv => ReplacedAreTold
    <2>. SUFFICES ASSUME TInv, NoFault,
                         NEW u \in Users, Quiet(u), ~HeldByRegistration(u),
                         NEW r \in Requests, req[r].user = u, Replaced(r)
                  PROVE  r \in told
      BY DEF ReplacedAreTold
    <2>1. ~Announcing(u)
      BY DEF Quiet, Settled, Announcing
    <2>2. ~(channel[Home[r]][u] > 0)
      BY ReplacedIsUser DEF Quiet, TInv
    <2>. QED  BY <2>1, <2>2 DEF TInv, ToldOrToCome
  <1>. QED  BY <1>1, <1>2, <1>3, PTL DEF TakeoverSpec

-----------------------------------------------------------------------------
(***************************************************************************)
(* The code as it is: the ingress writes "userId".                         *)
(***************************************************************************)
Unmapped == \A g \in Gateways, u \in Users : userConn[g][u] = NoConn

\* As the ingress encodes replies today (protojson), RegisterUserConnection is
\* never called on any gateway: the invalidation channel never kicks anybody.
THEOREM NobodyIsMapped ==
  ASSUME ReplyField = "userId"
  PROVE  TakeoverSpec => []Unmapped
  <1>1. TakeoverInit => ServiceInv /\ TakeoverTypeOK /\ Unmapped
    BY InitTakeover DEF TakeoverInit, Unmapped
  <1>2. ServiceInv /\ TakeoverTypeOK /\ Unmapped /\ [TakeoverNext]_takeoverVars
          => ServiceInv' /\ TakeoverTypeOK' /\ Unmapped'
    <2>. SUFFICES ASSUME ServiceInv, TakeoverTypeOK, Unmapped, [TakeoverNext]_takeoverVars
                  PROVE  Unmapped'
      BY NextKeepsTypes
    <2>1. userConn \in [Gateways -> [Users -> Requests \cup {NoConn}]]
      BY DEF TakeoverTypeOK
    <2>2. ASSUME NEW r \in Requests, LoggedIn(r)
          PROVE  UNCHANGED userConn
      <3>1. req[r].user \in Users
        BY <2>2 DEF LoggedIn, ServiceInv, UserInv, CallsHaveAccounts
      <3>2. ExtractUserID(EncodedReply(req[r].user)) = NoUser
        BY <3>1, Extracted
      <3>. QED  BY <2>2, <3>2 DEF LoggedIn
    <2>3. ASSUME NEW r \in Requests, Leave(r)
          PROVE  Unmapped'
      BY <2>1, <2>3 DEF Leave, Unmapped
    <2>4. ASSUME NEW g \in Gateways, NEW u \in Users, HandleInvalidation(g, u)
          PROVE  Unmapped'
      BY <2>1, <2>4 DEF HandleInvalidation, Unmapped
    <2>5. ASSUME UNCHANGED userConn
          PROVE  Unmapped'
      BY <2>5 DEF Unmapped
    <2>6. CASE UNCHANGED takeoverVars
      BY <2>5, <2>6 DEF takeoverVars, gatewayVars
    <2>7. CASE TakeoverNext
      <3>1. CASE ServiceStep \/ \E r \in Requests, k \in Kinds, u \in Users : CallService(r, k, u)
        BY <2>5, <3>1 DEF ServiceStep, CallService, gatewayVars
      <3>2. CASE \E r \in Requests : LoggedIn(r) \/ Refused(r) \/ Leave(r)
        BY <2>2, <2>3, <2>5, <3>2 DEF Refused
      <3>3. CASE \E g \in Gateways, u \in Users :
                   HandleInvalidation(g, u) \/ LoseInvalidation(g, u)
        BY <2>4, <2>5, <3>3 DEF LoseInvalidation, gatewayVars
      <3>. QED  BY <2>7, <3>1, <3>2, <3>3 DEF TakeoverNext
    <2>. QED  BY <2>6, <2>7
  <1>. QED  BY <1>1, <1>2, PTL DEF TakeoverSpec

=============================================================================
