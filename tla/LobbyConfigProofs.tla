------------------------- MODULE LobbyConfigProofs --------------------------
(***************************************************************************)
(* Theorems of module LobbyConfig, for any configurations, any number of   *)
(* runs of the tool and any number of faults.                              *)
(***************************************************************************)
EXTENDS LobbyConfig, SequenceTheorems, TLAPS

\* What is served is in the table.
ServedIsWritten ==
    \A n \in Names :
        snapshot[n] # 0 => \E row \in rows : row.name = n /\ row.rev = snapshot[n]

\* So is what is about to be published,
PublishedIsWritten ==
    \A t \in Tools : tools[t].pc = "publish" => tools[t].row \in rows

\* and what a message announces, on its way or being worked for.
Announced(m) ==
    m.rev # 0 => \E row \in rows : row.name = m.name /\ row.rev = m.rev

MessagesAreWritten ==
    /\ \A i \in 1..Len(channel) : Announced(channel[i])
    /\ \A m \in asked : Announced(m)

\* The row LoadOne holds is as new as what is served and what was announced.
FoundIsNewer ==
    \A row \in found :
        /\ row \in rows
        /\ snapshot[row.name] <= row.rev
        /\ \A m \in asked : m.rev <= row.rev

\* The inductive invariant.
IInv ==
    /\ TypeOK
    /\ ServedIsWritten
    /\ PublishedIsWritten
    /\ MessagesAreWritten
    /\ FoundIsNewer

USE NamesAssumption, RevisionsAssumption
USE DEF lobby, Rows, Messages, Revisions, RegisteredNames

-----------------------------------------------------------------------------
\* It holds when the lobby starts for the first time.
LEMMA InitInv == Init => IInv
  <1>. SUFFICES ASSUME Init PROVE IInv
    OBVIOUS
  <1>1. TypeOK
    <2>1. tools \in [Tools -> [pc : {"start", "write", "publish", "exited", "failed"},
                              row : Rows]]
      BY DEF Init
    <2>2. channel \in Seq(Messages) /\ todo \in Seq(Names)
      BY EmptySeq DEF Init
    <2>3. snapshot \in [Names -> 0..MaxRev] /\ faults \in 0..MaxFaults
      BY DEF Init
    <2>. QED  BY <2>1, <2>2, <2>3 DEF Init, TypeOK
  <1>2. ServedIsWritten /\ PublishedIsWritten /\ MessagesAreWritten /\ FoundIsNewer
    BY EmptySeq DEF Init, ServedIsWritten, PublishedIsWritten, MessagesAreWritten, FoundIsNewer
  <1>. QED  BY <1>1, <1>2 DEF IInv

\* A fault uses up one of those that may happen.
LEMMA FaultType == TypeOK /\ Fault => faults' \in 0..MaxFaults
  BY DEF TypeOK, Fault

\* A run of the tool that moves on.
LEMMA ToolType ==
  ASSUME TypeOK, NEW t \in Tools, NEW from,
         NEW to \in {"start", "write", "publish", "exited", "failed"},
         ToolAt(t, from, to)
  PROVE  /\ tools' \in [Tools -> [pc : {"start", "write", "publish", "exited", "failed"},
                                  row : Rows]]
         /\ tools[t].pc = from /\ tools'[t].pc = to /\ tools'[t].row = tools[t].row
         /\ \A u \in Tools \ {t} : tools'[u] = tools[u]
         /\ tools[t].row \in Rows
  BY DEF TypeOK, ToolAt

\* A step of a run that inserts nothing and sends nothing.
LEMMA ToolMovesOn ==
  ASSUME IInv, NEW t \in Tools, NEW from, NEW to \in {"write", "exited", "failed"},
         ToolAt(t, from, to),
         UNCHANGED <<rows, channel, subscribed, lobby>>,
         missed' \subseteq Names, faults' \in 0..MaxFaults
  PROVE  IInv'
  <1>1. /\ tools' \in [Tools -> [pc : {"start", "write", "publish", "exited", "failed"},
                                 row : Rows]]
        /\ tools'[t].pc = to
        /\ \A u \in Tools \ {t} : tools'[u] = tools[u]
    BY ToolType DEF IInv
  <1>2. TypeOK'
    BY <1>1 DEF IInv, TypeOK
  <1>3. PublishedIsWritten'
    BY <1>1 DEF IInv, PublishedIsWritten
  <1>4. ServedIsWritten' /\ MessagesAreWritten' /\ FoundIsNewer'
    BY DEF IInv, ServedIsWritten, MessagesAreWritten, Announced, FoundIsNewer
  <1>. QED  BY <1>2, <1>3, <1>4 DEF IInv

\* The insertion, answered or not: rows only grow.
LEMMA RowAppears ==
  ASSUME IInv, NEW t \in Tools, NEW to \in {"publish", "failed"},
         ToolAt(t, "write", to),
         rows' = rows \union {tools[t].row},
         UNCHANGED <<channel, subscribed, lobby>>,
         missed' \subseteq Names, faults' \in 0..MaxFaults
  PROVE  IInv'
  <1>1. /\ tools' \in [Tools -> [pc : {"start", "write", "publish", "exited", "failed"},
                                 row : Rows]]
        /\ tools'[t].pc = to /\ tools'[t].row = tools[t].row
        /\ \A u \in Tools \ {t} : tools'[u] = tools[u]
        /\ tools[t].row \in Rows
    BY ToolType DEF IInv
  <1>2. TypeOK'
    BY <1>1 DEF IInv, TypeOK
  <1>3. PublishedIsWritten'
    BY <1>1 DEF IInv, PublishedIsWritten
  <1>4. ServedIsWritten' /\ MessagesAreWritten' /\ FoundIsNewer'
    BY DEF IInv, ServedIsWritten, MessagesAreWritten, Announced, FoundIsNewer
  <1>. QED  BY <1>2, <1>3, <1>4 DEF IInv

\* The message names a row that is there.
LEMMA PublishInv ==
  ASSUME IInv, NEW t \in Tools, Publish(t)
  PROVE  IInv'
  <1>. DEFINE row == tools[t].row
              m == [name |-> row.name, rev |-> row.rev]
  <1>1. /\ tools' \in [Tools -> [pc : {"start", "write", "publish", "exited", "failed"},
                                 row : Rows]]
        /\ tools[t].pc = "publish" /\ tools'[t].pc = "exited"
        /\ \A u \in Tools \ {t} : tools'[u] = tools[u]
        /\ row \in Rows
    BY ToolType DEF IInv, Publish
  <1>2. m \in Messages /\ row \in rows /\ Announced(m)
    <2>1. row \in rows
      BY <1>1 DEF IInv, PublishedIsWritten
    <2>2. row.name \in Names /\ row.rev \in 0..MaxRev
      BY <1>1
    <2>3. m \in Messages /\ m.name = row.name /\ m.rev = row.rev
      BY <2>2
    <2>. QED  BY <2>1, <2>3 DEF Announced
  <1>3. \/ channel' = channel /\ missed' \subseteq Names
        \/ subscribed /\ channel' = Append(channel, m) /\ missed' = missed
    BY <1>1 DEF Publish, Deliver, IInv, TypeOK
  <1>4. channel' \in Seq(Messages) /\ \A i \in 1..Len(channel') : Announced(channel'[i])
    <2>1. channel \in Seq(Messages) /\ \A i \in 1..Len(channel) : Announced(channel[i])
      BY DEF IInv, TypeOK, MessagesAreWritten
    <2>2. CASE channel' = Append(channel, m)
      BY <1>2, <2>1, <2>2, AppendProperties, LenProperties
    <2>. QED  BY <1>3, <2>1, <2>2
  <1>5. TypeOK'
    BY <1>1, <1>3, <1>4 DEF IInv, TypeOK, Publish
  <1>6. PublishedIsWritten'
    BY <1>1 DEF IInv, PublishedIsWritten, Publish
  <1>7. ServedIsWritten' /\ MessagesAreWritten' /\ FoundIsNewer'
    BY <1>4 DEF IInv, ServedIsWritten, MessagesAreWritten, Announced, FoundIsNewer, Publish
  <1>. QED  BY <1>5, <1>6, <1>7 DEF IInv

\* Every step of a run of the tool.
LEMMA ToolInv ==
  ASSUME IInv, NEW t \in Tools, Tool(t)
  PROVE  IInv'
  <1>0. tools[t].row.name \in Names /\ missed \subseteq Names /\ faults \in 0..MaxFaults
    BY DEF IInv, TypeOK
  <1>1. CASE Prepare(t)
    BY <1>0, <1>1, ToolMovesOn DEF Prepare
  <1>2. CASE Write(t)
    BY <1>0, <1>2, RowAppears DEF Write
  <1>3. CASE WriteFails(t)
    BY <1>0, <1>3, FaultType, ToolMovesOn DEF WriteFails, IInv
  <1>4. CASE WriteUnanswered(t)
    BY <1>0, <1>4, FaultType, RowAppears DEF WriteUnanswered, IInv
  <1>5. CASE Publish(t)
    BY <1>5, PublishInv
  <1>6. CASE PublishFails(t)
    BY <1>0, <1>6, FaultType, ToolMovesOn DEF PublishFails, IInv
  <1>. QED  BY <1>1, <1>2, <1>3, <1>4, <1>5, <1>6 DEF Tool

-----------------------------------------------------------------------------
\* What is served is in the table, so the newest row is not older; nor is it
\* older than what was announced.
LEMMA QueryInv == IInv /\ Query => IInv'
  <1>. SUFFICES ASSUME IInv, Query PROVE IInv'
    OBVIOUS
  <1>1. PICK m \in asked, row \in rows :
            /\ row.name = m.name /\ Newest(row)
            /\ found' = {row} /\ missed' = missed \ {m.name}
    BY DEF Query
  <1>2. row \in Rows /\ m \in Messages
    BY DEF IInv, TypeOK
  <1>3. TypeOK'
    BY <1>1, <1>2 DEF IInv, TypeOK, Query
  <1>4. FoundIsNewer'
    <2>0. /\ row.name \in Names /\ row.rev \in 1..MaxRev
          /\ snapshot[row.name] \in 0..MaxRev /\ m.rev \in 0..MaxRev
      BY <1>2 DEF IInv, TypeOK
    <2>1. snapshot[row.name] <= row.rev
      <3>1. CASE snapshot[row.name] = 0
        BY <2>0, <3>1
      <3>2. CASE snapshot[row.name] # 0
        BY <1>1, <2>0, <3>2 DEF IInv, ServedIsWritten, Newest
      <3>. QED  BY <3>1, <3>2
    <2>2. \A q \in asked : q.rev <= row.rev
      <3>1. \A q \in asked : q = m
        BY DEF IInv, TypeOK
      <3>2. CASE m.rev = 0
        BY <2>0, <3>1, <3>2
      <3>3. CASE m.rev # 0
        BY <1>1, <3>1, <3>3 DEF IInv, MessagesAreWritten, Announced, Newest
      <3>. QED  BY <3>2, <3>3
    <2>. QED  BY <1>1, <2>1, <2>2 DEF FoundIsNewer, Query
  <1>5. ServedIsWritten' /\ PublishedIsWritten' /\ MessagesAreWritten'
    BY DEF IInv, ServedIsWritten, PublishedIsWritten, MessagesAreWritten, Announced, Query
  <1>. QED  BY <1>3, <1>4, <1>5 DEF IInv

\* LoadOne gives up.
LEMMA GivesUpInv == IInv /\ (QueryFails \/ ParseFails) => IInv'
  <1>. SUFFICES ASSUME IInv, QueryFails \/ ParseFails PROVE IInv'
    OBVIOUS
  <1>1. /\ asked' = {} /\ found' = {} /\ faults' \in 0..MaxFaults
        /\ missed' \subseteq Names
        /\ UNCHANGED <<rows, tools, channel, subscribed, pc, todo, snapshot>>
    BY FaultType DEF IInv, TypeOK, QueryFails, ParseFails, Loaded
  <1>2. TypeOK'
    BY <1>1 DEF IInv, TypeOK
  <1>3. ServedIsWritten' /\ PublishedIsWritten' /\ MessagesAreWritten' /\ FoundIsNewer'
    BY <1>1 DEF IInv, ServedIsWritten, PublishedIsWritten, MessagesAreWritten,
                Announced, FoundIsNewer
  <1>. QED  BY <1>2, <1>3 DEF IInv

LEMMA UpdateInv == IInv /\ Update => IInv'
  <1>. SUFFICES ASSUME IInv, Update PROVE IInv'
    OBVIOUS
  <1>1. PICK row \in found : snapshot' = [snapshot EXCEPT ![row.name] = row.rev]
    BY DEF Update
  <1>2. row \in Rows /\ row \in rows
    BY DEF IInv, TypeOK, FoundIsNewer
  <1>3. TypeOK'
    BY <1>1, <1>2 DEF IInv, TypeOK, Update, Loaded
  <1>4. ServedIsWritten'
    BY <1>1, <1>2 DEF IInv, TypeOK, ServedIsWritten, Update
  <1>5. PublishedIsWritten' /\ MessagesAreWritten' /\ FoundIsNewer'
    BY DEF IInv, PublishedIsWritten, MessagesAreWritten, Announced, FoundIsNewer,
           Update, Loaded
  <1>. QED  BY <1>3, <1>4, <1>5 DEF IInv

-----------------------------------------------------------------------------
\* LoadAll asks for no revision in particular.
LEMMA LoadNextInv == IInv /\ LoadNext => IInv'
  <1>. SUFFICES ASSUME IInv, LoadNext PROVE IInv'
    OBVIOUS
  <1>1. found = {}
    BY DEF IInv, TypeOK, LoadNext
  <1>2. Head(todo) \in Names /\ Tail(todo) \in Seq(Names)
    BY DEF IInv, TypeOK, LoadNext
  <1>3. TypeOK'
    BY <1>1, <1>2 DEF IInv, TypeOK, LoadNext
  <1>4. ServedIsWritten' /\ PublishedIsWritten' /\ MessagesAreWritten' /\ FoundIsNewer'
    BY <1>1 DEF IInv, ServedIsWritten, PublishedIsWritten, MessagesAreWritten,
                Announced, FoundIsNewer, LoadNext
  <1>. QED  BY <1>3, <1>4 DEF IInv

LEMMA ReceiveInv == IInv /\ Receive => IInv'
  <1>. SUFFICES ASSUME IInv, Receive PROVE IInv'
    OBVIOUS
  <1>1. found = {}
    BY DEF IInv, TypeOK, Receive
  <1>2. /\ Head(channel) \in Messages /\ Tail(channel) \in Seq(Messages)
        /\ Head(channel) = channel[1] /\ 1 \in 1..Len(channel)
        /\ \A i \in 1..Len(Tail(channel)) :
                i + 1 \in 1..Len(channel) /\ Tail(channel)[i] = channel[i + 1]
    <2>1. channel \in Seq(Messages) /\ channel # <<>>
      BY DEF IInv, TypeOK, Receive
    <2>2. Len(channel) \in Nat \ {0}
      BY <2>1, EmptySeq
    <2>3. Head(channel) = channel[1] /\ 1 \in 1..Len(channel)
      BY <2>1, <2>2
    <2>4. /\ Head(channel) \in Messages /\ Tail(channel) \in Seq(Messages)
          /\ Len(Tail(channel)) = Len(channel) - 1
          /\ \A i \in 1..Len(Tail(channel)) : Tail(channel)[i] = channel[i + 1]
      BY <2>1, HeadTailProperties
    <2>. QED  BY <2>2, <2>3, <2>4
  <1>3. TypeOK'
    BY <1>1, <1>2 DEF IInv, TypeOK, Receive
  <1>4. MessagesAreWritten'
    <2>1. /\ channel' = Tail(channel) /\ asked' = {Head(channel)}
          /\ rows' = rows
      BY DEF Receive
    <2>2. \A i \in 1..Len(channel) : Announced(channel[i])
      BY DEF IInv, MessagesAreWritten
    <2>3. \A i \in 1..Len(channel') : Announced(channel'[i])
      BY <1>2, <2>1, <2>2
    <2>4. \A m \in asked' : Announced(m)
      BY <1>2, <2>1, <2>2
    <2>. QED  BY <2>1, <2>3, <2>4 DEF MessagesAreWritten, Announced
  <1>5. ServedIsWritten' /\ PublishedIsWritten' /\ FoundIsNewer'
    BY <1>1 DEF IInv, ServedIsWritten, PublishedIsWritten, FoundIsNewer, Receive
  <1>. QED  BY <1>3, <1>4, <1>5 DEF IInv

\* What is left of the channel was in it.
LEMMA LoseType ==
  ASSUME IInv, NEW kept \in 0..Len(channel), Lose(kept)
  PROVE  /\ channel' \in Seq(Messages) /\ subscribed' = FALSE
         /\ \A i \in 1..Len(channel') : i \in 1..Len(channel) /\ channel'[i] = channel[i]
         /\ missed' \subseteq Names
  <1>1. /\ channel \in Seq(Messages) /\ Len(channel) \in Nat
        /\ \A i \in 1..Len(channel) : channel[i] \in Messages
    BY LenProperties, ElementOfSeq DEF IInv, TypeOK
  <1>2. channel' = SubSeq(channel, 1, kept) /\ kept \in Nat
    BY <1>1 DEF Lose
  <1>3. /\ SubSeq(channel, 1, kept) \in Seq(Messages)
        /\ Len(SubSeq(channel, 1, kept)) = kept
        /\ \A i \in 1..kept : SubSeq(channel, 1, kept)[i] = channel[i]
    <2>1. \A i \in 1..kept : channel[i] \in Messages
      BY <1>1, <1>2
    <2>2. /\ SubSeq(channel, 1, kept) \in Seq(Messages)
          /\ Len(SubSeq(channel, 1, kept)) = IF 1 <= kept THEN kept - 1 + 1 ELSE 0
          /\ \A i \in 1..kept - 1 + 1 : SubSeq(channel, 1, kept)[i] = channel[1 + i - 1]
      BY <1>2, <2>1, SubSeqProperties
    <2>. QED  BY <1>2, <2>2
  <1>4. \A i \in kept + 1..Len(channel) : channel[i].name \in Names
    <2>. SUFFICES ASSUME NEW i \in kept + 1..Len(channel) PROVE channel[i].name \in Names
      OBVIOUS
    <2>1. i \in 1..Len(channel)
      BY <1>1, <1>2
    <2>. QED  BY <1>1, <2>1
  <1>5. missed' \subseteq Names
    BY <1>4 DEF IInv, TypeOK, Lose
  <1>. QED  BY <1>1, <1>2, <1>3, <1>5 DEF Lose

LEMMA DisconnectInv == IInv /\ Disconnect => IInv'
  <1>. SUFFICES ASSUME IInv, Disconnect PROVE IInv'
    OBVIOUS
  <1>1. PICK kept \in 0..Len(channel) : Lose(kept)
    BY DEF Disconnect
  <1>0. /\ channel' \in Seq(Messages) /\ subscribed' = FALSE
        /\ \A i \in 1..Len(channel') : i \in 1..Len(channel) /\ channel'[i] = channel[i]
        /\ missed' \subseteq Names /\ faults' \in 0..MaxFaults
    BY <1>1, LoseType, FaultType DEF Disconnect, IInv
  <1>2. TypeOK'
    BY <1>0 DEF IInv, TypeOK, Disconnect
  <1>3. ServedIsWritten' /\ PublishedIsWritten' /\ MessagesAreWritten' /\ FoundIsNewer'
    <2>1. UNCHANGED <<rows, tools, asked, found, snapshot>>
      BY DEF Disconnect
    <2>2. ServedIsWritten' /\ PublishedIsWritten' /\ FoundIsNewer'
      BY <2>1 DEF IInv, ServedIsWritten, PublishedIsWritten, FoundIsNewer
    <2>3. MessagesAreWritten'
      BY <1>0, <2>1 DEF IInv, MessagesAreWritten, Announced
    <2>. QED  BY <2>2, <2>3
  <1>. QED  BY <1>2, <1>3 DEF IInv

LEMMA RestartInv == IInv /\ Restart => IInv'
  <1>. SUFFICES ASSUME IInv, Restart PROVE IInv'
    OBVIOUS
  <1>1. Lose(0) /\ 0 \in 0..Len(channel)
    BY LenProperties DEF IInv, TypeOK, Restart
  <1>0. /\ channel' \in Seq(Messages) /\ subscribed' = FALSE
        /\ \A i \in 1..Len(channel') : i \in 1..Len(channel) /\ channel'[i] = channel[i]
        /\ missed' \subseteq Names /\ faults' \in 0..MaxFaults
    BY <1>1, LoseType, FaultType DEF Restart, IInv
  <1>2. TypeOK'
    <2>1. /\ pc' = "loadAll" /\ todo' = Registered /\ asked' = {} /\ found' = {}
          /\ snapshot' = [n \in Names |-> 0]
          /\ UNCHANGED <<rows, tools>>
      BY DEF Restart, Boot, Loaded
    <2>2. snapshot' \in [Names -> 0..MaxRev] /\ todo' \in Seq(Names)
      BY <2>1
    <2>3. rows' \subseteq Rows
      BY <2>1 DEF IInv, TypeOK
    <2>4. tools' \in [Tools -> [pc : {"start", "write", "publish", "exited", "failed"},
                               row : Rows]]
      BY <2>1 DEF IInv, TypeOK
    <2>. QED  BY <1>0, <2>1, <2>2, <2>3, <2>4 DEF TypeOK
  <1>3. ServedIsWritten' /\ PublishedIsWritten' /\ MessagesAreWritten' /\ FoundIsNewer'
    BY <1>0 DEF IInv, ServedIsWritten, PublishedIsWritten,
          MessagesAreWritten, Announced, FoundIsNewer, Restart, Boot, Loaded
  <1>. QED  BY <1>2, <1>3 DEF IInv

\* The steps that only move the lobby from one place to the next.
LEMMA MovesOnInv ==
  IInv /\ (LoadAllReturns \/ Subscribe \/ SubscribeFails \/ Reconnect) => IInv'
  <1>. SUFFICES ASSUME IInv, LoadAllReturns \/ Subscribe \/ SubscribeFails \/ Reconnect
                PROVE  IInv'
    OBVIOUS
  <1>1. UNCHANGED <<rows, tools, channel, todo, asked, found, snapshot, missed>>
    BY DEF LoadAllReturns, Subscribe, SubscribeFails, Reconnect
  <1>0. /\ subscribed' \in BOOLEAN /\ (subscribed' => pc' = "receive")
        /\ pc' \in {"loadAll", "subscribe", "receive", "ended"}
        /\ asked # {} => pc' \in {"loadAll", "receive"}
        /\ faults' \in 0..MaxFaults
    <2>0. /\ subscribed \in BOOLEAN /\ (subscribed => pc = "receive")
          /\ asked # {} => pc \in {"loadAll", "receive"}
          /\ faults \in 0..MaxFaults
      BY DEF IInv, TypeOK
    <2>1. CASE LoadAllReturns
      BY <2>0, <2>1 DEF LoadAllReturns
    <2>2. CASE Subscribe
      BY <2>0, <2>2 DEF Subscribe
    <2>3. CASE SubscribeFails
      <3>1. faults' \in 0..MaxFaults
        BY <2>3, FaultType DEF SubscribeFails, IInv
      <3>. QED  BY <2>0, <2>3, <3>1 DEF SubscribeFails
    <2>4. CASE Reconnect
      BY <2>0, <2>4 DEF Reconnect
    <2>. QED  BY <2>1, <2>2, <2>3, <2>4
  <1>2. TypeOK'
    BY <1>0, <1>1 DEF IInv, TypeOK
  <1>3. ServedIsWritten' /\ PublishedIsWritten' /\ MessagesAreWritten' /\ FoundIsNewer'
    BY <1>1 DEF IInv, ServedIsWritten, PublishedIsWritten, MessagesAreWritten,
          Announced, FoundIsNewer
  <1>. QED  BY <1>2, <1>3 DEF IInv

-----------------------------------------------------------------------------
LEMMA NextInv == IInv /\ [Next]_vars => IInv'
  <1>. SUFFICES ASSUME IInv, [Next]_vars PROVE IInv'
    OBVIOUS
  <1>1. CASE UNCHANGED vars
    BY <1>1 DEF vars, IInv, TypeOK, ServedIsWritten, PublishedIsWritten,
          MessagesAreWritten, Announced, FoundIsNewer
  <1>2. ASSUME NEW t \in Tools, Tool(t) PROVE IInv'
    BY <1>2, ToolInv
  <1>3. CASE Lobby
    BY <1>3, QueryInv, GivesUpInv, UpdateInv, LoadNextInv, ReceiveInv, DisconnectInv,
       RestartInv, MovesOnInv DEF Lobby, LoadOne
  <1>. QED  BY <1>1, <1>2, <1>3 DEF Next

\* Every reachable state satisfies the inductive invariant.
THEOREM Invariant == Spec => []IInv
  BY InitInv, NextInv, PTL DEF Spec

\* The lobby's state is well formed: in particular there is at most one
\* LoadOne at a time, and LoadAll is over when the watcher starts.
THEOREM TypeCorrect == Spec => []TypeOK
  <1>1. IInv => TypeOK
    BY DEF IInv
  <1>. QED  BY <1>1, Invariant, PTL

\* The only writer of a snapshot stores a row that is not older.
LEMMA StepNotBackward ==
  IInv /\ [Next]_vars => [Restart \/ \A n \in Names : snapshot[n] <= snapshot'[n]]_vars
  <1>. SUFFICES ASSUME IInv, Next, ~Restart
                PROVE  \A n \in Names : snapshot[n] <= snapshot'[n]
    OBVIOUS
  <1>0. snapshot \in [Names -> 0..MaxRev]
    BY DEF IInv, TypeOK
  <1>1. CASE Update
    <2>1. PICK row \in found : snapshot' = [snapshot EXCEPT ![row.name] = row.rev]
      BY <1>1 DEF Update
    <2>2. row \in Rows /\ snapshot[row.name] <= row.rev
      BY DEF IInv, TypeOK, FoundIsNewer
    <2>. QED  BY <1>0, <2>1, <2>2
  <1>2. CASE ~Update
    <2>1. snapshot' = snapshot
      BY <1>2 DEF Next, Tool, Lobby, LoadOne, Prepare, Write, WriteFails,
            WriteUnanswered, Publish, PublishFails, LoadNext, LoadAllReturns, Query,
            QueryFails, ParseFails, Subscribe, SubscribeFails, Receive, Disconnect,
            Reconnect
    <2>. QED  BY <1>0, <2>1
  <1>. QED  BY <1>1, <1>2

\* A running lobby never goes back to an older configuration.
THEOREM NeverGoesBackward == Spec => NeverBackward
  BY Invariant, StepNotBackward, PTL DEF Spec, NeverBackward

\* What is stored on account of a message is not older than it announced.
THEOREM NotificationsAreLoaded == Spec => NotifiedIsLoaded
  <1>1. IInv /\ [Next]_vars =>
            [Update => \A m \in asked : m.rev <= snapshot'[m.name]]_vars
    <2>. SUFFICES ASSUME IInv, Update, NEW m \in asked
                  PROVE  m.rev <= snapshot'[m.name]
      OBVIOUS
    <2>1. PICK row \in found : snapshot' = [snapshot EXCEPT ![row.name] = row.rev]
      BY DEF Update
    <2>2. row.name = m.name /\ m.rev <= row.rev /\ m.name \in Names
      BY DEF IInv, TypeOK, FoundIsNewer
    <2>. QED  BY <2>1, <2>2 DEF IInv, TypeOK
  <1>. QED  BY <1>1, Invariant, PTL DEF Spec, NotifiedIsLoaded

-----------------------------------------------------------------------------
(***************************************************************************)
(* Nobody is forgotten: a configuration that is behind and of which every  *)
(* message got through is still expected to be loaded.                     *)
(***************************************************************************)
\* The primary key of the table.
KeysUnique ==
    \A r1, r2 \in rows : r1.name = r2.name /\ r1.rev = r2.rev => r1 = r2

\* A run of the tool is about to publish the name, a message is on its way, it
\* is about to be asked for, its newest row has been read, or LoadAll will come
\* to it.
Expected(n) ==
    \/ \E t \in Tools : tools[t].pc = "publish" /\ tools[t].row.name = n
    \/ \E i \in 1..Len(channel) : channel[i].name = n
    \/ found = {} /\ \E m \in asked : m.name = n
    \/ \E row \in found : row.name = n /\ Newest(row)
    \/ pc = "loadAll" /\ \E i \in 1..Len(todo) : todo[i] = n

NobodyForgotten == \A n \in RegisteredNames \ missed : Serves(n) \/ Expected(n)

\* The tool gets a row into the table only if MySQL takes its tags.
RowsHaveTags == rows # {} => Tags = "json"

LInv == IInv /\ KeysUnique /\ RowsHaveTags /\ NobodyForgotten

\* The lobby asks for the column of a table that can have rows.
ColumnIsThere == Tags = "json" => QueriedColumn = "json_payload"

LEMMA InitForgetsNobody == Init => LInv
  <1>. SUFFICES ASSUME Init PROVE KeysUnique /\ RowsHaveTags /\ NobodyForgotten
    BY InitInv DEF LInv
  <1>. QED  BY DEF Init, KeysUnique, RowsHaveTags, NobodyForgotten, Serves

\* MySQL keeps the key.
LEMMA KeysStayUnique == LInv /\ [Next]_vars => KeysUnique' /\ RowsHaveTags'
  <1>. SUFFICES ASSUME LInv, [Next]_vars PROVE KeysUnique' /\ RowsHaveTags'
    OBVIOUS
  <1>1. ASSUME NEW t \in Tools, Accepted(tools[t].row),
               rows' = rows \union {tools[t].row}
        PROVE  KeysUnique' /\ RowsHaveTags'
    BY <1>1 DEF LInv, KeysUnique, RowsHaveTags, Accepted
  <1>2. ASSUME NEW t \in Tools, Tool(t) PROVE KeysUnique' /\ RowsHaveTags'
    <2>1. CASE rows' = rows
      BY <2>1 DEF LInv, KeysUnique, RowsHaveTags
    <2>. QED  BY <1>1, <1>2, <2>1 DEF Tool, Prepare, Write, WriteFails, WriteUnanswered,
              Publish, PublishFails
  <1>3. CASE Lobby \/ UNCHANGED vars
    <2>1. rows' = rows
      BY <1>3 DEF Lobby, LoadNext, LoadAllReturns, LoadOne, Query, QueryFails, Update,
         ParseFails, Subscribe, SubscribeFails, Receive, Disconnect, Reconnect, Restart, vars
    <2>. QED  BY <2>1 DEF LInv, KeysUnique, RowsHaveTags
  <1>. QED  BY <1>2, <1>3 DEF Next

\* The runs of the tool.
LEMMA ToolForgetsNobody ==
  ASSUME LInv, NEW t \in Tools, Tool(t)
  PROVE  NobodyForgotten'
  <1>. SUFFICES ASSUME NEW n \in RegisteredNames \ missed'
                PROVE  Serves(n)' \/ Expected(n)'
    BY DEF NobodyForgotten
  <1>. DEFINE row == tools[t].row
              m == [name |-> row.name, rev |-> row.rev]
  <1>1. UNCHANGED lobby /\ missed \subseteq missed' /\ row \in Rows
    BY DEF Tool, Prepare, Write, WriteFails, WriteUnanswered, Publish, PublishFails, Deliver,
           LInv, IInv, TypeOK
  <1>2. Serves(n) \/ Expected(n)
    BY <1>1 DEF LInv, NobodyForgotten
  <1>3. PICK from, to \in {"start", "write", "publish", "exited", "failed"} :
            ToolAt(t, from, to)
    BY DEF Tool, Prepare, Write, WriteFails, WriteUnanswered, Publish, PublishFails
  <1>4. /\ tools[t].pc = from /\ tools'[t].pc = to /\ tools'[t].row = row
        /\ \A u \in Tools \ {t} : tools'[u] = tools[u]
    BY <1>3, ToolType DEF LInv, IInv
  <1>5. CASE Prepare(t) \/ WriteFails(t)
    <2>1. from # "publish" /\ UNCHANGED <<rows, channel, lobby>>
      BY <1>4, <1>5 DEF Prepare, WriteFails, ToolAt
    <2>2. Serves(n) => Serves(n)'
      BY <2>1 DEF Serves, Newest
    <2>3. Expected(n) => Expected(n)'
      BY <1>4, <2>1 DEF Expected, Newest
    <2>. QED  BY <1>2, <2>2, <2>3
  <1>6. CASE Write(t) \/ WriteUnanswered(t)
    <2>1. /\ from = "write" /\ rows' = rows \union {row} /\ channel' = channel
          /\ to = "publish" \/ row.name \in missed'
      <3>1. tools \in [Tools -> [pc : {"start", "write", "publish", "exited", "failed"},
                                  row : Rows]]
        BY DEF LInv, IInv, TypeOK
      <3>. QED  BY <1>4, <1>6, <3>1 DEF Write, WriteUnanswered, ToolAt
    <2>2. CASE row.name = n
      BY <1>4, <2>1, <2>2 DEF Expected
    <2>3. CASE row.name # n
      <3>1. ASSUME NEW q, q.name = n PROVE Newest(q)' <=> Newest(q)
        BY <2>1, <2>3, <3>1 DEF Newest
      <3>2. Serves(n) => Serves(n)'
        BY <1>1, <2>1, <2>3, <3>1 DEF Serves
      <3>3. Expected(n) => Expected(n)'
        BY <1>1, <1>4, <2>1, <3>1 DEF Expected
      <3>. QED  BY <1>2, <3>2, <3>3
    <2>. QED  BY <2>2, <2>3
  <1>7. CASE Publish(t) \/ PublishFails(t)
    <2>1. /\ rows' = rows
          /\ \/ channel' = channel /\ row.name \in missed'
             \/ channel' = Append(channel, m)
      BY <1>7 DEF Publish, PublishFails, Deliver
    <2>2. /\ m \in Messages /\ m.name = row.name
          /\ channel \in Seq(Messages) /\ Len(channel) \in Nat
      BY <1>1, LenProperties DEF LInv, IInv, TypeOK
    <2>3. /\ \A i \in 1..Len(channel) : i \in 1..Len(channel') /\ channel'[i] = channel[i]
          /\ row.name \notin missed' =>
                \E i \in 1..Len(channel') : channel'[i].name = row.name
      <3>1. CASE channel' = Append(channel, m)
        <4>1. /\ Len(channel') = Len(channel) + 1
              /\ channel'[Len(channel) + 1] = m
              /\ \A i \in 1..Len(channel) : channel'[i] = channel[i]
          BY <2>2, <3>1, AppendProperties
        <4>2. /\ \A i \in 1..Len(channel) : i \in 1..Len(channel')
              /\ Len(channel) + 1 \in 1..Len(channel')
          BY <2>2, <4>1
        <4>. QED  BY <2>2, <4>1, <4>2
      <3>2. CASE channel' = channel /\ row.name \in missed'
        BY <3>2
      <3>. QED  BY <2>1, <3>1, <3>2
    <2>4. Serves(n) => Serves(n)'
      BY <1>1, <2>1 DEF Serves, Newest
    <2>5. Expected(n) => Expected(n)'
      BY <1>1, <1>4, <2>1, <2>3 DEF Expected, Newest
    <2>. QED  BY <1>2, <2>4, <2>5
  <1>. QED  BY <1>5, <1>6, <1>7 DEF Tool

\* LoadOne: the newest row is read, and served unless it cannot be.
LEMMA LoadOneForgetsNobody ==
  ASSUME LInv, LoadOne, ColumnIsThere
  PROVE  NobodyForgotten'
  <1>. SUFFICES ASSUME NEW n \in RegisteredNames \ missed'
                PROVE  Serves(n)' \/ Expected(n)'
    BY DEF NobodyForgotten
  <1>1. UNCHANGED <<rows, tools, channel, pc, todo>>
    BY DEF LoadOne, Query, QueryFails, Update, ParseFails
  <1>2. n \in missed \/ Serves(n) \/ Expected(n)
    BY DEF LInv, NobodyForgotten
  <1>3. ASSUME NEW q PROVE Newest(q)' <=> Newest(q)
    BY <1>1 DEF Newest
  <1>4. /\ \A m1, m2 \in asked : m1 = m2
        /\ \A r1 \in found, r2 \in found : r1 = r2
    BY DEF LInv, IInv, TypeOK
  <1>5. CASE Query
    <2>1. PICK m \in asked, row \in rows :
            /\ row.name = m.name /\ Newest(row)
            /\ found' = {row} /\ missed' = missed \ {m.name}
      BY <1>5 DEF Query
    <2>2. CASE n = m.name
      BY <1>3, <2>1, <2>2 DEF Expected
    <2>3. CASE n # m.name
      <3>1. n \notin missed /\ snapshot' = snapshot /\ found = {}
        BY <1>5, <2>1, <2>3 DEF Query
      <3>2. Serves(n) => Serves(n)'
        BY <1>1, <1>3, <3>1 DEF Serves
      <3>3. Expected(n) => Expected(n)'
        BY <1>1, <1>3, <1>4, <2>3, <3>1 DEF Expected
      <3>. QED  BY <1>2, <3>1, <3>2, <3>3
    <2>. QED  BY <2>2, <2>3
  <1>6. CASE QueryFails
    <2>1. PICK m \in asked :
            \/ (\A row \in rows : row.name # m.name) /\ missed' = missed
            \/ m.name \notin RegisteredNames /\ missed' = missed
            \/ missed' = missed \union {m.name}
      BY <1>6 DEF QueryFails, LInv, RowsHaveTags, ColumnIsThere
    <2>2. snapshot' = snapshot /\ found = {} /\ n \notin missed
      BY <1>6, <2>1 DEF QueryFails
    <2>3. Serves(n) => Serves(n)'
      BY <1>1, <1>3, <2>2 DEF Serves
    <2>4. CASE n = m.name
      BY <1>1, <2>1, <2>4 DEF Serves
    <2>5. CASE n # m.name
      BY <1>1, <1>2, <1>4, <2>2, <2>3, <2>5 DEF Expected
    <2>. QED  BY <2>4, <2>5
  <1>7. CASE Update \/ ParseFails
    <2>1. PICK row \in found :
            /\ found' = {} /\ asked' = {} /\ missed' = missed
            /\ \/ row.parses /\ snapshot' = [snapshot EXCEPT ![row.name] = row.rev]
               \/ ~row.parses /\ snapshot' = snapshot
      BY <1>7 DEF Update, ParseFails, Loaded
    <2>2. /\ row \in Rows /\ row \in rows /\ snapshot[row.name] <= row.rev
          /\ snapshot \in [Names -> 0..MaxRev] /\ rows \subseteq Rows
      BY DEF LInv, IInv, TypeOK, FoundIsNewer
    <2>3. CASE n = row.name /\ Newest(row)
      <3>1. ASSUME NEW q \in rows, q.name = n, Newest(q) PROVE q = row
        <4>1. q.rev <= row.rev /\ row.rev <= q.rev
          BY <2>2, <2>3, <3>1 DEF Newest
        <4>2. q.rev = row.rev
          BY <2>2, <3>1, <4>1
        <4>. QED  BY <2>2, <2>3, <3>1, <4>2 DEF LInv, KeysUnique
      <3>2. row.parses => snapshot'[n] = row.rev
        BY <2>1, <2>2, <2>3
      <3>. QED  BY <1>1, <1>3, <3>1, <3>2 DEF Serves
    <2>4. CASE ~(n = row.name /\ Newest(row))
      <3>1. Expected(n) => Expected(n)'
        BY <1>1, <1>3, <1>4, <2>1, <2>4 DEF Expected
      <3>2. ASSUME NEW q \in rows, q.name = n, Newest(q), snapshot[n] = q.rev
            PROVE  snapshot'[n] = q.rev
        <4>1. CASE n = row.name
          <5>1. row.rev <= q.rev
            BY <2>2, <3>2, <4>1 DEF Newest
          <5>2. row.rev = q.rev
            BY <2>2, <3>2, <4>1, <5>1
          <5>. QED  BY <2>1, <2>2, <3>2, <4>1, <5>2
        <4>2. CASE n # row.name
          BY <2>1, <2>2, <3>2, <4>2
        <4>. QED  BY <4>1, <4>2
      <3>3. Serves(n) => Serves(n)'
        BY <1>1, <1>3, <3>2 DEF Serves
      <3>. QED  BY <1>2, <2>1, <3>1, <3>3
    <2>. QED  BY <2>3, <2>4
  <1>. QED  BY <1>5, <1>6, <1>7 DEF LoadOne

\* A step that takes nobody out of what is expected, or tells who was lost.
LEMMA Remembered ==
  ASSUME LInv, UNCHANGED <<rows, tools, snapshot>>, missed \subseteq missed',
         \A n \in RegisteredNames \ missed' : Expected(n) => Expected(n)'
  PROVE  NobodyForgotten'
  BY DEF LInv, NobodyForgotten, Serves, Newest

\* LoadAll comes to every registered configuration.
LEMMA LoadAllForgetsNobody ==
  ASSUME LInv, LoadNext \/ LoadAllReturns
  PROVE  NobodyForgotten'
  <1>. SUFFICES ASSUME NEW n \in RegisteredNames, Expected(n) PROVE Expected(n)'
    BY Remembered DEF LoadNext, LoadAllReturns
  <1>1. UNCHANGED <<rows, tools, channel, found>> /\ asked = {} /\ found = {}
    BY DEF LoadNext, LoadAllReturns, LInv, IInv, TypeOK
  <1>2. CASE LoadNext
    <2>1. /\ pc = "loadAll" /\ pc' = pc /\ todo # <<>> /\ todo \in Seq(Names)
          /\ asked' = {[name |-> Head(todo), rev |-> 0]} /\ todo' = Tail(todo)
      BY <1>2 DEF LoadNext, LInv, IInv, TypeOK
    <2>2. /\ Head(todo) = todo[1] /\ Len(todo) \in Nat \ {0}
          /\ Len(todo') = Len(todo) - 1
          /\ \A i \in 1..Len(todo') : todo'[i] = todo[i + 1]
      BY <2>1, HeadTailProperties, EmptySeq
    <2>3. ASSUME NEW i \in 1..Len(todo), todo[i] = n PROVE Expected(n)'
      <3>1. CASE i = 1
        BY <1>1, <2>1, <2>2, <2>3, <3>1 DEF Expected
      <3>2. CASE i # 1
        <4>1. i - 1 \in 1..Len(todo') /\ todo'[i - 1] = n
          BY <2>2, <2>3, <3>2
        <4>. QED  BY <2>1, <4>1 DEF Expected
      <3>. QED  BY <3>1, <3>2
    <2>. QED  BY <1>1, <2>3 DEF Expected
  <1>3. CASE LoadAllReturns
    <2>1. todo = <<>>
      BY <1>3 DEF LoadAllReturns
    <2>. QED  BY <1>1, <2>1 DEF Expected
  <1>. QED  BY <1>2, <1>3

\* A message that is received is worked for next.
LEMMA ReceiveForgetsNobody ==
  ASSUME LInv, Receive
  PROVE  NobodyForgotten'
  <1>. SUFFICES ASSUME NEW n \in RegisteredNames, Expected(n) PROVE Expected(n)'
    BY Remembered DEF Receive
  <1>1. /\ UNCHANGED <<rows, tools, found, pc, todo>> /\ asked = {} /\ found = {}
        /\ channel # <<>> /\ channel \in Seq(Messages)
        /\ asked' = {Head(channel)} /\ channel' = Tail(channel)
    BY DEF Receive, LInv, IInv, TypeOK
  <1>2. /\ Head(channel) = channel[1] /\ Len(channel) \in Nat \ {0}
        /\ Len(channel') = Len(channel) - 1
        /\ \A i \in 1..Len(channel') : channel'[i] = channel[i + 1]
    BY <1>1, HeadTailProperties, EmptySeq
  <1>3. ASSUME NEW i \in 1..Len(channel), channel[i].name = n PROVE Expected(n)'
    <2>1. CASE i = 1
      BY <1>1, <1>2, <1>3, <2>1 DEF Expected
    <2>2. CASE i # 1
      <3>1. i - 1 \in 1..Len(channel') /\ channel'[i - 1].name = n
        BY <1>2, <1>3, <2>2
      <3>. QED  BY <3>1 DEF Expected
    <2>. QED  BY <2>1, <2>2
  <1>. QED  BY <1>1, <1>3 DEF Expected

\* A message that does not arrive is one that nobody got.
LEMMA DisconnectForgetsNobody ==
  ASSUME LInv, Disconnect
  PROVE  NobodyForgotten'
  <1>1. PICK kept \in 0..Len(channel) : Lose(kept)
    BY DEF Disconnect
  <1>2. /\ channel \in Seq(Messages) /\ Len(channel) \in Nat
        /\ kept \in Nat /\ kept <= Len(channel)
        /\ \A i \in 1..Len(channel) : channel[i] \in Messages
    <2>1. channel \in Seq(Messages)
      BY DEF LInv, IInv, TypeOK
    <2>2. Len(channel) \in Nat /\ \A i \in 1..Len(channel) : channel[i] \in Messages
      BY <2>1, LenProperties, ElementOfSeq
    <2>. QED  BY <1>1, <2>1, <2>2
  <1>3. /\ channel' = SubSeq(channel, 1, kept)
        /\ missed' = missed \union {channel[i].name : i \in kept + 1..Len(channel)}
        /\ UNCHANGED <<rows, tools, pc, todo, asked, found, snapshot>>
    BY <1>1 DEF Lose, Disconnect
  <1>4. Len(channel') = kept /\ \A i \in 1..kept : channel'[i] = channel[i]
    BY <1>2, <1>3, SubSeqProperties
  <1>. SUFFICES ASSUME NEW n \in RegisteredNames \ missed', Expected(n)
                PROVE  Expected(n)'
    BY <1>3, Remembered
  <1>5. ASSUME NEW i \in 1..Len(channel), channel[i].name = n PROVE Expected(n)'
    <2>1. i \in 1..kept
      <3>1. CASE i \in kept + 1..Len(channel)
        BY <1>3, <1>5, <3>1
      <3>. QED  BY <1>2, <3>1
    <2>. QED  BY <1>4, <1>5, <2>1 DEF Expected
  <1>6. ASSUME NEW q PROVE Newest(q)' <=> Newest(q)
    BY <1>3 DEF Newest
  <1>. QED  BY <1>3, <1>5, <1>6 DEF Expected

\* A restart begins with LoadAll.
LEMMA RestartForgetsNobody ==
  ASSUME Restart
  PROVE  NobodyForgotten'
  <1>. SUFFICES ASSUME NEW n \in RegisteredNames PROVE Expected(n)'
    BY DEF NobodyForgotten
  <1>1. pc' = "loadAll" /\ todo' = Registered
    BY DEF Restart, Boot
  <1>2. \E i \in 1..Len(Registered) : Registered[i] = n
    BY LenProperties
  <1>. QED  BY <1>1, <1>2 DEF Expected

\* Every step keeps track of whom it leaves behind.
LEMMA NextForgetsNobody ==
  ASSUME ColumnIsThere, LInv, [Next]_vars
  PROVE  LInv'
  <1>1. IInv' /\ KeysUnique' /\ RowsHaveTags'
    BY NextInv, KeysStayUnique DEF LInv
  <1>2. CASE Subscribe \/ SubscribeFails \/ Reconnect \/ UNCHANGED vars
    <2>1. /\ UNCHANGED <<rows, tools, channel, todo, asked, found, snapshot, missed>>
          /\ pc = "loadAll" => pc' = "loadAll"
      BY <1>2 DEF Subscribe, SubscribeFails, Reconnect, vars
    <2>2. \A n : Expected(n) => Expected(n)'
      BY <2>1 DEF Expected, Newest
    <2>. QED  BY <1>1, <2>1, <2>2, Remembered DEF LInv
  <1>3. CASE Lobby
    BY <1>1, <1>2, <1>3, LoadOneForgetsNobody, LoadAllForgetsNobody, ReceiveForgetsNobody,
       DisconnectForgetsNobody, RestartForgetsNobody DEF Lobby, LInv
  <1>4. ASSUME NEW t \in Tools, Tool(t) PROVE LInv'
    BY <1>1, <1>4, ToolForgetsNobody DEF LInv
  <1>. QED  BY <1>2, <1>3, <1>4 DEF Next

\* At rest a registered configuration that is not served in its newest revision
\* is one of which a message or a request got lost: LoadAll, the subscription
\* after it and the handling of messages one by one lose none by themselves.
\* (If the table can have rows, the lobby must ask for a column that it has.)
THEOREM OnlyTheMissedAreBehind ==
  ASSUME ColumnIsThere
  PROVE  Spec => []BehindOnlyIfMissed
  <1>1. LInv => BehindOnlyIfMissed
    <2>. SUFFICES ASSUME LInv, AtRest, NEW n \in RegisteredNames \ missed
                  PROVE  Serves(n)
      BY DEF BehindOnlyIfMissed
    <2>1. /\ asked = {} /\ found = {} /\ pc # "loadAll"
          /\ channel = <<>> /\ \A t \in Tools : tools[t].pc # "publish"
      BY DEF AtRest, LInv, IInv, TypeOK
    <2>2. Len(channel) = 0
      BY <2>1, EmptySeq
    <2>3. ~Expected(n)
      BY <2>1, <2>2 DEF Expected
    <2>. QED  BY <2>3 DEF LInv, NobodyForgotten
  <1>2. LInv /\ [Next]_vars => LInv'
    BY NextForgetsNobody
  <1>. QED  BY <1>1, <1>2, InitForgetsNobody, PTL DEF Spec
============================================================================
