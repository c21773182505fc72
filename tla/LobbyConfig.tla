---------------------------- MODULE LobbyConfig ----------------------------
(* How a configuration gets from the config-loader tool to the snapshots     *)
(* that the lobby serves.  A run of the tool inserts a row into              *)
(* lobby_config_revision and then publishes its name; the lobby loads every  *)
(* registered configuration when it starts, and after that whatever is       *)
(* named in a message of the channel.  The two meet in MySQL and Redis only. *)
(*                                                                           *)
(* The data of a row is told apart by whether the lobby can parse it as the  *)
(* type the configuration was registered with: the tool does not look at     *)
(* times, for one, which the generated ConfigTime does.                      *)
EXTENDS Integers, Sequences

CONSTANTS
    Names,          \* configuration names
    Registered,     \* a sequence: those the lobby registered, sorted
    Tools,          \* runs of config-loader
    MaxRev,         \* revisions are 1..MaxRev; 0 is a nil snapshot
    MaxFaults,      \* bound on failed requests, lost messages and crashes
    QueriedColumn,  \* what LoadOne selects: "data" or "json_payload"
    Tags            \* what the tool inserts into tags: "empty" or "json"

ASSUME NamesAssumption == Registered \in Seq(Names)
ASSUME RevisionsAssumption == MaxRev \in Nat /\ MaxFaults \in Nat

VARIABLES
    rows,        \* the table lobby_config_revision
    tools,       \* each run of the tool: where it is, and the row it makes
    channel,     \* messages on their way to the lobby's subscription
    subscribed,  \* is the subscription up
    pc,          \* the lobby: "loadAll", "subscribe", "receive" or "ended"
    todo,        \* names that LoadAll has not come to
    asked,       \* the message LoadOne works for, at most one
    found,       \* the row it has read, at most one
    snapshot,    \* the revision in each TypedStore
    missed,      \* history: names whose newest row nobody told the lobby of
    faults       \* history: faults so far

lobby == <<pc, todo, asked, found, snapshot>>
vars == <<rows, tools, channel, subscribed, lobby, missed, faults>>

Revisions == 1..MaxRev
Rows == [name : Names, rev : Revisions, parses : BOOLEAN]
\* LoadAll asks without a revision, which is written 0 here.
Messages == [name : Names, rev : 0..MaxRev]
RegisteredNames == {Registered[i] : i \in DOMAIN Registered}

\* Faulty: LIMIT 1 without the ORDER BY.
AnyRow(row) == row \in rows
\* ORDER BY revision DESC LIMIT 1
Newest(row) == \A r \in rows : r.name = row.name => r.rev <= row.rev

Fault == faults < MaxFaults /\ faults' = faults + 1

---------------------------------------------------------------------------
(* The tool.                                                                 *)

ToolAt(t, from, to) ==
    tools[t].pc = from /\ tools' = [tools EXCEPT ![t].pc = to]

\* The sheet is parsed and checked, or refused, or the run is a dry one.
Prepare(t) ==
    /\ \E next \in {"write", "exited"} : ToolAt(t, "start", next)
    /\ UNCHANGED <<rows, channel, subscribed, lobby, missed, faults>>

\* MySQL takes JSON for tags, and one row for a name and revision.
Accepted(row) ==
    /\ Tags = "json"
    /\ \A r \in rows : r.name = row.name => r.rev # row.rev

\* Pub/Sub keeps nothing for those who are not subscribed.
Deliver(row) ==
    \/ /\ subscribed
       /\ channel' = Append(channel, [name |-> row.name, rev |-> row.rev])
       /\ UNCHANGED missed
    \/ /\ ~subscribed
       /\ missed' = missed \union {row.name}
       /\ UNCHANGED channel

\* Faulty: publishes first and inserts afterwards.
WriteAfterPublishing(t) ==
    \/ /\ ToolAt(t, "write", "failed")
       /\ Deliver(tools[t].row)
       /\ UNCHANGED <<rows, subscribed, lobby, faults>>
    \/ /\ ToolAt(t, "failed", "exited")
       /\ Accepted(tools[t].row)
       /\ rows' = rows \union {tools[t].row}
       /\ UNCHANGED <<channel, subscribed, lobby, missed, faults>>

Write(t) ==
    /\ ToolAt(t, "write", "publish")
    /\ Accepted(tools[t].row)
    /\ rows' = rows \union {tools[t].row}
    /\ UNCHANGED <<channel, subscribed, lobby, missed, faults>>

WriteFails(t) ==
    /\ ToolAt(t, "write", "failed")
    /\ \/ ~Accepted(tools[t].row) /\ UNCHANGED faults
       \/ Fault
    /\ UNCHANGED <<rows, channel, subscribed, lobby, missed>>

\* The row is there but the tool sees an error, and exits without a word.
WriteUnanswered(t) ==
    /\ ToolAt(t, "write", "failed")
    /\ Accepted(tools[t].row)
    /\ Fault
    /\ rows' = rows \union {tools[t].row}
    /\ missed' = missed \union {tools[t].row.name}
    /\ UNCHANGED <<channel, subscribed, lobby>>

Publish(t) ==
    /\ ToolAt(t, "publish", "exited")
    /\ Deliver(tools[t].row)
    /\ UNCHANGED <<rows, subscribed, lobby, faults>>

\* PUBLISH fails, which is logged, or no -redis-addr was given, or the tool
\* is stopped before it.
PublishFails(t) ==
    /\ ToolAt(t, "publish", "exited")
    /\ Fault
    /\ missed' = missed \union {tools[t].row.name}
    /\ UNCHANGED <<rows, channel, subscribed, lobby>>

---------------------------------------------------------------------------
(* LoadOne: a query, then the update of the store.                           *)

Loaded == asked' = {} /\ found' = {}

Query ==
    /\ found = {}
    /\ QueriedColumn = "json_payload"
    /\ \E m \in asked, row \in rows :
            /\ m.name \in RegisteredNames
            /\ row.name = m.name
            /\ Newest(row)
            /\ found' = {row}
            /\ missed' = missed \ {m.name}
    /\ UNCHANGED <<rows, tools, channel, subscribed, pc, todo, asked, snapshot,
                   faults>>

\* The name is not registered, there is no row, there is no such column; or
\* the route leads nowhere or MySQL does not answer.
QueryFails ==
    /\ found = {}
    /\ \E m \in asked :
          \/ /\ \/ m.name \notin RegisteredNames
                \/ QueriedColumn = "data"
                \/ \A row \in rows : row.name # m.name
             /\ UNCHANGED <<missed, faults>>
          \/ /\ Fault
             /\ missed' = missed \union {m.name}
    /\ Loaded
    /\ UNCHANGED <<rows, tools, channel, subscribed, pc, todo, snapshot>>

Update ==
    /\ \E row \in found :
            /\ row.parses
            /\ snapshot' = [snapshot EXCEPT ![row.name] = row.rev]
    /\ Loaded
    /\ UNCHANGED <<rows, tools, channel, subscribed, pc, todo, missed, faults>>

ParseFails ==
    /\ \E row \in found : ~row.parses
    /\ Loaded
    /\ UNCHANGED <<rows, tools, channel, subscribed, pc, todo, snapshot, missed,
                   faults>>

---------------------------------------------------------------------------
(* The lobby: LoadAll in main, then the watcher's goroutine.                 *)

LoadNext ==
    /\ pc = "loadAll" /\ asked = {} /\ todo # <<>>
    /\ asked' = {[name |-> Head(todo), rev |-> 0]}
    /\ todo' = Tail(todo)
    /\ UNCHANGED <<rows, tools, channel, subscribed, pc, found, snapshot, missed,
                   faults>>

\* Faulty: does not come to the last name.
LoadAllTooShort ==
    /\ pc = "loadAll" /\ asked = {} /\ Len(todo) <= 1
    /\ pc' = "subscribe"
    /\ UNCHANGED <<rows, tools, channel, subscribed, todo, asked, found, snapshot,
                   missed, faults>>

\* Faulty: started with go, nobody waits for it.
LoadAllInBackground ==
    /\ pc = "loadAll" /\ todo = <<>>
    /\ pc' = "subscribe"
    /\ UNCHANGED <<rows, tools, channel, subscribed, todo, asked, found, snapshot,
                   missed, faults>>

LoadAllReturns ==
    /\ pc = "loadAll" /\ asked = {} /\ todo = <<>>
    /\ pc' = "subscribe"
    /\ UNCHANGED <<rows, tools, channel, subscribed, todo, asked, found, snapshot,
                   missed, faults>>

Subscribe ==
    /\ pc = "subscribe"
    /\ pc' = "receive"
    /\ subscribed' = TRUE
    /\ UNCHANGED <<rows, tools, channel, todo, asked, found, snapshot, missed,
                   faults>>

\* Start logs and returns: the lobby goes on without updates.
SubscribeFails ==
    /\ pc = "subscribe"
    /\ Fault
    /\ pc' = "ended"
    /\ UNCHANGED <<rows, tools, channel, subscribed, todo, asked, found, snapshot,
                   missed>>

\* handleMessage
Receive ==
    /\ pc = "receive" /\ asked = {} /\ channel # <<>>
    /\ asked' = {Head(channel)}
    /\ channel' = Tail(channel)
    /\ UNCHANGED <<rows, tools, subscribed, pc, todo, found, snapshot, missed,
                   faults>>

\* Of the messages on their way the first kept ones arrive.
Lose(kept) ==
    /\ subscribed' = FALSE
    /\ channel' = SubSeq(channel, 1, kept)
    /\ missed' = missed \union {channel[i].name : i \in kept + 1..Len(channel)}

\* The connection to Redis breaks.
Disconnect ==
    /\ subscribed
    /\ Fault
    /\ \E kept \in 0..Len(channel) : Lose(kept)
    /\ UNCHANGED <<rows, tools, lobby>>

\* The client library subscribes again by itself.
Reconnect ==
    /\ pc = "receive" /\ ~subscribed
    /\ subscribed' = TRUE
    /\ UNCHANGED <<rows, tools, channel, lobby, missed, faults>>

Boot ==
    /\ pc' = "loadAll"
    /\ todo' = Registered
    /\ Loaded
    /\ snapshot' = [n \in Names |-> 0]

Restart ==
    /\ Fault
    /\ Boot
    /\ Lose(0)
    /\ UNCHANGED <<rows, tools>>

---------------------------------------------------------------------------
Init ==
    /\ rows = {}
    \* any sheet, with any revision: the time, or a flag of the command line
    /\ tools \in [Tools -> [pc : {"start"}, row : Rows]]
    /\ channel = <<>> /\ subscribed = FALSE
    /\ pc = "loadAll" /\ todo = Registered /\ asked = {} /\ found = {}
    /\ snapshot = [n \in Names |-> 0]
    /\ missed = {} /\ faults = 0

Tool(t) ==
    \/ Prepare(t) \/ Write(t) \/ WriteFails(t) \/ WriteUnanswered(t)
    \/ Publish(t) \/ PublishFails(t)

LoadOne == Query \/ QueryFails \/ Update \/ ParseFails

Lobby ==
    \/ LoadNext \/ LoadAllReturns \/ LoadOne
    \/ Subscribe \/ SubscribeFails \/ Receive
    \/ Disconnect \/ Reconnect \/ Restart

Next == Lobby \/ \E t \in Tools : Tool(t)

Spec == Init /\ [][Next]_vars

---------------------------------------------------------------------------
(* What should hold.                                                         *)

\* Every variable has its type, LoadOne reads a row for the message it works
\* for, and LoadAll is over when the watcher starts (main.go calls one after
\* the other): so there is one LoadOne at a time.
TypeOK ==
    /\ rows \subseteq Rows
    /\ tools \in [Tools -> [pc : {"start", "write", "publish", "exited", "failed"},
                            row : Rows]]
    /\ channel \in Seq(Messages)
    /\ subscribed \in BOOLEAN /\ (subscribed => pc = "receive")
    /\ pc \in {"loadAll", "subscribe", "receive", "ended"}
    /\ todo \in Seq(Names)
    /\ asked \subseteq Messages /\ \A m1, m2 \in asked : m1 = m2
    /\ found \subseteq Rows
    /\ \A row \in found, r \in found : row = r
    /\ \A row \in found : \E m \in asked : m.name = row.name
    /\ asked # {} => pc \in {"loadAll", "receive"}
    /\ snapshot \in [Names -> 0..MaxRev]
    /\ missed \subseteq Names
    /\ faults \in 0..MaxFaults

\* No step but a restart takes a configuration that is served back to an older
\* revision or to none, in whatever order runs of the tool insert, publish
\* and give revisions by hand (TypedStore.Update does not compare them).
NeverBackward ==
    [][Restart \/ \A n \in Names : snapshot[n] <= snapshot'[n]]_vars

\* When LoadOne stores a configuration on account of a message, what it stores
\* is not older than the revision that the message announced: the tool
\* commits the row before it publishes it.
NotifiedIsLoaded ==
    [][Update => \A m \in asked : m.rev <= snapshot'[m.name]]_vars

\* Nothing is under way: no run of the tool is between its two steps and no
\* message waits.
AtRest ==
    /\ pc \in {"receive", "ended"} /\ asked = {} /\ channel = <<>>
    /\ \A t \in Tools : tools[t].pc # "publish"

Serves(n) ==
    \A row \in rows :
        row.name = n /\ Newest(row) /\ row.parses => snapshot[n] = row.rev

\* At rest every registered configuration is served in its newest revision,
\* except where nobody told the lobby: a message that did not get through or
\* a request that failed is the only way to fall behind.
BehindOnlyIfMissed ==
    AtRest => \A n \in RegisteredNames \ missed : Serves(n)

\* Without any fault every registered configuration is up to date at rest.
UpToDate ==
    AtRest /\ faults = 0 => \A n \in RegisteredNames : Serves(n)

\* LoadOne finds the newest row of every registered configuration that has
\* one, unless a request fails.
RegisteredIsFound ==
    [][QueryFails /\ UNCHANGED faults =>
        \A m \in asked, row \in rows :
            row.name = m.name => m.name \notin RegisteredNames]_vars

\* The tool fails to write only a revision that is there already.
ValidIsWritten ==
    faults = 0 => \A t \in Tools :
        tools[t].pc = "failed" =>
            \E r \in rows : /\ r.name = tools[t].row.name
                            /\ r.rev = tools[t].row.rev
============================================================================
