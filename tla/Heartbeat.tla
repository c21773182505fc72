------------------------------ MODULE Heartbeat ------------------------------
(***************************************************************************)
(* HeartbeatManager of gateway/internal/ws/heartbeat.go: what the gateway  *)
(* remembers of the liveness of each WebSocket client.                     *)
(*                                                                         *)
(* Time is modelled by AGES: instead of the instant something last         *)
(* happened, a state holds how long ago it was, in check intervals.        *)
(* Elapse makes every age one larger; an age stops at MaxAge, one more     *)
(* than both timeouts, where every comparison the code makes has reached   *)
(* its final answer.  So the model needs no bound on the clock.            *)
(***************************************************************************)
EXTENDS Integers

CONSTANTS
    Clients,      \* client identifiers ("conn-1", "conn-2", ...)
    NoState,      \* "no entry": the client is not in the heartbeat map
    Timeout,      \* HeartbeatConfig.Timeout
    MaxMissed,    \* HeartbeatConfig.MaxMissed
    IdleTimeout   \* HeartbeatConfig.IdleTimeout, 0 when it is not configured

VARIABLE hb       \* HeartbeatManager.connections: client -> connectionState

MaxAge == (IF Timeout > IdleTimeout THEN Timeout ELSE IdleTimeout) + 1

Ages == 0 .. MaxAge

\* The zero time.Time: the client never answered a Pong.
Never == -1

ConnState ==
    [ping : Ages, pong : Ages \cup {Never}, activity : Ages,
     missed : 0 .. MaxMissed, alive : BOOLEAN]

ASSUME HeartbeatAssumption ==
    /\ Timeout \in Nat
    /\ MaxMissed \in Nat \ {0}
    /\ IdleTimeout \in Nat
    /\ NoState \notin ConnState

Tracked == {c \in Clients : hb[c] # NoState}

Alive == {c \in Tracked : hb[c].alive}

(***************************************************************************)
(* The methods, as the heartbeat map each one leaves behind.               *)
(***************************************************************************)
NewState ==
    [ping |-> 0, pong |-> Never, activity |-> 0, missed |-> 0, alive |-> TRUE]

\* An existing entry is refreshed but not revived: isAlive keeps its value.
RecordedPing(c) ==
    [hb EXCEPT ![c] =
        IF @ = NoState THEN NewState
        ELSE [@ EXCEPT !.ping = 0, !.activity = 0, !.missed = 0]]

RecordedPong(c) ==
    [hb EXCEPT ![c] =
        IF @ = NoState THEN NoState ELSE [@ EXCEPT !.pong = 0, !.missed = 0]]

\* Activity feeds the idle check alone: missedCount is left as it is.
RecordedActivity(c) ==
    [hb EXCEPT ![c] =
        IF @ = NoState THEN NoState ELSE [@ EXCEPT !.activity = 0]]

\* Faulty variant: no fallback to lastPing for a client that never answered.
PongAge(s) == s.pong

\* The instant the heartbeat check measures from.
CheckAge(s) == IF s.pong = Never THEN s.ping ELSE s.pong

Overdue(s) == s.alive /\ CheckAge(s) > Timeout

\* Faulty variant: off by one against the test that clears isAlive.
TimesOutLate(s) == Overdue(s) /\ s.missed >= MaxMissed

\* CheckTimeout(c) returns true.
TimesOut(s) == Overdue(s) /\ s.missed + 1 >= MaxMissed

\* What CheckTimeout(c) leaves in the entry.
CheckedState(s) ==
    IF Overdue(s)
    THEN [s EXCEPT !.missed = @ + 1, !.alive = s.missed + 1 < MaxMissed]
    ELSE s

\* The idle check checkAllConnections makes of a client that did not time out.
IdlesOut(s) == IdleTimeout > 0 /\ s.activity > IdleTimeout

Older(age) == IF age >= 0 /\ age < MaxAge THEN age + 1 ELSE age

\* One check interval passes.
Aged ==
    [c \in Clients |->
        IF hb[c] = NoState THEN NoState
        ELSE [hb[c] EXCEPT !.ping = Older(@), !.pong = Older(@),
                           !.activity = Older(@)]]

HeartbeatTypeOK == hb \in [Clients -> ConnState \cup {NoState}]

HeartbeatInit == hb = [c \in Clients |-> NoState]

=============================================================================
