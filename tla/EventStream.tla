---- MODULE EventStream ----
(***************************************************************************)
(* The live event stream: the controller records each event and publishes  *)
(* it to the broadcaster's subscribers; a client that reconnects is        *)
(* replayed from the store what it missed (internal/api/events.go, stream  *)
(* in internal/api/server.go).                                             *)
(*                                                                         *)
(* An event is its position in the order of issue.  Its id is the number   *)
(* the controller gave it, which is all that clients and store go by.      *)
(***************************************************************************)
EXTENDS Naturals, Sequences, FiniteSets

CONSTANTS
  Clients,    \* who follows the stream, with one connection each at a time
  MaxEvents,  \* bound: how many events are ever issued
  Buffer,     \* how many events a subscriber's channel holds (64)
  Page,       \* how many events one query of the store returns (1000)
  Faults      \* which of "append", "query", "leave" and "crash" happen

ASSUME SizesAssumption == MaxEvents \in Nat /\ Buffer \in Nat /\ Page \in Nat

VARIABLES
  issued,   \* the ids of all events, in the order of issue
  nextId,   \* Controller.nextEventID
  history,  \* the events the store keeps
  pending,  \* the event recorded but not published yet, 0 for none
  subs,     \* Broadcaster.subs: the clients whose channels it sends to
  chan,     \* each client's channel: what it holds, and how often it was closed
  pc,       \* where each client's handler is, "off" without a connection
  replay,   \* what each handler has still to replay, in the order of ids
  last,     \* each handler's last: the newest id it has dealt with
  seen      \* the newest event each client has received, 0 before the first

storeVars == <<issued, nextId, history, pending>>
vars == <<storeVars, subs, chan, pc, replay, last, seen>>

TypeOK ==
  /\ issued \in Seq(Nat \ {0}) /\ Len(issued) <= MaxEvents
  /\ nextId \in Nat \ {0}
  /\ history \subseteq DOMAIN issued
  /\ pending \in {0} \cup DOMAIN issued
  /\ subs \subseteq Clients
  /\ chan \in [Clients -> [buf : Seq(DOMAIN issued), closed : Nat]]
  /\ \A c \in Clients : Len(chan[c].buf) <= Buffer
  /\ pc \in [Clients -> {"off", "query", "live"}]
  /\ replay \in [Clients -> SUBSET DOMAIN issued]
  /\ last \in [Clients -> Nat]
  /\ seen \in [Clients -> {0} \cup DOMAIN issued]

NewChannel == [buf |-> <<>>, closed |-> 0]

Init ==
  /\ issued = <<>> /\ nextId = 1 /\ history = {} /\ pending = 0
  /\ subs = {} /\ chan = [c \in Clients |-> NewChannel]
  /\ pc = [c \in Clients |-> "off"]
  /\ replay = [c \in Clients |-> {}]
  /\ last = [c \in Clients |-> 0]
  /\ seen = [c \in Clients |-> 0]

-----------------------------------------------------------------------------
\* The controller, under its lock, records an event and then publishes it.

Record ==
  /\ pending = 0 /\ Len(issued) < MaxEvents
  /\ issued' = Append(issued, nextId)
  /\ nextId' = nextId + 1
  /\ pending' = Len(issued')
  /\ \/ history' = history \cup {Len(issued')}
     \/ "append" \in Faults /\ UNCHANGED history
  /\ UNCHANGED <<subs, chan, pc, replay, last, seen>>

\* Mutant of Full: the channel takes one event more than it holds.
FullLate == {c \in subs : Len(chan[c].buf) > Buffer}

Full == {c \in subs : Len(chan[c].buf) >= Buffer}

\* Mutant of Delivered: a full channel stays open, and the event is dropped.
DeliveredDropping ==
  [c \in Clients |->
     IF c \in subs \ Full THEN [chan[c] EXCEPT !.buf = Append(@, pending)] ELSE chan[c]]

\* Publishing never waits: a subscriber whose channel is full is let go.
Delivered ==
  [c \in Clients |->
     IF c \in Full THEN [chan[c] EXCEPT !.closed = @ + 1]
     ELSE IF c \in subs THEN [chan[c] EXCEPT !.buf = Append(@, pending)]
     ELSE chan[c]]

Publish ==
  /\ pending # 0
  /\ chan' = Delivered
  /\ subs' = subs \ Full
  /\ pending' = 0
  /\ UNCHANGED <<issued, nextId, history, pc, replay, last, seen>>

-----------------------------------------------------------------------------
\* A client's connection.

\* The id a client says it was at when it reconnects.
LastEventId(c) == IF seen[c] = 0 THEN 0 ELSE issued[seen[c]]

\* The handler subscribes before it asks the store.
Connect(c) ==
  /\ pc[c] = "off"
  /\ subs' = subs \cup {c}
  /\ chan' = [chan EXCEPT ![c] = NewChannel]
  /\ last' = [last EXCEPT ![c] = LastEventId(c)]
  /\ replay' = [replay EXCEPT ![c] = {}]
  /\ pc' = [pc EXCEPT ![c] = IF LastEventId(c) > 0 THEN "query" ELSE "live"]
  /\ UNCHANGED <<storeVars, seen>>

\* The oldest kept events with a greater id, one page of them.
Missed(id) ==
  LET after == {n \in history : issued[n] > id}
  IN {n \in after : Cardinality({m \in after : issued[m] < issued[n]}) < Page}

Query(c) ==
  /\ pc[c] = "query"
  /\ replay' = [replay EXCEPT ![c] = Missed(last[c])]
  /\ pc' = [pc EXCEPT ![c] = "live"]
  /\ UNCHANGED <<storeVars, subs, chan, last, seen>>

\* Mutant of Send: what the replay has shown is written again.
SendAgain(c, n) ==
  /\ last' = [last EXCEPT ![c] = issued[n]]
  /\ seen' = [seen EXCEPT ![c] = n]

\* An event is written unless the client is past its id.
Send(c, n) ==
  IF issued[n] <= last[c] THEN UNCHANGED <<last, seen>>
  ELSE /\ last' = [last EXCEPT ![c] = issued[n]]
       /\ seen' = [seen EXCEPT ![c] = n]

Replay(c) ==
  /\ pc[c] = "live"
  /\ \E n \in replay[c] :
       /\ \A m \in replay[c] : issued[n] <= issued[m]
       /\ Send(c, n)
       /\ replay' = [replay EXCEPT ![c] = @ \ {n}]
  /\ UNCHANGED <<storeVars, subs, chan, pc>>

\* A closed channel still gives what it holds.
Receive(c) ==
  /\ pc[c] = "live" /\ replay[c] = {} /\ chan[c].buf # <<>>
  /\ Send(c, Head(chan[c].buf))
  /\ chan' = [chan EXCEPT ![c].buf = Tail(@)]
  /\ UNCHANGED <<storeVars, subs, pc, replay>>

\* Mutant of Stop: the channel is closed whether or not publishing has.
StopAlways(c) ==
  /\ subs' = subs \ {c}
  /\ chan' = [chan EXCEPT ![c].closed = @ + 1]

\* The handler's deferred stop: it closes a channel nobody has closed.
Stop(c) ==
  /\ subs' = subs \ {c}
  /\ chan' = [chan EXCEPT ![c].closed = IF c \in subs THEN @ + 1 ELSE @]

Return(c) ==
  /\ Stop(c)
  /\ pc' = [pc EXCEPT ![c] = "off"]
  /\ UNCHANGED <<storeVars, replay, last, seen>>

\* The client is told of the gap, and reconnects.
Gap(c) ==
  /\ pc[c] = "live" /\ replay[c] = {}
  /\ chan[c].buf = <<>> /\ chan[c].closed > 0
  /\ Return(c)

\* The client goes, or does not read what is written in time.
Leave(c) == "leave" \in Faults /\ pc[c] = "live" /\ Return(c)

QueryFails(c) == "query" \in Faults /\ pc[c] = "query" /\ Return(c)

\* The process stops and starts again: connections end, and ids go on after
\* the newest one in the store.
Crash ==
  /\ "crash" \in Faults
  /\ \E k \in {0} \cup {issued[n] : n \in history} :
       (\A n \in history : issued[n] <= k) /\ nextId' = k + 1
  /\ pending' = 0
  /\ subs' = {} /\ chan' = [c \in Clients |-> NewChannel]
  /\ pc' = [c \in Clients |-> "off"]
  /\ UNCHANGED <<issued, history, replay, last, seen>>

-----------------------------------------------------------------------------
Handler(c) == Connect(c) \/ Query(c) \/ Replay(c) \/ Receive(c) \/ Gap(c) \/ Leave(c) \/ QueryFails(c)

Next == Record \/ Publish \/ Crash \/ \E c \in Clients : Handler(c)

Spec == Init /\ [][Next]_vars

\* Publishing ends, clients reconnect, handlers go on, and a connection that
\* breaks again and again gets something across between the breaks.
Fairness ==
  /\ WF_vars(Publish)
  /\ \A c \in Clients : /\ WF_vars(Connect(c)) /\ WF_vars(Gap(c))
                        /\ SF_vars(Query(c)) /\ SF_vars(Replay(c)) /\ SF_vars(Receive(c))

FairSpec == Spec /\ Fairness

-----------------------------------------------------------------------------
\* Properties.

\* A client that has received an event receives the kept events after it one
\* by one: in order, none left out and none twice, over all its connections
\* (server.go:282, "everything since is replayed from the store before live
\* events continue").
NoneLost ==
  [][\A c \in Clients : seen'[c] # seen[c] =>
       /\ seen'[c] > seen[c]
       /\ seen[c] # 0 => \A m \in history : m <= seen[c] \/ seen'[c] <= m]_vars

\* A channel is closed once at most, sends go to open channels only, and no
\* handler that has returned leaves a subscription behind.
ClosedOnce ==
  \A c \in Clients :
    /\ chan[c].closed <= 1
    /\ c \in subs <=> pc[c] # "off" /\ chan[c].closed = 0

\* A client that keeps reconnecting receives every kept event in the end,
\* however often it falls behind.
CatchesUp ==
  \A c \in Clients, n \in 1 .. MaxEvents : seen[c] # 0 /\ n \in history ~> seen[c] >= n

====
