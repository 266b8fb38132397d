---- MODULE EventStreamProofs ----
(***************************************************************************)
(* No client loses, repeats or reorders a kept event, as long as one page  *)
(* holds the whole history and a restart does not follow a failed record;  *)
(* and every channel is closed once at most.                               *)
(***************************************************************************)
EXTENDS EventStream, FiniteSetTheorems, TLAPS

LEMMA HeadTail ==
  ASSUME NEW S, NEW s \in Seq(S), s # <<>>
  PROVE  /\ Head(s) = s[1] /\ 1 \in DOMAIN s /\ s[1] \in S
         /\ Tail(s) \in Seq(S) /\ Len(s) = Len(Tail(s)) + 1 /\ Len(Tail(s)) \in Nat
         /\ \A i \in 1 .. Len(Tail(s)) : Tail(s)[i] = s[i + 1]
<1>1. Len(s) \in Nat \ {0}
  OBVIOUS
<1>. QED BY <1>1

LEMMA SendType ==
  ASSUME TypeOK, NEW c \in Clients, NEW n \in DOMAIN issued, Send(c, n)
  PROVE  last' \in [Clients -> Nat] /\ seen' \in [Clients -> {0} \cup DOMAIN issued]
<1>1. issued[n] \in Nat
  BY DEF TypeOK
<1>. QED BY <1>1 DEF Send, TypeOK

LEMMA StopType ==
  ASSUME TypeOK, NEW c \in Clients, Stop(c)
  PROVE  /\ subs' \subseteq Clients
         /\ chan' \in [Clients -> [buf : Seq(DOMAIN issued), closed : Nat]]
         /\ \A d \in Clients : chan'[d].buf = chan[d].buf
<1>1. chan[c] \in [buf : Seq(DOMAIN issued), closed : Nat]
  BY DEF TypeOK
<1>2. \A k \in Nat : k + 1 \in Nat
  OBVIOUS
<1>3. ASSUME NEW k \in Nat
      PROVE  [chan[c] EXCEPT !.closed = k] \in [buf : Seq(DOMAIN issued), closed : Nat]
  BY <1>1
<1>4. PICK k \in Nat : chan' = [chan EXCEPT ![c] = [chan[c] EXCEPT !.closed = k]]
  BY <1>1, <1>2 DEF Stop, TypeOK
<1>5. chan' \in [Clients -> [buf : Seq(DOMAIN issued), closed : Nat]]
  BY <1>3, <1>4 DEF TypeOK
<1>6. ASSUME NEW d \in Clients PROVE chan'[d].buf = chan[d].buf
  BY <1>1, <1>4 DEF TypeOK
<1>. QED BY <1>5, <1>6 DEF Stop, TypeOK

LEMMA PublishType ==
  ASSUME TypeOK, Publish
  PROVE  TypeOK'
<1> DEFINE C == [buf : Seq(DOMAIN issued), closed : Nat]
<1>1. issued' = issued /\ pending \in DOMAIN issued
  BY DEF Publish, TypeOK
<1>2. ASSUME NEW c \in Clients PROVE Delivered[c] \in C /\ Len(Delivered[c].buf) <= Buffer
  <2>1. chan[c] \in C /\ Len(chan[c].buf) <= Buffer /\ Len(chan[c].buf) \in Nat
    BY DEF TypeOK
  <2>2. CASE c \in Full
    BY <2>1, <2>2 DEF Delivered
  <2>3. CASE c \in subs /\ c \notin Full
    <3>1. Append(chan[c].buf, pending) \in Seq(DOMAIN issued)
          /\ Len(Append(chan[c].buf, pending)) = Len(chan[c].buf) + 1
      BY <1>1, <2>1
    <3>2. Len(chan[c].buf) + 1 <= Buffer
      BY <2>1, <2>3, SizesAssumption DEF Full
    <3>. QED BY <2>1, <2>3, <3>1, <3>2 DEF Delivered
  <2>4. CASE c \notin subs /\ c \notin Full
    BY <2>1, <2>4 DEF Delivered
  <2>. QED BY <2>2, <2>3, <2>4
<1>3. chan' \in [Clients -> C] /\ \A c \in Clients : Len(chan'[c].buf) <= Buffer
  BY <1>2 DEF Publish, Delivered
<1>. QED BY <1>1, <1>3 DEF Publish, TypeOK

LEMMA NextType ==
  ASSUME TypeOK, [Next]_vars
  PROVE  TypeOK'
<1>1. CASE UNCHANGED vars
  BY <1>1 DEF vars, storeVars, TypeOK
<1>2. CASE Record
  <2>1. /\ issued' \in Seq(Nat \ {0}) /\ Len(issued') = Len(issued) + 1
        /\ DOMAIN issued' = 1 .. Len(issued') /\ DOMAIN issued = 1 .. Len(issued)
    BY <1>2 DEF Record, TypeOK
  <2>2. Len(issued') <= MaxEvents /\ Len(issued) \in Nat
    BY <1>2, <2>1, SizesAssumption DEF Record, TypeOK
  <2>3. DOMAIN issued \subseteq DOMAIN issued' /\ Len(issued') \in DOMAIN issued'
    BY <2>1, <2>2
  <2>4. history' \subseteq DOMAIN issued' /\ pending' \in {0} \cup DOMAIN issued'
    BY <1>2, <2>3 DEF Record, TypeOK
  <2>5. ASSUME NEW s \in Seq(DOMAIN issued) PROVE s \in Seq(DOMAIN issued')
    BY <2>3
  <2>6. chan \in [Clients -> [buf : Seq(DOMAIN issued'), closed : Nat]]
    BY <2>5 DEF TypeOK
  <2>7. nextId' \in Nat \ {0}
    BY <1>2 DEF Record, TypeOK
  <2>. QED BY <1>2, <2>1, <2>2, <2>3, <2>4, <2>6, <2>7 DEF Record, TypeOK
<1>3. CASE Publish
  BY <1>3, PublishType
<1>4. CASE Crash
  <2>1. nextId' \in Nat \ {0}
    BY <1>4 DEF Crash, TypeOK
  <2>2. chan' \in [Clients -> [buf : Seq(DOMAIN issued), closed : Nat]]
        /\ \A c \in Clients : Len(chan'[c].buf) <= Buffer
    BY <1>4, SizesAssumption DEF Crash, NewChannel
  <2>. QED BY <1>4, <2>1, <2>2 DEF Crash, TypeOK
<1>5. ASSUME NEW c \in Clients, Handler(c) PROVE TypeOK'
  <2>1. CASE Connect(c)
    <3>1. LastEventId(c) \in Nat
      BY DEF LastEventId, TypeOK
    <3>2. NewChannel \in [buf : Seq(DOMAIN issued), closed : Nat] /\ Len(NewChannel.buf) <= Buffer
      BY SizesAssumption DEF NewChannel
    <3>. QED BY <2>1, <3>1, <3>2 DEF Connect, storeVars, TypeOK
  <2>2. CASE Query(c)
    <3>1. Missed(last[c]) \subseteq DOMAIN issued
      BY DEF Missed, TypeOK
    <3>. QED BY <2>2, <3>1 DEF Query, storeVars, TypeOK
  <2>3. CASE Replay(c)
    <3>1. PICK n \in replay[c] : Send(c, n) /\ replay' = [replay EXCEPT ![c] = @ \ {n}]
      BY <2>3 DEF Replay
    <3>2. last' \in [Clients -> Nat] /\ seen' \in [Clients -> {0} \cup DOMAIN issued]
      BY <3>1, SendType DEF TypeOK
    <3>3. replay' \in [Clients -> SUBSET DOMAIN issued]
      BY <3>1 DEF TypeOK
    <3>4. /\ issued' = issued /\ nextId' = nextId /\ history' = history /\ pending' = pending
          /\ subs' = subs /\ chan' = chan /\ pc' = pc
      BY <2>3 DEF Replay, storeVars
    <3>. QED BY <3>2, <3>3, <3>4 DEF TypeOK
  <2>4. CASE Receive(c)
    <3>1. /\ chan[c] \in [buf : Seq(DOMAIN issued), closed : Nat]
          /\ chan[c].buf # <<>> /\ Len(chan[c].buf) <= Buffer
      BY <2>4 DEF Receive, TypeOK
    <3>2. /\ Head(chan[c].buf) \in DOMAIN issued /\ Tail(chan[c].buf) \in Seq(DOMAIN issued)
          /\ Len(Tail(chan[c].buf)) <= Buffer
      <4>1. /\ Head(chan[c].buf) \in DOMAIN issued /\ Tail(chan[c].buf) \in Seq(DOMAIN issued)
            /\ Len(chan[c].buf) = Len(Tail(chan[c].buf)) + 1 /\ Len(Tail(chan[c].buf)) \in Nat
        BY <3>1, HeadTail
      <4>. QED BY <3>1, <4>1, SizesAssumption
    <3>3. last' \in [Clients -> Nat] /\ seen' \in [Clients -> {0} \cup DOMAIN issued]
      BY <2>4, <3>2, SendType DEF Receive
    <3>4. chan' \in [Clients -> [buf : Seq(DOMAIN issued), closed : Nat]]
          /\ \A d \in Clients : Len(chan'[d].buf) <= Buffer
      BY <2>4, <3>1, <3>2 DEF Receive, TypeOK
    <3>. QED BY <2>4, <3>3, <3>4 DEF Receive, storeVars, TypeOK
  <2>5. CASE Gap(c) \/ Leave(c) \/ QueryFails(c)
    <3>1. Return(c)
      BY <2>5 DEF Gap, Leave, QueryFails
    <3>. QED BY <3>1, StopType DEF Return, storeVars, TypeOK
  <2>. QED BY <1>5, <2>1, <2>2, <2>3, <2>4, <2>5 DEF Handler
<1>. QED BY <1>1, <1>2, <1>3, <1>4, <1>5 DEF Next

\* Every state of the stream has the declared shape, and no channel holds
\* more than its buffer, for every buffer, page and number of events.
THEOREM StreamTypeCorrect == Spec => []TypeOK
<1>1. Init => TypeOK
  BY SizesAssumption DEF Init, TypeOK, NewChannel
<1>. QED BY <1>1, NextType, PTL DEF Spec

-----------------------------------------------------------------------------
\* Channels.

LEMMA ClosedStep ==
  ASSUME TypeOK, ClosedOnce, [Next]_vars
  PROVE  ClosedOnce'
<1>0. \A c \in Clients : chan[c].closed \in Nat
  BY DEF TypeOK
<1>1. CASE UNCHANGED vars
  BY <1>1 DEF vars, storeVars, ClosedOnce
<1>2. CASE Record
  BY <1>2 DEF Record, ClosedOnce
<1>3. CASE Publish
  <2>1. ASSUME NEW c \in Clients
        PROVE  chan'[c].closed = IF c \in Full THEN chan[c].closed + 1 ELSE chan[c].closed
    <3>1. chan[c] \in [buf : Seq(DOMAIN issued), closed : Nat]
      BY DEF TypeOK
    <3>2. CASE c \in Full
      BY <1>3, <3>1, <3>2 DEF Publish, Delivered
    <3>3. CASE c \in subs /\ c \notin Full
      BY <1>3, <3>1, <3>3 DEF Publish, Delivered
    <3>4. CASE c \notin subs /\ c \notin Full
      BY <1>3, <3>1, <3>4 DEF Publish, Delivered
    <3>. QED BY <3>2, <3>3, <3>4
  <2>2. pc' = pc /\ subs' = subs \ Full /\ Full \subseteq subs
    BY <1>3 DEF Publish, Full
  <2>. QED BY <1>0, <2>1, <2>2 DEF ClosedOnce
<1>4. CASE Crash
  BY <1>4 DEF Crash, NewChannel, ClosedOnce
<1>5. ASSUME NEW c \in Clients, Handler(c) PROVE ClosedOnce'
  <2>1. CASE Connect(c)
    <3>1. /\ pc' = [pc EXCEPT ![c] = pc'[c]] /\ pc'[c] # "off"
          /\ chan' = [chan EXCEPT ![c] = NewChannel] /\ subs' = subs \cup {c}
      BY <2>1 DEF Connect, TypeOK
    <3>. QED BY <3>1 DEF NewChannel, ClosedOnce, TypeOK
  <2>2. CASE Query(c)
    <3>1. chan' = chan /\ subs' = subs /\ pc' = [pc EXCEPT ![c] = "live"] /\ pc[c] = "query"
      BY <2>2 DEF Query
    <3>. QED BY <3>1 DEF ClosedOnce, TypeOK
  <2>3. CASE Replay(c)
    <3>1. chan' = chan /\ subs' = subs /\ pc' = pc
      BY <2>3 DEF Replay
    <3>. QED BY <3>1 DEF ClosedOnce
  <2>4. CASE Receive(c)
    <3>1. subs' = subs /\ pc' = pc /\ \A d \in Clients : chan'[d].closed = chan[d].closed
      BY <2>4 DEF Receive, TypeOK
    <3>. QED BY <3>1 DEF ClosedOnce
  <2>5. CASE Gap(c) \/ Leave(c) \/ QueryFails(c)
    <3>1. Return(c) /\ pc[c] # "off"
      BY <2>5 DEF Gap, Leave, QueryFails
    <3>2. /\ subs' = subs \ {c} /\ pc' = [pc EXCEPT ![c] = "off"]
          /\ chan' = [chan EXCEPT ![c].closed = IF c \in subs THEN @ + 1 ELSE @]
      BY <3>1 DEF Return, Stop
    <3>3. chan'[c].closed = IF c \in subs THEN chan[c].closed + 1 ELSE chan[c].closed
      BY <3>2 DEF TypeOK
    <3>4. \A d \in Clients \ {c} : chan'[d] = chan[d] /\ pc'[d] = pc[d] /\ (d \in subs' <=> d \in subs)
      BY <3>2 DEF TypeOK
    <3>5. c \notin subs' /\ pc'[c] = "off" /\ chan'[c].closed <= 1
      BY <1>0, <3>1, <3>2, <3>3 DEF ClosedOnce, TypeOK
    <3>. QED BY <3>4, <3>5 DEF ClosedOnce
  <2>. QED BY <1>5, <2>1, <2>2, <2>3, <2>4, <2>5 DEF Handler
<1>. QED BY <1>1, <1>2, <1>3, <1>4, <1>5 DEF Next

\* No channel is closed twice or sent to after it was closed, and none stays
\* subscribed without a handler, however publishing and leaving interleave.
THEOREM ChannelsClosedOnce == Spec => []ClosedOnce
<1>1. Init => TypeOK /\ ClosedOnce
  BY SizesAssumption DEF Init, TypeOK, NewChannel, ClosedOnce
<1>2. TypeOK /\ ClosedOnce /\ [Next]_vars => (TypeOK /\ ClosedOnce)'
  BY NextType, ClosedStep
<1>. QED BY <1>1, <1>2, PTL DEF Spec

-----------------------------------------------------------------------------
\* What each connection has still to show.

Held(c) == {chan[c].buf[i] : i \in DOMAIN chan[c].buf}
Waiting(c) == replay[c] \cup Held(c)

\* The events a client may be at when it comes to the later ones.
Before(c) == {n \in {seen[c]} \cup Waiting(c) : n # 0 /\ n >= seen[c]}

\* Ids follow the order of issue.
Numbered ==
  /\ \A m, n \in DOMAIN issued : m < n => issued[m] < issued[n]
  /\ \A n \in DOMAIN issued : issued[n] < nextId
  /\ "append" \notin Faults => history = DOMAIN issued
  /\ pending # 0 => pending = Len(issued)

\* A channel holds events in the order of issue.
Queued(c) ==
  /\ \A i, j \in DOMAIN chan[c].buf : i < j => chan[c].buf[i] < chan[c].buf[j]
  /\ pending # 0 => \A n \in Held(c) : n < pending

Placed(c) ==
  /\ pc[c] # "off" => last[c] = LastEventId(c)
  /\ pc[c] = "query" => seen[c] # 0
  /\ pc[c] = "live" /\ seen[c] = 0 => replay[c] = {}

\* Nothing that is kept is missing between what a connection has shown and
\* what it has still to show; while it is subscribed, nothing at all.
Gapless(c) == pc[c] = "live" =>
  /\ \A n \in replay[c], m \in history : seen[c] < m /\ m < n => m \in replay[c]
  /\ \A n \in Held(c), m \in history, b \in Before(c) : b < m /\ m < n => m \in Waiting(c)
  /\ c \in subs => \A m \in history, b \in Before(c) : b < m => m \in Waiting(c) \cup {pending}

Connection(c) == Queued(c) /\ Placed(c) /\ Gapless(c)

StreamInv == TypeOK /\ Numbered /\ \A c \in Clients : Connection(c)

\* What the theorem asks: one page holds the history, and ids are not reused.
Kept == MaxEvents <= Page /\ ~({"append", "crash"} \subseteq Faults)

LEMMA ConnectionSame ==
  ASSUME NEW c, Connection(c), UNCHANGED storeVars, c \in subs' <=> c \in subs,
         chan'[c].buf = chan[c].buf, pc'[c] = pc[c], replay'[c] = replay[c],
         last'[c] = last[c], seen'[c] = seen[c]
  PROVE  Connection(c)'
<1>1. Held(c)' = Held(c) /\ Waiting(c)' = Waiting(c) /\ Before(c)' = Before(c)
  BY DEF Held, Waiting, Before
<1>2. LastEventId(c)' = LastEventId(c)
  BY DEF LastEventId, storeVars
<1>3. Queued(c)'
  BY <1>1 DEF Connection, Queued, storeVars
<1>4. Placed(c)'
  BY <1>2 DEF Connection, Placed
<1>5. Gapless(c)'
  BY <1>1 DEF Connection, Gapless, storeVars
<1>. QED BY <1>3, <1>4, <1>5 DEF Connection

\* A connection that is not live has nothing to prove but its queue.
LEMMA ConnectionOff ==
  ASSUME NEW c, Queued(c)', pc'[c] = "off"
  PROVE  Connection(c)'
  BY DEF Connection, Placed, Gapless

LEMMA NumberedStep ==
  ASSUME TypeOK, Numbered, Kept, [Next]_vars
  PROVE  Numbered'
<1>1. CASE UNCHANGED <<issued, nextId, history, pending>>
  BY <1>1 DEF Numbered
<1>2. CASE Record
  <2>1. issued' = Append(issued, nextId) /\ nextId' = nextId + 1 /\ pending' = Len(issued')
    BY <1>2 DEF Record
  <2>2. /\ Len(issued) \in Nat /\ Len(issued') = Len(issued) + 1 /\ nextId \in Nat
        /\ DOMAIN issued = 1 .. Len(issued) /\ DOMAIN issued' = 1 .. Len(issued')
        /\ \A n \in DOMAIN issued : issued'[n] = issued[n] /\ issued[n] \in Nat
        /\ issued'[Len(issued')] = nextId
    BY <2>1 DEF TypeOK
  <2>3. DOMAIN issued' = DOMAIN issued \cup {Len(issued')}
    BY <2>2
  <2>4. \A n \in DOMAIN issued' : issued'[n] < nextId'
    BY <2>1, <2>2, <2>3 DEF Numbered
  <2>5. ASSUME NEW m \in DOMAIN issued', NEW n \in DOMAIN issued', m < n PROVE issued'[m] < issued'[n]
    <3>1. m \in DOMAIN issued
      BY <2>2, <2>5
    <3>. QED BY <2>2, <2>3, <2>5, <3>1 DEF Numbered
  <2>6. "append" \notin Faults => history' = DOMAIN issued'
    BY <1>2, <2>3 DEF Record, Numbered
  <2>. QED BY <2>1, <2>4, <2>5, <2>6 DEF Numbered
<1>3. CASE Publish
  BY <1>3 DEF Publish, Numbered
<1>4. CASE Crash
  <2>1. history = DOMAIN issued
    BY <1>4 DEF Crash, Numbered, Kept
  <2>2. PICK k \in {0} \cup {issued[n] : n \in history} :
          (\A n \in history : issued[n] <= k) /\ nextId' = k + 1
    BY <1>4 DEF Crash
  <2>3. issued' = issued /\ history' = history /\ pending' = 0
    BY <1>4 DEF Crash
  <2>4. ASSUME NEW n \in DOMAIN issued PROVE issued[n] < nextId'
    BY <2>1, <2>2 DEF TypeOK
  <2>. QED BY <2>3, <2>4 DEF Numbered
<1>5. ASSUME NEW c \in Clients, Handler(c) PROVE UNCHANGED <<issued, nextId, history, pending>>
  BY <1>5 DEF Handler, Connect, Query, Replay, Receive, Gap, Leave, QueryFails, Return, storeVars
<1>. QED BY <1>1, <1>2, <1>3, <1>4, <1>5 DEF Next, vars, storeVars

LEMMA HeldType ==
  ASSUME TypeOK, NEW c \in Clients
  PROVE  /\ Held(c) \subseteq DOMAIN issued /\ Waiting(c) \subseteq DOMAIN issued
         /\ DOMAIN issued \subseteq Nat \ {0}
         /\ Before(c) \subseteq DOMAIN issued /\ seen[c] \in Nat
         /\ history \subseteq DOMAIN issued
<1>1. DOMAIN issued \subseteq Nat \ {0}
  BY DEF TypeOK
<1>2. chan[c].buf \in Seq(DOMAIN issued) /\ replay[c] \subseteq DOMAIN issued
      /\ seen[c] \in {0} \cup DOMAIN issued
  BY DEF TypeOK
<1>3. Held(c) \subseteq DOMAIN issued
  BY <1>2 DEF Held
<1>. QED BY <1>1, <1>2, <1>3 DEF Waiting, Before, TypeOK

\* A new event comes after everything a connection knows of.
LEMMA RecordConnection ==
  ASSUME StreamInv, Record, NEW c \in Clients
  PROVE  Connection(c)'
<1>1. /\ pending = 0 /\ pending' = Len(issued) + 1 /\ issued' = Append(issued, nextId)
      /\ history' \in {history, history \cup {pending'}}
      /\ UNCHANGED <<subs, chan, pc, replay, last, seen>>
  <2>1. Len(issued') = Len(issued) + 1
    BY DEF Record, StreamInv, TypeOK
  <2>. QED BY <2>1 DEF Record
<1>2. /\ Len(issued) \in Nat /\ DOMAIN issued = 1 .. Len(issued)
      /\ \A n \in DOMAIN issued : issued'[n] = issued[n] /\ n < pending'
  BY <1>1 DEF StreamInv, TypeOK
<1>3. /\ Held(c) \subseteq DOMAIN issued /\ replay[c] \subseteq DOMAIN issued
      /\ Before(c) \subseteq DOMAIN issued
  BY HeldType DEF StreamInv, TypeOK
<1>4. Held(c)' = Held(c) /\ Waiting(c)' = Waiting(c) /\ Before(c)' = Before(c)
  BY <1>1 DEF Held, Waiting, Before
<1>5. LastEventId(c)' = LastEventId(c)
  <2>1. seen[c] \in {0} \cup DOMAIN issued
    BY DEF StreamInv, TypeOK
  <2>. QED BY <1>1, <1>2, <2>1 DEF LastEventId
<1>6. Queued(c)'
  BY <1>1, <1>2, <1>3, <1>4 DEF StreamInv, Connection, Queued
<1>7. Placed(c)'
  BY <1>1, <1>5 DEF StreamInv, Connection, Placed
<1>8. Gapless(c)'
  <2>1. \A n \in DOMAIN issued : ~(pending' < n)
    BY <1>1, <1>2
  <2>2. \A m \in history' : m \in history \/ m = pending'
    BY <1>1
  <2>3. 0 \notin history
    BY <1>2 DEF StreamInv, TypeOK
  <2>4. Gapless(c)
    BY DEF StreamInv, Connection
  <2>. QED BY <1>1, <1>3, <1>4, <2>1, <2>2, <2>3, <2>4 DEF Gapless
<1>. QED BY <1>6, <1>7, <1>8 DEF Connection

\* What is published comes after all a channel holds; a channel that is full
\* stops there.
LEMMA PublishConnection ==
  ASSUME StreamInv, Publish, NEW c \in Clients
  PROVE  Connection(c)'
<1>1. /\ pending # 0 /\ pending' = 0 /\ issued' = issued /\ history' = history
      /\ UNCHANGED <<pc, replay, last, seen>> /\ subs' = subs \ Full
      /\ chan'[c] = Delivered[c]
  BY DEF Publish
<1>2. LastEventId(c)' = LastEventId(c)
  BY <1>1 DEF LastEventId
<1>3. Placed(c)'
  BY <1>1, <1>2 DEF StreamInv, Connection, Placed
<1>4. chan[c] \in [buf : Seq(DOMAIN issued), closed : Nat]
  BY DEF StreamInv, TypeOK
<1>5. Gapless(c) /\ Queued(c)
  BY DEF StreamInv, Connection
<1>6. CASE c \in Full \/ c \notin subs
  <2>1. chan'[c].buf = chan[c].buf /\ c \notin subs'
    <3>1. CASE c \in Full
      BY <1>1, <1>4, <3>1 DEF Delivered
    <3>2. CASE c \notin Full
      BY <1>1, <1>6, <3>2 DEF Delivered
    <3>. QED BY <1>1, <1>6, <3>1, <3>2
  <2>2. Held(c)' = Held(c) /\ Waiting(c)' = Waiting(c) /\ Before(c)' = Before(c)
    BY <1>1, <2>1 DEF Held, Waiting, Before
  <2>3. Queued(c)'
    BY <1>1, <1>5, <2>1 DEF Queued
  <2>4. Gapless(c)'
    BY <1>1, <1>5, <2>1, <2>2 DEF Gapless
  <2>. QED BY <1>3, <2>3, <2>4 DEF Connection
<1>7. CASE c \in subs /\ c \notin Full
  <2>1. chan'[c].buf = Append(chan[c].buf, pending)
    BY <1>1, <1>4, <1>7 DEF Delivered
  <2>2. pending \in DOMAIN issued /\ pending \in Nat /\ pending = Len(issued) /\ DOMAIN issued = 1 .. Len(issued)
    BY <1>1 DEF StreamInv, Numbered, TypeOK
  <2>3. /\ Len(chan[c].buf) \in Nat
        /\ DOMAIN chan[c].buf = 1 .. Len(chan[c].buf)
        /\ DOMAIN chan'[c].buf = 1 .. (Len(chan[c].buf) + 1)
        /\ \A i \in DOMAIN chan[c].buf : chan'[c].buf[i] = chan[c].buf[i]
        /\ chan'[c].buf[Len(chan[c].buf) + 1] = pending
    BY <1>4, <2>1, <2>2
  <2>4. Held(c)' = Held(c) \cup {pending}
    <3> DEFINE old == chan[c].buf
               new == chan'[c].buf
    <3>1. Held(c) = {old[i] : i \in DOMAIN old}
      BY DEF Held
    <3>2. Held(c)' = {new[i] : i \in DOMAIN new}
      BY DEF Held
    <3>3. /\ \A i \in DOMAIN old : i \in DOMAIN new /\ new[i] = old[i]
          /\ Len(old) + 1 \in DOMAIN new /\ new[Len(old) + 1] = pending
          /\ \A i \in DOMAIN new : i \in DOMAIN old \/ i = Len(old) + 1
      BY <2>3
    <3>. HIDE DEF old, new
    <3>4. Held(c)' \subseteq Held(c) \cup {pending}
      BY <3>1, <3>2, <3>3
    <3>5. Held(c) \cup {pending} \subseteq Held(c)'
      BY <3>1, <3>2, <3>3
    <3>. QED BY <3>4, <3>5
  <2>5. Waiting(c)' = Waiting(c) \cup {pending}
    BY <1>1, <2>4 DEF Waiting
  <2>6. \A b \in Before(c)' : b \in Before(c) \/ b = pending
    BY <1>1, <2>5 DEF Before
  <2>7. Queued(c)'
    <3>1. \A n \in Held(c) : n < pending
      BY <1>1, <1>5 DEF Queued
    <3>2. ASSUME NEW i \in DOMAIN chan'[c].buf, NEW j \in DOMAIN chan'[c].buf, i < j
          PROVE  chan'[c].buf[i] < chan'[c].buf[j]
      <4>1. i \in DOMAIN chan[c].buf
        BY <2>3, <3>2
      <4>2. chan'[c].buf[i] = chan[c].buf[i] /\ chan[c].buf[i] \in Held(c)
        BY <2>3, <4>1 DEF Held
      <4>3. CASE j \in DOMAIN chan[c].buf
        BY <1>5, <2>3, <3>2, <4>1, <4>3 DEF Queued
      <4>4. CASE j = Len(chan[c].buf) + 1
        BY <2>3, <3>1, <4>2, <4>4
      <4>. QED BY <2>3, <4>3, <4>4
    <3>. QED BY <1>1, <3>2 DEF Queued
  <2>8. Gapless(c)'
    <3> SUFFICES ASSUME pc[c] = "live" PROVE
          /\ \A n \in replay[c], m \in history : seen[c] < m /\ m < n => m \in replay[c]
          /\ \A m \in history, b \in Before(c)' : b < m => m \in Waiting(c)'
      BY <1>1 DEF Gapless
    <3>1. \A n \in replay[c], m \in history : seen[c] < m /\ m < n => m \in replay[c]
      BY <1>5 DEF Gapless
    <3>2. ASSUME NEW m \in history, NEW b \in Before(c)', b < m PROVE m \in Waiting(c)'
      <4>1. m \in Nat /\ ~(pending < m)
        BY <2>2 DEF StreamInv, TypeOK
      <4>2. b \in Before(c)
        BY <2>6, <3>2, <4>1
      <4>3. m \in Waiting(c) \cup {pending}
        BY <1>5, <1>7, <3>2, <4>2 DEF Gapless
      <4>. QED BY <2>5, <4>3
    <3>. QED BY <3>1, <3>2
  <2>. QED BY <1>3, <2>7, <2>8 DEF Connection
<1>. QED BY <1>6, <1>7

LEMMA ConnectConnection ==
  ASSUME StreamInv, NEW c \in Clients, Connect(c)
  PROVE  Connection(c)'
<1>1. /\ chan'[c] = NewChannel /\ replay'[c] = {} /\ last'[c] = LastEventId(c)
      /\ pc'[c] = IF LastEventId(c) > 0 THEN "query" ELSE "live"
      /\ issued' = issued /\ seen' = seen
  BY DEF Connect, storeVars, StreamInv, TypeOK
<1>2. LastEventId(c)' = LastEventId(c)
  BY <1>1 DEF LastEventId
<1>3. LastEventId(c) > 0 <=> seen[c] # 0
  BY DEF LastEventId, StreamInv, TypeOK
<1>4. Held(c)' = {} /\ Waiting(c)' = {}
  BY <1>1 DEF Held, Waiting, NewChannel
<1>5. Queued(c)'
  BY <1>1, <1>4 DEF Queued, NewChannel
<1>6. Placed(c)'
  BY <1>1, <1>2, <1>3 DEF Placed
<1>7. Gapless(c)'
  <2>1. pc'[c] = "live" => Before(c)' = {}
    BY <1>1, <1>3, <1>4 DEF Before
  <2>. QED BY <1>1, <1>4, <2>1 DEF Gapless
<1>. QED BY <1>5, <1>6, <1>7 DEF Connection

LEMMA FewerThan ==
  ASSUME NEW k \in Nat, NEW n \in 1 .. k, NEW S, \A m \in S : m \in 1 .. k /\ m # n
  PROVE  Cardinality(S) < k /\ Cardinality(S) \in Nat
<1> DEFINE I == 1 .. k
<1>1. IsFiniteSet(I) /\ Cardinality(I) = k
  <2>1. IsFiniteSet(1 .. k) /\ Cardinality(1 .. k) = IF 1 > k THEN 0 ELSE k - 1 + 1
    BY FS_Interval
  <2>. QED BY <2>1
<1>2. n \in I /\ S \subseteq I \ {n}
  OBVIOUS
<1> HIDE DEF I
<1>3. IsFiniteSet(I \ {n}) /\ Cardinality(I \ {n}) = k - 1
  BY <1>1, <1>2, FS_RemoveElement
<1>4. IsFiniteSet(S) /\ Cardinality(S) <= Cardinality(I \ {n})
  BY <1>2, <1>3, FS_Subset
<1>5. Cardinality(S) \in Nat
  BY <1>4, FS_CardinalityType
<1>. QED BY <1>3, <1>4, <1>5

\* With a page that holds the history, nothing kept and later is left out.
LEMMA MissedAll ==
  ASSUME StreamInv, Kept, NEW id
  PROVE  Missed(id) = {n \in history : issued[n] > id}
<1> DEFINE after == {n \in history : issued[n] > id}
<1>1. ASSUME NEW n \in after PROVE Cardinality({m \in after : issued[m] < issued[n]}) < Page
  <2> DEFINE S == {m \in after : issued[m] < issued[n]}
  <2>1. DOMAIN issued = 1 .. Len(issued) /\ Len(issued) \in Nat /\ Len(issued) <= MaxEvents
    BY DEF StreamInv, TypeOK
  <2>2. history \subseteq 1 .. Len(issued) /\ issued[n] \in Nat /\ n \in 1 .. Len(issued)
    BY <2>1 DEF StreamInv, TypeOK
  <2>3. ASSUME NEW m \in S PROVE m \in 1 .. Len(issued) /\ m # n
    BY <2>2, <2>3
  <2> HIDE DEF S
  <2>6. Cardinality(S) < Len(issued) /\ Cardinality(S) \in Nat
    BY <2>1, <2>2, <2>3, FewerThan
  <2>7. Cardinality(S) < Page
    BY <2>1, <2>6, SizesAssumption DEF Kept
  <2>. QED BY <2>7 DEF S
<1>. QED BY <1>1 DEF Missed

LEMMA QueryConnection ==
  ASSUME StreamInv, Kept, NEW c \in Clients, Query(c)
  PROVE  Connection(c)'
<1>1. /\ pc[c] = "query" /\ pc'[c] = "live" /\ replay'[c] = Missed(last[c])
      /\ UNCHANGED <<issued, history, pending, subs, chan, last, seen>>
  BY DEF Query, storeVars, StreamInv, TypeOK
<1>2. Queued(c) /\ Placed(c)
  BY DEF StreamInv, Connection
<1>3. seen[c] # 0 /\ last[c] = issued[seen[c]] /\ seen[c] \in DOMAIN issued
  BY <1>1, <1>2 DEF Placed, LastEventId, StreamInv, TypeOK
<1>4. ASSUME NEW m \in history PROVE issued[m] > last[c] <=> m > seen[c]
  BY <1>3 DEF StreamInv, TypeOK, Numbered
<1>5. replay'[c] = {m \in history : m > seen[c]}
  BY <1>1, <1>4, MissedAll
<1>6. Held(c)' = Held(c) /\ replay'[c] \subseteq Waiting(c)'
  BY <1>1 DEF Held, Waiting
<1>7. Queued(c)'
  BY <1>1, <1>2, <1>6 DEF Queued
<1>8. Placed(c)'
  BY <1>1, <1>2, <1>3 DEF Placed, LastEventId
<1>9. Gapless(c)'
  <2>1. ASSUME NEW m \in history, NEW b \in Before(c)', b < m PROVE m \in Waiting(c)'
    <3>1. seen[c] \in Nat /\ history \subseteq Nat /\ Held(c) \subseteq Nat
      BY HeldType DEF StreamInv
    <3>2. Before(c)' \subseteq {seen[c]} \cup history \cup Held(c) /\ b >= seen[c]
      BY <1>1, <1>5, <1>6 DEF Before, Waiting
    <3>3. m > seen[c]
      <4>1. b \in Nat /\ m \in Nat
        BY <3>1, <3>2
      <4>. QED BY <2>1, <3>1, <3>2, <4>1
    <3>. QED BY <1>5, <1>6, <3>3
  <2>2. \A n \in replay'[c], m \in history : seen[c] < m /\ m < n => m \in replay'[c]
    BY <1>5
  <2>. QED BY <1>1, <2>1, <2>2 DEF Gapless
<1>. QED BY <1>7, <1>8, <1>9 DEF Connection

\* Sending moves a client to the event, or leaves it beyond the event.
LEMMA SendMoves ==
  ASSUME StreamInv, NEW c \in Clients, pc[c] # "off", NEW n \in DOMAIN issued, Send(c, n)
  PROVE  /\ \/ n <= seen[c] /\ seen' = seen /\ last' = last
            \/ /\ seen[c] < n /\ seen'[c] = n /\ last'[c] = issued[n]
               /\ seen' = [seen EXCEPT ![c] = n] /\ last' = [last EXCEPT ![c] = issued[n]]
         /\ last'[c] = IF seen'[c] = 0 THEN 0 ELSE issued[seen'[c]]
<1>1. last[c] = IF seen[c] = 0 THEN 0 ELSE issued[seen[c]]
  BY DEF StreamInv, Connection, Placed, LastEventId
<1>2. /\ seen[c] \in {0} \cup DOMAIN issued /\ seen[c] \in Nat
      /\ n \in Nat \ {0} /\ issued[n] \in Nat \ {0}
  BY DEF StreamInv, TypeOK
<1>3. issued[n] <= last[c] <=> n <= seen[c]
  <2>1. CASE seen[c] = 0
    BY <1>1, <1>2, <2>1
  <2>2. CASE seen[c] # 0
    <3>1. seen[c] \in DOMAIN issued /\ seen[c] \in Nat /\ issued[seen[c]] \in Nat /\ last[c] = issued[seen[c]]
      BY <1>1, <1>2, <2>2 DEF StreamInv, TypeOK
    <3>2. n < seen[c] => issued[n] < issued[seen[c]]
      BY <3>1 DEF StreamInv, Numbered
    <3>3. seen[c] < n => issued[seen[c]] < issued[n]
      BY <3>1 DEF StreamInv, Numbered
    <3>. QED BY <1>2, <3>1, <3>2, <3>3
  <2>. QED BY <2>1, <2>2
<1>4. CASE issued[n] <= last[c]
  BY <1>1, <1>3, <1>4 DEF Send
<1>5. CASE ~(issued[n] <= last[c])
  <2>1. seen[c] < n
    BY <1>2, <1>3, <1>5
  <2>2. last' = [last EXCEPT ![c] = issued[n]] /\ seen' = [seen EXCEPT ![c] = n]
    BY <1>5 DEF Send
  <2>. QED BY <1>2, <2>1, <2>2 DEF StreamInv, TypeOK
<1>. QED BY <1>4, <1>5

LEMMA ReplayConnection ==
  ASSUME StreamInv, NEW c \in Clients, Replay(c)
  PROVE  /\ Connection(c)'
         /\ seen'[c] # seen[c] =>
              /\ seen'[c] > seen[c]
              /\ seen[c] # 0 => \A m \in history : m <= seen[c] \/ seen'[c] <= m
<1>1. PICK n \in replay[c] :
        /\ \A m \in replay[c] : issued[n] <= issued[m]
        /\ Send(c, n)
        /\ replay'[c] = replay[c] \ {n}
  BY DEF Replay, StreamInv, TypeOK
<1>2. pc[c] = "live" /\ UNCHANGED <<issued, nextId, history, pending, subs, chan, pc>>
  BY DEF Replay, storeVars
<1>3. /\ replay[c] \subseteq DOMAIN issued /\ history \subseteq DOMAIN issued /\ Held(c) \subseteq DOMAIN issued
      /\ DOMAIN issued \subseteq Nat \ {0} /\ seen[c] \in Nat
  BY HeldType DEF StreamInv, TypeOK
<1>4. \A m \in replay[c] : n <= m
  <2>1. ASSUME NEW m \in replay[c], m < n PROVE FALSE
    <3>1. issued[m] < issued[n] /\ issued[n] <= issued[m]
      BY <1>1, <1>3, <2>1 DEF StreamInv, Numbered
    <3>. QED BY <1>1, <1>3, <3>1 DEF StreamInv, TypeOK
  <2>. QED BY <1>1, <1>3, <2>1
<1>5. Queued(c) /\ Placed(c) /\ Gapless(c) /\ seen[c] # 0
  BY <1>1, <1>2 DEF StreamInv, Connection, Placed
<1>6. /\ \/ n <= seen[c] /\ seen'[c] = seen[c]
         \/ seen[c] < n /\ seen'[c] = n
      /\ last'[c] = IF seen'[c] = 0 THEN 0 ELSE issued[seen'[c]]
  BY <1>1, <1>2, <1>3, SendMoves
<1>7. seen[c] <= seen'[c] /\ n <= seen'[c] /\ seen'[c] \in Nat \ {0}
  BY <1>1, <1>3, <1>5, <1>6
<1>8. Held(c)' = Held(c) /\ Waiting(c)' \cup {n} = Waiting(c) \cup {n}
  BY <1>1, <1>2 DEF Held, Waiting
<1>9. \A b \in Before(c)' : b >= seen'[c] /\ b \in Nat /\ (b \in Before(c) \/ b = n)
  BY <1>1, <1>2, <1>3, <1>6, <1>7, <1>8 DEF Before, Waiting
<1>10. Before(c)' \subseteq Before(c)
  BY <1>1, <1>3, <1>6, <1>9 DEF Before, Waiting
<1>11. Queued(c)'
  BY <1>2, <1>5, <1>8 DEF Queued
<1>12. Placed(c)'
  BY <1>2, <1>6, <1>7 DEF Placed, LastEventId
<1>13. Gapless(c)'
  <2>1. ASSUME NEW k \in replay'[c], NEW m \in history, seen'[c] < m, m < k PROVE m \in replay'[c]
    <3>1. m \in Nat /\ seen[c] < m /\ m # n /\ k \in replay[c]
      BY <1>1, <1>3, <1>7, <2>1
    <3>. QED BY <1>1, <1>2, <1>5, <2>1, <3>1 DEF Gapless
  <2>2. ASSUME NEW m \in history, NEW b \in Before(c)', b < m PROVE m # n
    BY <1>1, <1>3, <1>7, <1>9, <2>2
  <2>3. ASSUME NEW k \in Held(c), NEW m \in history, NEW b \in Before(c)', b < m, m < k
        PROVE  m \in Waiting(c)'
    <3>1. m \in Waiting(c)
      BY <1>2, <1>5, <1>10, <2>3 DEF Gapless
    <3>. QED BY <1>8, <2>2, <2>3, <3>1
  <2>4. ASSUME c \in subs, NEW m \in history, NEW b \in Before(c)', b < m
        PROVE  m \in Waiting(c)' \cup {pending}
    <3>1. m \in Waiting(c) \cup {pending}
      BY <1>2, <1>5, <1>10, <2>4 DEF Gapless
    <3>. QED BY <1>8, <2>2, <2>4, <3>1
  <2>. QED BY <1>2, <1>8, <2>1, <2>3, <2>4 DEF Gapless
<1>14. ASSUME seen'[c] # seen[c], NEW m \in history, seen[c] < m, m < seen'[c] PROVE FALSE
  <2>1. seen'[c] = n /\ m \in Nat
    BY <1>3, <1>6, <1>14
  <2>2. m \in replay[c]
    BY <1>1, <1>2, <1>5, <1>14, <2>1 DEF Gapless
  <2>. QED BY <1>1, <1>3, <1>4, <1>14, <2>1, <2>2
<1>15. seen'[c] # seen[c] => seen'[c] > seen[c]
  BY <1>3, <1>7
<1>16. ASSUME seen'[c] # seen[c], NEW m \in history PROVE m <= seen[c] \/ seen'[c] <= m
  <2>1. m \in Nat
    BY <1>3
  <2>. QED BY <1>3, <1>7, <1>14, <1>16, <2>1
<1>. QED BY <1>11, <1>12, <1>13, <1>15, <1>16 DEF Connection

LEMMA ReceiveConnection ==
  ASSUME StreamInv, NEW c \in Clients, Receive(c)
  PROVE  /\ Connection(c)'
         /\ seen'[c] # seen[c] =>
              /\ seen'[c] > seen[c]
              /\ seen[c] # 0 => \A m \in history : m <= seen[c] \/ seen'[c] <= m
<1> DEFINE q == chan[c].buf
           n == Head(chan[c].buf)
<1>1. /\ pc[c] = "live" /\ replay[c] = {} /\ q # <<>>
      /\ Send(c, n) /\ chan'[c].buf = Tail(q)
      /\ UNCHANGED <<issued, nextId, history, pending, subs, pc, replay>>
  BY DEF Receive, storeVars, StreamInv, TypeOK
<1>2. q \in Seq(DOMAIN issued)
  BY DEF StreamInv, TypeOK
<1>3. /\ n = q[1] /\ 1 \in DOMAIN q /\ n \in DOMAIN issued
      /\ Tail(q) \in Seq(DOMAIN issued) /\ Len(q) = Len(Tail(q)) + 1 /\ Len(Tail(q)) \in Nat
      /\ \A i \in 1 .. Len(Tail(q)) : Tail(q)[i] = q[i + 1]
  <2>1. q # <<>> /\ n = Head(q)
    BY <1>1
  <2>. HIDE DEF q, n
  <2>. QED BY <1>2, <2>1, HeadTail
<1>4. /\ history \subseteq DOMAIN issued /\ Held(c) \subseteq DOMAIN issued
      /\ DOMAIN issued \subseteq Nat \ {0} /\ seen[c] \in Nat
  BY HeldType DEF StreamInv, TypeOK
<1>5. Queued(c) /\ Placed(c) /\ Gapless(c)
  BY DEF StreamInv, Connection
<1>6. /\ \/ n <= seen[c] /\ seen'[c] = seen[c]
         \/ seen[c] < n /\ seen'[c] = n
      /\ last'[c] = IF seen'[c] = 0 THEN 0 ELSE issued[seen'[c]]
  <2>1. \/ n <= seen[c] /\ seen' = seen /\ last' = last
        \/ seen[c] < n /\ seen'[c] = n /\ last'[c] = issued[n]
    BY <1>1, <1>3, SendMoves
  <2>2. last'[c] = IF seen'[c] = 0 THEN 0 ELSE issued[seen'[c]]
    BY <1>1, <1>3, SendMoves
  <2>. QED BY <2>1, <2>2
<1>q. DOMAIN q = 1 .. Len(q) /\ DOMAIN Tail(q) = 1 .. Len(Tail(q))
  BY <1>2, <1>3
<1>t. /\ \A i \in DOMAIN Tail(q) : i + 1 \in DOMAIN q
      /\ \A i \in DOMAIN q \ {1} : i - 1 \in DOMAIN Tail(q) /\ (i - 1) + 1 = i
  BY <1>3, <1>q
<1>r. \A i \in DOMAIN q \ {1} : Tail(q)[i - 1] = q[i]
  BY <1>3, <1>q, <1>t
<1>7. Held(c) = Held(c)' \cup {n}
  <2>1. Held(c) = {q[i] : i \in DOMAIN q}
    BY DEF Held
  <2>2. Held(c)' = {Tail(q)[i] : i \in DOMAIN Tail(q)}
    BY <1>1 DEF Held
  <2>. HIDE DEF q, n
  <2>3. Held(c)' \subseteq Held(c)
    BY <1>3, <1>q, <1>t, <2>1, <2>2
  <2>4. Held(c) \subseteq Held(c)' \cup {n}
    BY <1>3, <1>q, <1>t, <1>r, <2>1, <2>2
  <2>5. n \in Held(c)
    BY <1>3, <2>1
  <2>. QED BY <2>3, <2>4, <2>5
<1>8. \A i, j \in DOMAIN q : i < j => q[i] < q[j]
  BY <1>5 DEF Queued
<1>9. \A k \in Held(c) : n <= k
  <2>1. ASSUME NEW i \in DOMAIN q PROVE q[1] <= q[i]
    <3>1. i = 1 \/ 1 < i
      BY <1>q, <2>1
    <3>2. q[1] \in Nat /\ q[i] \in Nat
      BY <1>2, <1>3, <1>4
    <3>. QED BY <1>3, <1>8, <2>1, <3>1, <3>2
  <2>. QED BY <1>3, <2>1 DEF Held
<1>10. Queued(c)'
  <2>1. ASSUME NEW i \in DOMAIN Tail(q), NEW j \in DOMAIN Tail(q), i < j PROVE Tail(q)[i] < Tail(q)[j]
    <3>1. i + 1 < j + 1
      BY <1>3, <1>q, <2>1
    <3>2. Tail(q)[i] = q[i + 1] /\ Tail(q)[j] = q[j + 1]
      BY <1>3, <1>q
    <3>. QED BY <1>8, <1>t, <3>1, <3>2
  <2>. QED BY <1>1, <1>5, <1>7, <2>1 DEF Queued
<1> HIDE DEF q, n
<1>11. n \in Held(c) /\ Waiting(c) = Held(c) /\ Waiting(c)' = Held(c)'
  BY <1>1, <1>7 DEF Waiting
<1>12. seen[c] <= seen'[c] /\ n <= seen'[c] /\ seen'[c] \in Nat \ {0}
  BY <1>3, <1>4, <1>6
<1>13. \A b \in Before(c)' : b >= seen'[c] /\ b \in Nat /\ b \in Before(c)
  BY <1>3, <1>4, <1>6, <1>7, <1>11, <1>12 DEF Before
<1>14. Placed(c)'
  BY <1>1, <1>6, <1>12 DEF Placed, LastEventId
<1>15. Gapless(c)'
  <2>1. ASSUME NEW m \in history, NEW b \in Before(c)', b < m PROVE m # n
    BY <1>3, <1>4, <1>12, <1>13, <2>1
  <2>2. ASSUME NEW k \in Held(c)', NEW m \in history, NEW b \in Before(c)', b < m, m < k
        PROVE  m \in Waiting(c)'
    <3>1. m \in Waiting(c)
      BY <1>1, <1>5, <1>7, <1>13, <2>2 DEF Gapless
    <3>. QED BY <1>7, <1>11, <2>1, <2>2, <3>1
  <2>3. ASSUME c \in subs, NEW m \in history, NEW b \in Before(c)', b < m
        PROVE  m \in Waiting(c)' \cup {pending}
    <3>1. m \in Waiting(c) \cup {pending}
      BY <1>1, <1>5, <1>13, <2>3 DEF Gapless
    <3>. QED BY <1>7, <1>11, <2>1, <2>3, <3>1
  <2>. QED BY <1>1, <2>2, <2>3 DEF Gapless
<1>16. ASSUME seen'[c] # seen[c], seen[c] # 0, NEW m \in history, seen[c] < m, m < seen'[c] PROVE FALSE
  <2>1. seen'[c] = n /\ m \in Nat
    BY <1>4, <1>6, <1>16
  <2>2. seen[c] \in Before(c)
    BY <1>4, <1>16 DEF Before
  <2>3. m \in Held(c)
    BY <1>1, <1>5, <1>11, <1>16, <2>1, <2>2 DEF Gapless
  <2>. QED BY <1>3, <1>4, <1>9, <1>16, <2>1, <2>3
<1>17. seen'[c] # seen[c] => seen'[c] > seen[c]
  BY <1>4, <1>12
<1>18. ASSUME seen'[c] # seen[c], seen[c] # 0, NEW m \in history PROVE m <= seen[c] \/ seen'[c] <= m
  <2>1. m \in Nat
    BY <1>4
  <2>. QED BY <1>4, <1>12, <1>16, <1>18, <2>1
<1>. QED BY <1>10, <1>14, <1>15, <1>17, <1>18 DEF Connection

\* One client's step, and what it leaves of the others.
LEMMA HandlerConnection ==
  ASSUME StreamInv, Kept, NEW c \in Clients, Handler(c)
  PROVE  /\ Connection(c)'
         /\ seen'[c] # seen[c] =>
              /\ seen'[c] > seen[c]
              /\ seen[c] # 0 => \A m \in history : m <= seen[c] \/ seen'[c] <= m
<1>1. CASE Connect(c)
  BY <1>1, ConnectConnection DEF Connect
<1>2. CASE Query(c)
  BY <1>2, QueryConnection DEF Query
<1>3. CASE Replay(c)
  BY <1>3, ReplayConnection
<1>4. CASE Receive(c)
  BY <1>4, ReceiveConnection
<1>5. CASE Gap(c) \/ Leave(c) \/ QueryFails(c)
  <2>1. Return(c)
    BY <1>5 DEF Gap, Leave, QueryFails
  <2>2. chan'[c].buf = chan[c].buf
    BY <2>1, StopType DEF Return, StreamInv
  <2>3. pc'[c] = "off" /\ pending' = pending /\ seen' = seen
    BY <2>1 DEF Return, storeVars, StreamInv, TypeOK
  <2>4. Queued(c)'
    BY <2>2, <2>3 DEF StreamInv, Connection, Queued, Held
  <2>. QED BY <2>3, <2>4, ConnectionOff
<1>. QED BY <1>1, <1>2, <1>3, <1>4, <1>5 DEF Handler

LEMMA OthersConnection ==
  ASSUME StreamInv, NEW c \in Clients, Handler(c), NEW d \in Clients \ {c}
  PROVE  Connection(d)' /\ seen'[d] = seen[d]
<1>1. CASE Gap(c) \/ Leave(c) \/ QueryFails(c)
  <2>1. Return(c)
    BY <1>1 DEF Gap, Leave, QueryFails
  <2>2. chan'[d].buf = chan[d].buf
    BY <2>1, StopType DEF Return, StreamInv
  <2>3. /\ UNCHANGED storeVars /\ (d \in subs' <=> d \in subs)
        /\ pc'[d] = pc[d] /\ replay'[d] = replay[d] /\ last'[d] = last[d] /\ seen'[d] = seen[d]
    BY <2>1 DEF Return, Stop, StreamInv, TypeOK
  <2>. QED BY <2>2, <2>3, ConnectionSame DEF StreamInv
<1>2. CASE Connect(c) \/ Query(c) \/ Replay(c) \/ Receive(c)
  <2>1. /\ UNCHANGED storeVars /\ (d \in subs' <=> d \in subs) /\ chan'[d] = chan[d]
        /\ pc'[d] = pc[d] /\ replay'[d] = replay[d]
    BY <1>2 DEF Connect, Query, Replay, Receive, StreamInv, TypeOK
  <2>2. last'[d] = last[d] /\ seen'[d] = seen[d]
    BY <1>2 DEF Connect, Query, Replay, Receive, Send, StreamInv, TypeOK
  <2>. QED BY <2>1, <2>2, ConnectionSame DEF StreamInv
<1>. QED BY <1>1, <1>2 DEF Handler

LEMMA StreamStep ==
  ASSUME StreamInv, Kept, [Next]_vars
  PROVE  StreamInv'
<1>1. TypeOK' /\ Numbered'
  BY NextType, NumberedStep DEF StreamInv
<1>2. ASSUME NEW c \in Clients PROVE Connection(c)'
  <2>1. CASE UNCHANGED vars
    BY <2>1, ConnectionSame DEF vars, StreamInv
  <2>2. CASE Record
    BY <2>2, RecordConnection
  <2>3. CASE Publish
    BY <2>3, PublishConnection
  <2>4. CASE Crash
    <3>1. chan'[c] = NewChannel /\ pc'[c] = "off" /\ pending' = 0
      BY <2>4 DEF Crash
    <3>2. Queued(c)'
      BY <3>1 DEF Queued, NewChannel
    <3>. QED BY <3>1, <3>2, ConnectionOff
  <2>5. ASSUME NEW d \in Clients, Handler(d) PROVE Connection(c)'
    BY <2>5, HandlerConnection, OthersConnection
  <2>. QED BY <2>1, <2>2, <2>3, <2>4, <2>5 DEF Next
<1>. QED BY <1>1, <1>2 DEF StreamInv

\* While one page holds the history and ids are not reused, a client that has
\* received an event receives the kept ones after it in order, none left out
\* and none twice, over all its connections and for any number of clients.
THEOREM NothingLost ==
  ASSUME Kept
  PROVE  Spec => NoneLost
<1>1. Init => StreamInv
  BY SizesAssumption DEF Init, StreamInv, TypeOK, NewChannel, Numbered, Connection, Queued, Placed,
                         Gapless, Held
<1>2. StreamInv /\ [Next]_vars => StreamInv'
  BY StreamStep
<1>3. StreamInv /\ [Next]_vars =>
        [\A c \in Clients : seen'[c] # seen[c] =>
           /\ seen'[c] > seen[c]
           /\ seen[c] # 0 => \A m \in history : m <= seen[c] \/ seen'[c] <= m]_vars
  <2> SUFFICES ASSUME StreamInv, Next, NEW c \in Clients, seen'[c] # seen[c]
               PROVE  /\ seen'[c] > seen[c]
                      /\ seen[c] # 0 => \A m \in history : m <= seen[c] \/ seen'[c] <= m
    OBVIOUS
  <2>1. PICK d \in Clients : Handler(d)
    BY DEF Next, Record, Publish, Crash
  <2>2. c = d
    BY <2>1, OthersConnection
  <2>. QED BY <2>1, <2>2, HandlerConnection
<1>. QED BY <1>1, <1>2, <1>3, PTL DEF Spec, NoneLost

====
