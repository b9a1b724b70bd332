--------------------------- MODULE EventBusProofs ---------------------------
(***************************************************************************)
(* The safety properties of the event bus, for any connections, any size   *)
(* of the queues and of the activity log, and any number of events.        *)
(*                                                                         *)
(*   TypeCorrect           Spec => []TypeOK                                *)
(*   StreamsHaveNoGap      Spec => []StreamHasNoGap                        *)
(*   OnlyLaggardsDropped   Spec => DroppedOnlyWhenBehind                   *)
(*   LogClosesTheGap       Spec => []ActivityClosesTheGap                  *)
(*                                                                         *)
(* The invariant says of every position of a queue, of what was yielded    *)
(* and of the log which event is there; the sequences of the properties    *)
(* follow from that.                                                       *)
(***************************************************************************)
EXTENDS EventBus, TLAPS

\* How many events a connection yielded, has queued, and was given.
Taken(c) == Len(got[c])
Queued(c) == Len(queue[c])
Given(c) == Taken(c) + Queued(c)

GotPart(c) == \A i \in 1 .. Taken(c) : got[c][i] = joined[c] + i
QueuePart(c) == \A i \in 1 .. Queued(c) : queue[c][i] = joined[c] + Taken(c) + i
PlacePart(c) ==
    /\ joined[c] + Given(c) <= published
    /\ c \in subscribers => joined[c] + Given(c) = published /\ conn[c] \in {"open", "cut"}
    /\ conn[c] = "new" => got[c] = <<>> /\ queue[c] = <<>>
StreamInv(c) == GotPart(c) /\ QueuePart(c) /\ PlacePart(c)

LogInv ==
    /\ Len(activity) = IF LogSize <= published THEN LogSize ELSE published
    /\ \A i \in 1 .. Len(activity) : activity[i] = published + 1 - i

BusInv == TypeOK /\ LogInv /\ \A c \in Clients : StreamInv(c)

LEMMA MinOfTwo ==
    ASSUME NEW a \in Nat, NEW b \in Nat
    PROVE  Min({a, b}) = IF a <= b THEN a ELSE b
BY DEF Min

LEMMA Offset ==
    ASSUME NEW a \in Nat, NEW b \in Nat, NEW i \in 1 .. a + b, i > a
    PROVE  \E k \in 1 .. b : k \in Nat /\ i = a + k
<1> WITNESS i - a \in 1 .. b
<1> QED  OBVIOUS

LEMMA Concatenation ==
    ASSUME NEW S, NEW s \in Seq(S), NEW t \in Seq(S)
    PROVE  /\ s \o t \in Seq(S) /\ Len(s \o t) = Len(s) + Len(t)
           /\ \A i \in 1 .. Len(s) : (s \o t)[i] = s[i]
           /\ \A k \in 1 .. Len(t) : (s \o t)[Len(s) + k] = t[k]
OBVIOUS

LEMMA StreamTypes ==
    ASSUME TypeOK, NEW c \in Clients
    PROVE  /\ published \in Nat /\ joined[c] \in Nat
           /\ queue[c] \in Seq(Events) /\ Queued(c) \in Nat /\ Queued(c) <= QueueSize
           /\ got[c] \in Seq(Events) /\ Taken(c) \in Nat /\ Given(c) \in Nat
           /\ QueueSize \in Nat \ {0} /\ LogSize \in Nat /\ MaxEvents \in Nat
<1>1. published \in Nat /\ joined[c] \in Nat
  BY SizesAssumption DEF TypeOK
<1>2. /\ queue[c] \in Seq(Events) /\ Len(queue[c]) <= QueueSize /\ got[c] \in Seq(Events)
  BY DEF TypeOK
<1>3. Queued(c) \in Nat /\ Queued(c) <= QueueSize
  BY <1>2 DEF Queued
<1>4. Taken(c) \in Nat
  BY <1>2 DEF Taken
<1>5. Given(c) \in Nat
  BY <1>3, <1>4 DEF Given
<1> QED  BY <1>1, <1>2, <1>3, <1>4, <1>5, SizesAssumption

LEMMA BusInit == Init => BusInv
<1> SUFFICES ASSUME Init PROVE BusInv
  OBVIOUS
<1>1. TypeOK
  BY SizesAssumption DEF Init, TypeOK, Events
<1>2. LogInv
  BY SizesAssumption DEF Init, LogInv
<1>3. \A c \in Clients : StreamInv(c)
  BY DEF Init, StreamInv, GotPart, QueuePart, PlacePart, Given, Taken, Queued
<1> QED  BY <1>1, <1>2, <1>3 DEF BusInv

\* What the log holds after one more event.
LEMMA LogStep ==
    ASSUME TypeOK, LogInv, published < MaxEvents, published' = published + 1,
           activity' = AppendLeft(activity, published + 1)
    PROVE  activity' \in Seq(Events) /\ Len(activity') <= LogSize /\ LogInv'
<1> DEFINE long == <<published + 1>> \o activity
           n == IF LogSize <= Len(activity) + 1 THEN LogSize ELSE Len(activity) + 1
<1>1. published \in Nat /\ activity \in Seq(Events) /\ LogSize \in Nat /\ Len(activity) <= LogSize
  BY SizesAssumption DEF TypeOK, Events
<1>2. published + 1 \in Events
  BY <1>1, SizesAssumption DEF Events
<1>3. /\ long \in Seq(Events) /\ Len(long) = Len(activity) + 1
      /\ \A i \in 1 .. Len(long) : long[i] = published + 2 - i
  <2>1. long \in Seq(Events) /\ Len(long) = Len(activity) + 1 /\ long[1] = published + 1
    BY <1>1, <1>2
  <2>2. ASSUME NEW i \in 1 .. Len(long), i # 1
        PROVE  long[i] = published + 2 - i
    <3>1. i - 1 \in 1 .. Len(activity) /\ long[i] = activity[i - 1]
      BY <1>1, <1>2, <2>1, <2>2
    <3>2. activity[i - 1] = published + 1 - (i - 1)
      BY <3>1 DEF LogInv
    <3> QED  BY <1>1, <2>1, <3>1, <3>2
  <2> QED  BY <1>1, <2>1, <2>2
<1>4. activity' = SubSeq(long, 1, n) /\ n \in 0 .. Len(long)
  <2>1. Len(activity) \in Nat /\ Len(activity) + 1 \in Nat
    BY <1>1
  <2>2. Min({LogSize, Len(activity) + 1}) = n
    BY <1>1, <2>1, MinOfTwo
  <2>3. activity' = SubSeq(long, 1, n)
    BY <2>2 DEF AppendLeft
  <2> QED  BY <1>1, <1>3, <2>1, <2>3
<1> HIDE DEF long, n
<1>5. /\ activity' \in Seq(Events) /\ Len(activity') = n
      /\ \A i \in 1 .. n : activity'[i] = long[i]
  BY <1>3, <1>4
<1>6. n = IF LogSize <= published + 1 THEN LogSize ELSE published + 1
  BY <1>1 DEF LogInv, n
<1>7. \A i \in 1 .. n : activity'[i] = published + 2 - i
  BY <1>3, <1>4, <1>5
<1> QED  BY <1>1, <1>5, <1>6, <1>7 DEF LogInv

\* A step that leaves the log alone.
LEMMA LogRests == LogInv /\ UNCHANGED <<published, activity>> => LogInv'
BY DEF LogInv

LEMMA PublishKeeps == BusInv /\ Publish => BusInv'
<1> SUFFICES ASSUME BusInv, Publish PROVE BusInv'
  OBVIOUS
<1>1. TypeOK /\ LogInv /\ published \in Nat /\ published + 1 \in Events
  BY SizesAssumption DEF BusInv, Publish, TypeOK, Events
<1>2. activity' \in Seq(Events) /\ Len(activity') <= LogSize /\ LogInv'
  BY <1>1, LogStep DEF Publish
<1>3. ASSUME NEW c \in Clients
      PROVE  queue'[c] \in Seq(Events) /\ Len(queue'[c]) <= QueueSize /\ StreamInv(c)'
  <2>1. /\ joined[c] \in Nat /\ QueueSize \in Nat /\ queue[c] \in Seq(Events)
        /\ Queued(c) \in Nat /\ Taken(c) \in Nat /\ Given(c) \in Nat /\ Queued(c) <= QueueSize
    BY <1>1, StreamTypes
  <2>2. /\ got'[c] = got[c] /\ joined'[c] = joined[c] /\ conn'[c] = conn[c]
        /\ published' = published + 1 /\ Taken(c)' = Taken(c)
    BY DEF Publish, Taken
  <2>3. GotPart(c) /\ QueuePart(c) /\ PlacePart(c)
    BY DEF BusInv, StreamInv
  <2>4. GotPart(c)'
    BY <2>2, <2>3 DEF GotPart
  <2>5. CASE c \in subscribers /\ ~Full(c)
    <3>1. queue'[c] = Append(queue[c], published + 1) /\ c \in subscribers'
      BY <2>5 DEF Publish, Dead
    <3>2. /\ queue'[c] \in Seq(Events) /\ Queued(c)' = Queued(c) + 1
          /\ \A i \in 1 .. Queued(c) : queue'[c][i] = queue[c][i]
          /\ queue'[c][Queued(c) + 1] = published + 1
      BY <1>1, <2>1, <3>1 DEF Queued
    <3>3. Queued(c)' <= QueueSize
      <4>1. ~(Queued(c) >= QueueSize)
        BY <2>5 DEF Full, Queued
      <4> QED  BY <2>1, <3>2, <4>1
    <3>4. published = joined[c] + Taken(c) + Queued(c)
      BY <2>1, <2>3, <2>5 DEF PlacePart, Given
    <3>5. QueuePart(c)'
      <4> SUFFICES ASSUME NEW i \in 1 .. Queued(c) + 1
                   PROVE  queue'[c][i] = joined[c] + Taken(c) + i
        BY <2>2, <3>2 DEF QueuePart
      <4>1. CASE i \in 1 .. Queued(c)
        BY <2>3, <3>2, <4>1 DEF QueuePart
      <4>2. CASE i = Queued(c) + 1
        BY <2>1, <3>2, <3>4, <4>2
      <4> QED  BY <2>1, <4>1, <4>2
    <3>6. PlacePart(c)'
      <4>1. Given(c)' = Given(c) + 1
        BY <2>1, <2>2, <3>2 DEF Given
      <4>2. conn'[c] \in {"open", "cut"}
        BY <2>2, <2>3, <2>5 DEF PlacePart
      <4>3. joined[c] + Given(c) = published
        BY <2>3, <2>5 DEF PlacePart
      <4>4. joined'[c] + Given(c)' = published'
        BY <1>1, <2>1, <2>2, <4>1, <4>3
      <4>5. joined'[c] + Given(c)' <= published'
        BY <1>1, <2>2, <4>4
      <4> QED  BY <3>1, <4>2, <4>4, <4>5 DEF PlacePart
    <3> QED  BY <2>4, <3>2, <3>3, <3>5, <3>6 DEF StreamInv, Queued
  <2>6. CASE ~(c \in subscribers /\ ~Full(c))
    <3>1. queue'[c] = queue[c] /\ c \notin subscribers' /\ Queued(c)' = Queued(c)
      BY <2>6 DEF Publish, Dead, Queued
    <3>2. QueuePart(c)' /\ Given(c)' = Given(c)
      BY <2>2, <2>3, <3>1 DEF QueuePart, Given
    <3>4. joined[c] + Given(c) < published + 1
      BY <1>1, <2>1, <2>3 DEF PlacePart
    <3>6. conn[c] = "new" => got[c] = <<>> /\ queue[c] = <<>>
      BY <2>3 DEF PlacePart
    <3>7. joined[c] + Given(c) <= published + 1
      BY <1>1, <2>1, <3>4
    <3>8. PlacePart(c)'
      BY <2>2, <3>1, <3>2, <3>6, <3>7 DEF PlacePart
    <3> QED  BY <2>1, <2>4, <3>1, <3>2, <3>8 DEF StreamInv, Queued
  <2> QED  BY <2>5, <2>6
<1>4. TypeOK'
  BY <1>1, <1>2, <1>3, SizesAssumption DEF TypeOK, Publish
<1> QED  BY <1>2, <1>3, <1>4 DEF BusInv

\* A step of one connection that is not seen by the others.
Alone(c) ==
    /\ UNCHANGED <<published, activity>>
    /\ \A d \in Clients \ {c} :
         /\ queue'[d] = queue[d] /\ got'[d] = got[d] /\ joined'[d] = joined[d]
         /\ conn'[d] = conn[d] /\ (d \in subscribers' <=> d \in subscribers)

LEMMA AloneKeeps ==
    ASSUME BusInv, NEW c \in Clients, Alone(c), StreamInv(c)', TypeOK'
    PROVE  BusInv'
<1>1. ASSUME NEW d \in Clients, d # c PROVE StreamInv(d)'
  <2>1. /\ queue'[d] = queue[d] /\ got'[d] = got[d] /\ joined'[d] = joined[d]
        /\ conn'[d] = conn[d] /\ (d \in subscribers' <=> d \in subscribers)
        /\ published' = published
    BY <1>1 DEF Alone
  <2>2. GotPart(d) /\ QueuePart(d) /\ PlacePart(d)
    BY DEF BusInv, StreamInv
  <2> QED  BY <2>1, <2>2 DEF StreamInv, GotPart, QueuePart, PlacePart, Given, Taken, Queued
<1> QED  BY <1>1, LogRests DEF BusInv, Alone

LEMMA ConnectionKeeps ==
    ASSUME BusInv, NEW c \in Clients, Subscribe(c) \/ Take(c) \/ Disconnect(c) \/ Close(c)
    PROVE  BusInv'
<1>1. /\ TypeOK /\ StreamInv(c) /\ published \in Nat /\ published <= MaxEvents
      /\ QueueSize \in Nat /\ MaxEvents \in Nat
      /\ queue[c] \in Seq(Events) /\ got[c] \in Seq(Events) /\ joined[c] \in Nat
      /\ Queued(c) <= QueueSize /\ Queued(c) \in Nat /\ Taken(c) \in Nat
      /\ GotPart(c) /\ QueuePart(c) /\ PlacePart(c) /\ Given(c) \in Nat
  BY SizesAssumption, StreamTypes DEF BusInv, TypeOK, StreamInv
<1>2. CASE Subscribe(c)
  <2>1. TypeOK'
    BY <1>1, <1>2 DEF Subscribe, TypeOK
  <2>2. /\ queue'[c] = <<>> /\ got'[c] = <<>> /\ joined'[c] = published
        /\ c \in subscribers' /\ conn'[c] = "open" /\ published' = published
    BY <1>1, <1>2 DEF Subscribe, TypeOK, PlacePart
  <2>3. StreamInv(c)'
    BY <1>1, <2>2 DEF StreamInv, GotPart, QueuePart, PlacePart, Given, Taken, Queued
  <2>4. Alone(c)
    BY <1>1, <1>2 DEF Subscribe, TypeOK, Alone
  <2> QED  BY <2>1, <2>3, <2>4, AloneKeeps
<1>3. CASE Take(c)
  <2>1. /\ queue[c] # <<>> /\ queue'[c] = Tail(queue[c])
        /\ got'[c] = Append(got[c], Head(queue[c]))
        /\ UNCHANGED <<published, activity, subscribers, conn, joined>>
    BY <1>1, <1>3 DEF Take, TypeOK
  <2>2. Queued(c) > 0
    BY <1>1, <2>1 DEF Queued
  <2>3. /\ queue'[c] \in Seq(Events) /\ Queued(c)' = Queued(c) - 1
        /\ \A i \in 1 .. Queued(c)' : queue'[c][i] = queue[c][i + 1]
    BY <1>1, <2>1 DEF Queued
  <2>4. /\ got'[c] \in Seq(Events) /\ Taken(c)' = Taken(c) + 1
        /\ \A i \in 1 .. Taken(c) : got'[c][i] = got[c][i]
        /\ got'[c][Taken(c) + 1] = queue[c][1]
    BY <1>1, <2>1 DEF Taken
  <2>5. TypeOK'
    <3>1. /\ queue' = [queue EXCEPT ![c] = queue'[c]]
          /\ got' = [got EXCEPT ![c] = got'[c]]
      BY <1>1, <1>3, <2>1 DEF Take, TypeOK
    <3>2. Len(queue'[c]) <= QueueSize
      <4>1. Queued(c)' <= QueueSize
        BY <1>1, <2>2, <2>3
      <4> QED  BY <4>1 DEF Queued
    <3> QED  BY <1>1, <2>1, <2>3, <2>4, <3>1, <3>2 DEF TypeOK
  <2>6. StreamInv(c)'
    <3>1. queue[c][1] = joined[c] + Taken(c) + 1
      BY <1>1, <2>2 DEF QueuePart
    <3>2. GotPart(c)'
      <4> SUFFICES ASSUME NEW i \in 1 .. Taken(c) + 1
                   PROVE  got'[c][i] = joined[c] + i
        BY <2>1, <2>4 DEF GotPart
      <4>1. CASE i \in 1 .. Taken(c)
        BY <1>1, <2>4, <4>1 DEF GotPart
      <4>2. CASE i = Taken(c) + 1
        <5>1. joined[c] + (Taken(c) + 1) = joined[c] + Taken(c) + 1
          <6>1. joined[c] \in Nat /\ Taken(c) \in Nat
            BY <1>1
          <6> QED  BY <6>1
        <5> QED  BY <2>4, <3>1, <4>2, <5>1
      <4> QED  BY <1>1, <4>1, <4>2
    <3>3. QueuePart(c)'
      <4> SUFFICES ASSUME NEW i \in 1 .. Queued(c)'
                   PROVE  queue'[c][i] = joined[c] + Taken(c)' + i
        BY <2>1 DEF QueuePart
      <4>1. i \in Nat /\ i + 1 \in 1 .. Queued(c)
        BY <1>1, <2>3
      <4>2. queue[c][i + 1] = joined[c] + Taken(c) + (i + 1)
        BY <1>1, <4>1 DEF QueuePart
      <4>3. joined[c] + Taken(c) + (i + 1) = joined[c] + (Taken(c) + 1) + i
        <5>1. joined[c] \in Nat /\ Taken(c) \in Nat /\ i \in Nat
          BY <1>1, <4>1
        <5> QED  BY ONLY <5>1
      <4> QED  BY <2>3, <2>4, <4>2, <4>3
    <3>4. Given(c)' = Given(c)
      BY <1>1, <2>3, <2>4 DEF Given
    <3>5. PlacePart(c)'
      BY <1>1, <1>3, <2>1, <3>4 DEF PlacePart, Take
    <3> QED  BY <3>2, <3>3, <3>5 DEF StreamInv
  <2>7. Alone(c)
    BY <1>1, <1>3 DEF Take, TypeOK, Alone
  <2> QED  BY <2>5, <2>6, <2>7, AloneKeeps
<1>4. CASE Disconnect(c)
  <2>1. TypeOK' /\ Alone(c) /\ conn'[c] = "cut" /\ conn[c] = "open"
    BY <1>1, <1>4 DEF Disconnect, TypeOK, Alone
  <2>2. StreamInv(c)'
    BY <1>1, <1>4, <2>1 DEF Disconnect, StreamInv, GotPart, QueuePart, PlacePart, Given, Taken, Queued
  <2> QED  BY <2>1, <2>2, AloneKeeps
<1>5. CASE Close(c)
  <2>1. TypeOK' /\ Alone(c) /\ conn'[c] = "closed" /\ c \notin subscribers'
    BY <1>1, <1>5 DEF Close, Forget, TypeOK, Alone
  <2>2. StreamInv(c)'
    BY <1>1, <1>5, <2>1 DEF Close, StreamInv, GotPart, QueuePart, PlacePart, Given, Taken, Queued
  <2> QED  BY <2>1, <2>2, AloneKeeps
<1> QED  BY <1>2, <1>3, <1>4, <1>5

LEMMA BusNext == BusInv /\ [Next]_vars => BusInv'
<1> SUFFICES ASSUME BusInv, [Next]_vars PROVE BusInv'
  OBVIOUS
<1>1. CASE UNCHANGED vars
  BY <1>1 DEF vars, BusInv, TypeOK, LogInv, StreamInv, GotPart, QueuePart, PlacePart, Given, Taken, Queued
<1> QED  BY <1>1, PublishKeeps, ConnectionKeeps DEF Next

LEMMA BusSafety == Spec => []BusInv
BY BusInit, BusNext, PTL DEF Spec

\* Queues and the log stay within their bounds, and hold events only.
THEOREM TypeCorrect == Spec => []TypeOK
<1>1. BusInv => TypeOK
  BY DEF BusInv
<1> QED  BY <1>1, BusSafety, PTL

\* Whatever the interleaving of publications, connections that read, stall,
\* leave or are dropped, no stream has a gap, a repetition or a swap.
THEOREM StreamsHaveNoGap == Spec => []StreamHasNoGap
<1>1. BusInv => StreamHasNoGap
  <2> SUFFICES ASSUME BusInv, NEW c \in Clients
               PROVE  LET seen == got[c] \o queue[c]
                      IN  /\ seen = Numbered(joined[c], Len(seen))
                          /\ c \in subscribers => joined[c] + Len(seen) = published
    BY DEF StreamHasNoGap
  <2> DEFINE seen == got[c] \o queue[c]
  <2>1. /\ got[c] \in Seq(Events) /\ queue[c] \in Seq(Events) /\ joined[c] \in Nat
        /\ Taken(c) \in Nat /\ Queued(c) \in Nat /\ published \in Nat
        /\ GotPart(c) /\ QueuePart(c) /\ PlacePart(c)
    BY StreamTypes DEF BusInv, StreamInv
  <2>2. /\ seen \in Seq(Events) /\ Len(seen) = Taken(c) + Queued(c)
        /\ \A i \in 1 .. Taken(c) : seen[i] = got[c][i]
        /\ \A k \in 1 .. Queued(c) : seen[Taken(c) + k] = queue[c][k]
    <3>1. /\ seen \in Seq(Events) /\ Len(seen) = Len(got[c]) + Len(queue[c])
          /\ \A i \in 1 .. Len(got[c]) : seen[i] = got[c][i]
          /\ \A k \in 1 .. Len(queue[c]) : seen[Len(got[c]) + k] = queue[c][k]
      <4>1. PICK g \in Seq(Events) : g = got[c]
        BY <2>1
      <4>2. PICK q \in Seq(Events) : q = queue[c]
        BY <2>1
      <4>3. /\ g \o q \in Seq(Events) /\ Len(g \o q) = Len(g) + Len(q)
            /\ \A i \in 1 .. Len(g) : (g \o q)[i] = g[i]
            /\ \A k \in 1 .. Len(q) : (g \o q)[Len(g) + k] = q[k]
        BY Concatenation
      <4> QED  BY <4>1, <4>2, <4>3, Zenon
    <3> QED  BY <3>1 DEF Taken, Queued
  <2>3. \A i \in 1 .. Len(seen) : seen[i] = joined[c] + i
    <3> HIDE DEF seen
    <3> SUFFICES ASSUME NEW i \in 1 .. Taken(c) + Queued(c) PROVE seen[i] = joined[c] + i
      BY <2>2
    <3>1. CASE i <= Taken(c)
      BY <2>1, <2>2, <3>1 DEF GotPart
    <3>2. CASE i > Taken(c)
      <4>1. PICK k \in 1 .. Queued(c) : k \in Nat /\ i = Taken(c) + k
        BY <2>1, <3>2, Offset
      <4>2. queue[c][k] = joined[c] + Taken(c) + k
        BY <2>1 DEF QueuePart
      <4>3. joined[c] + (Taken(c) + k) = joined[c] + Taken(c) + k
        <5>1. joined[c] \in Nat /\ Taken(c) \in Nat /\ k \in Nat
          BY <2>1, <4>1
        <5> QED  BY ONLY <5>1
      <4> QED  BY <2>2, <4>1, <4>2, <4>3
    <3> QED  BY <2>1, <3>1, <3>2
  <2>4. seen = [i \in 1 .. Len(seen) |-> seen[i]]
    <3> HIDE DEF seen
    <3> QED  BY <2>2
  <2>5. c \in subscribers => joined[c] + Len(seen) = published
    BY <2>1, <2>2 DEF PlacePart, Given
  <2>6. seen = Numbered(joined[c], Len(seen))
    <3> HIDE DEF seen
    <3> QED  BY <2>3, <2>4 DEF Numbered
  <2> QED  BY <2>5, <2>6
<1> QED  BY <1>1, BusSafety, PTL

\* A publication finds a subscriber full only when it has QueueSize events
\* to read, which are the newest ones.
LEMMA FullMeansBehind ==
    ASSUME BusInv, NEW c \in Clients, c \in subscribers, Full(c)
    PROVE  /\ published = joined[c] + Len(got[c]) + QueueSize
           /\ queue[c] = Numbered(joined[c] + Len(got[c]), QueueSize)
<1>1. /\ Len(got[c]) \in Nat /\ Len(queue[c]) \in Nat /\ joined[c] \in Nat
      /\ published \in Nat /\ QueueSize \in Nat /\ queue[c] \in Seq(Events)
      /\ Len(queue[c]) <= QueueSize /\ QueuePart(c) /\ PlacePart(c)
  BY StreamTypes DEF BusInv, StreamInv, Taken, Queued
<1>2. Len(queue[c]) = QueueSize
  BY <1>1 DEF Full
<1>3. published = joined[c] + Len(got[c]) + QueueSize
  BY <1>1, <1>2 DEF PlacePart, Given, Taken, Queued
<1>4. queue[c] = [i \in 1 .. QueueSize |-> queue[c][i]]
  BY <1>1, <1>2
<1>5. \A i \in 1 .. QueueSize : queue[c][i] = joined[c] + Len(got[c]) + i
  BY <1>1, <1>2 DEF QueuePart, Taken, Queued
<1> QED  BY <1>3, <1>4, <1>5 DEF Numbered

\* The bus drops nobody who keeps up, whatever was delivered before, and
\* takes no event back from a connection it drops.
THEOREM OnlyLaggardsDropped == Spec => DroppedOnlyWhenBehind
<1> DEFINE Lags == \A c \in subscribers \ subscribers' : conn[c] = "open" =>
                      /\ published = joined[c] + Len(got[c]) + QueueSize
                      /\ queue'[c] = Numbered(joined[c] + Len(got[c]), QueueSize)
<1>1. BusInv /\ [Next]_vars => Lags
  <2> SUFFICES ASSUME BusInv, [Next]_vars, NEW c \in subscribers \ subscribers',
                      conn[c] = "open"
               PROVE  /\ published = joined[c] + Len(got[c]) + QueueSize
                      /\ queue'[c] = Numbered(joined[c] + Len(got[c]), QueueSize)
    OBVIOUS
  <2>1. c \in Clients
    BY DEF BusInv, TypeOK
  <2>2. CASE Publish
    <3>1. Full(c) /\ queue'[c] = queue[c]
      BY <2>1, <2>2 DEF Publish, Dead
    <3> QED  BY <2>1, <3>1, FullMeansBehind
  <2>3. CASE ~Publish
    <3>1. UNCHANGED vars \/ \E d \in Clients : Subscribe(d) \/ Take(d) \/ Disconnect(d) \/ Close(d)
      BY <2>3 DEF Next
    <3> QED  BY <3>1 DEF vars, Subscribe, Take, Disconnect, Close, Forget
  <2> QED  BY <2>2, <2>3
<1>2. Spec => [][Lags]_vars
  BY <1>1, BusSafety, PTL DEF Spec
<1> QED  BY <1>2 DEF DroppedOnlyWhenBehind

\* Who was cut off and missed no more than the log holds finds it there.
THEOREM LogClosesTheGap == Spec => []ActivityClosesTheGap
<1>1. BusInv => ActivityClosesTheGap
  <2>a. BusInv => \A i \in DOMAIN activity : activity[i] = published + 1 - i
    <3>1. BusInv => activity \in Seq(Events)
      BY DEF BusInv, TypeOK
    <3> QED  BY <3>1 DEF BusInv, LogInv
  <2> SUFFICES ASSUME BusInv, NEW c \in Clients,
                      NEW e \in joined[c] + Len(got[c]) + Len(queue[c]) + 1 .. published,
                      published < joined[c] + Len(got[c]) + Len(queue[c]) + 1 + LogSize
               PROVE  e \in ToSet(activity)
    BY <2>a DEF ActivityClosesTheGap
  <2>1. /\ Len(got[c]) \in Nat /\ Len(queue[c]) \in Nat /\ joined[c] \in Nat
        /\ published \in Nat /\ LogSize \in Nat /\ activity \in Seq(Events)
    BY SizesAssumption DEF BusInv, TypeOK
  <2>2. published + 1 - e \in 1 .. Len(activity)
    BY <2>1, SMTT(30) DEF BusInv, LogInv
  <2>3. activity[published + 1 - e] = e
    BY <2>1, <2>2, SMTT(30) DEF BusInv, LogInv
  <2> QED  BY <2>1, <2>2, <2>3 DEF ToSet
<1> QED  BY <1>1, BusSafety, PTL

=============================================================================
