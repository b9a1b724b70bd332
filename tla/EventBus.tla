------------------------------ MODULE EventBus ------------------------------
(***************************************************************************)
(* core/events.py and the SSE endpoint GET /admin/events: one bounded      *)
(* queue per connection, fed by publish() and drained by the connection,   *)
(* and a ring buffer with the newest events.  An event is the number of    *)
(* its publication.                                                        *)
(*                                                                         *)
(* The lock of the bus is never contended, since no block under it awaits, *)
(* so every method is one step.  A client that goes away is noticed in one *)
(* step and forgotten by the bus in another: the async generator that owns *)
(* the queue is closed by the event loop some time after the response was  *)
(* cancelled, and the bus keeps filling its queue until then.              *)
(***************************************************************************)
EXTENDS Naturals, Sequences, SequencesExt, FiniteSetsExt

CONSTANTS
    Clients,      \* the connections to GET /admin/events, each opened once
    QueueSize,    \* Queue(maxsize=256)
    LogSize,      \* settings.activity_log_size
    MaxEvents     \* bound: the events published

ASSUME SizesAssumption ==
    QueueSize \in Nat \ {0} /\ LogSize \in Nat /\ MaxEvents \in Nat

VARIABLES
    published,      \* how many events were published
    activity,       \* _activity, newest first
    subscribers,    \* the connections whose queue is in _subscribers
    queue,          \* the queue of a connection
    conn,           \* "new", "open", "cut" (client gone), "closed" (generator too)
    joined,         \* history: the events published before the subscription
    got             \* history: the events a connection yielded

vars == <<published, activity, subscribers, queue, conn, joined, got>>

Events == 1 .. MaxEvents

TypeOK ==
    /\ published \in 0 .. MaxEvents
    /\ activity \in Seq(Events) /\ Len(activity) <= LogSize
    /\ subscribers \subseteq Clients
    /\ queue \in [Clients -> Seq(Events)]
    /\ \A c \in Clients : Len(queue[c]) <= QueueSize
    /\ conn \in [Clients -> {"new", "open", "cut", "closed"}]
    /\ joined \in [Clients -> 0 .. MaxEvents]
    /\ got \in [Clients -> Seq(Events)]

Init ==
    /\ published = 0
    /\ activity = <<>>
    /\ subscribers = {}
    /\ queue = [c \in Clients |-> <<>>]
    /\ conn = [c \in Clients |-> "new"]
    /\ joined = [c \in Clients |-> 0]
    /\ got = [c \in Clients |-> <<>>]

-----------------------------------------------------------------------------

\* Mutant: a full log keeps its oldest events.
AppendIfRoom(log, e) == IF Len(log) < LogSize THEN <<e>> \o log ELSE log

\* deque(maxlen=LogSize).appendleft(e)
AppendLeft(log, e) == SubSeq(<<e>> \o log, 1, Min({LogSize, Len(log) + 1}))

\* Mutant: the queues have no maxsize.
Unbounded(c) == FALSE

\* put_nowait raises QueueFull.
Full(c) == Len(queue[c]) >= QueueSize

\* Mutant: an event that does not fit is skipped, the subscriber stays.
NobodyDead == {}

\* Mutant: one slow connection costs all of them their subscription.
EverybodyDead == IF \E c \in subscribers : Full(c) THEN subscribers ELSE {}

\* The subscribers publish() drops after the loop over the queues.
Dead == {c \in subscribers : Full(c)}

Publish ==
    /\ published < MaxEvents
    /\ published' = published + 1
    /\ activity' = AppendLeft(activity, published + 1)
    /\ queue' = [c \in Clients |->
                    IF c \in subscribers /\ ~Full(c)
                    THEN Append(queue[c], published + 1) ELSE queue[c]]
    /\ subscribers' = subscribers \ Dead
    /\ UNCHANGED <<conn, joined, got>>

Subscribe(c) ==
    /\ conn[c] = "new"
    /\ conn' = [conn EXCEPT ![c] = "open"]
    /\ joined' = [joined EXCEPT ![c] = published]
    /\ subscribers' = subscribers \cup {c}
    /\ UNCHANGED <<published, activity, queue, got>>

\* queue.get() returns, whether or not the bus dropped the queue meanwhile.
Take(c) ==
    /\ conn[c] = "open" /\ queue[c] # <<>>
    /\ got' = [got EXCEPT ![c] = Append(@, Head(queue[c]))]
    /\ queue' = [queue EXCEPT ![c] = Tail(@)]
    /\ UNCHANGED <<published, activity, subscribers, conn, joined>>

\* The client goes away.
Disconnect(c) ==
    /\ conn[c] = "open"
    /\ conn' = [conn EXCEPT ![c] = "cut"]
    /\ UNCHANGED <<published, activity, subscribers, queue, joined, got>>

\* Mutant: the finally clause is not reached.
KeepQueue(c) == UNCHANGED subscribers

\* `if queue in self._subscribers: self._subscribers.remove(queue)`
Forget(c) == subscribers' = subscribers \ {c}

\* The finally clause of subscribe().
Close(c) ==
    /\ conn[c] = "cut"
    /\ conn' = [conn EXCEPT ![c] = "closed"]
    /\ Forget(c)
    /\ UNCHANGED <<published, activity, queue, joined, got>>

Next ==
    \/ Publish
    \/ \E c \in Clients : Subscribe(c) \/ Take(c) \/ Disconnect(c) \/ Close(c)

Spec == Init /\ [][Next]_vars

\* The event loop runs a generator whose queue holds something, and closes
\* the generators of requests that were cancelled.
FairSpec == Spec /\ \A c \in Clients : WF_vars(Take(c)) /\ WF_vars(Close(c))

-----------------------------------------------------------------------------
(* Properties.                                                             *)

Numbered(from, n) == [i \in 1 .. n |-> from + i]

\* What a connection yielded followed by what is queued for it is the events
\* from its subscription on, in order, with no gap and none twice; for a
\* subscriber it reaches the newest event (publish, subscribe).
StreamHasNoGap ==
    \A c \in Clients :
        LET seen == got[c] \o queue[c] IN
        /\ seen = Numbered(joined[c], Len(seen))
        /\ c \in subscribers => joined[c] + Len(seen) = published

\* The bus drops a connection whose client is there only at the moment it is
\* exactly QueueSize published events behind what it yielded, however much it
\* read before; those events stay in its queue and are still handed to it
\* (QueueFull in publish, and the loop over `dead`).
DroppedOnlyWhenBehind ==
    [][\A c \in subscribers \ subscribers' : conn[c] = "open" =>
          /\ published = joined[c] + Len(got[c]) + QueueSize
          /\ queue'[c] = Numbered(joined[c] + Len(got[c]), QueueSize)]_vars

\* GET /admin/activity is the newest events, newest first, and reaches back
\* LogSize events, so that a client who reads it after it was cut off finds
\* what it missed if that is no more than the log holds.
ActivityClosesTheGap ==
    /\ \A i \in DOMAIN activity : activity[i] = published + 1 - i
    /\ \A c \in Clients :
         LET next == joined[c] + Len(got[c]) + Len(queue[c]) + 1 IN
         conn[c] # "new" /\ published < next + LogSize =>
             next .. published \subseteq ToSet(activity)

\* Every event queued for a client that stays is yielded to it, and the bus
\* forgets every client that left (subscribe and its finally clause).
QueuesDrain ==
    \A c \in Clients :
        /\ []<>(queue[c] = <<>> \/ conn[c] # "open")
        /\ conn[c] = "cut" ~> c \notin subscribers

=============================================================================
