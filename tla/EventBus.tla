------------------------------ MODULE EventBus ------------------------------
(***************************************************************************)
(* The in-process event bus (internal/events/bus.go): Publish snapshots    *)
(* the subscribers under the bus lock and sends to each under that         *)
(* subscriber's own lock; a full buffer loses its oldest event.  Readers   *)
(* take from the channel without any lock.  Several publishers run at      *)
(* once.                                                                   *)
(*                                                                         *)
(* A subscriber is one Subscribe call.  An event is its publisher and its  *)
(* number among that publisher's events.                                   *)
(***************************************************************************)
EXTENDS Naturals, Sequences, FiniteSets, Functions

CONSTANTS
  Pubs,       \* the goroutines that publish
  Subs,       \* the Subscribe calls
  Free,       \* nobody holds a subscriber's lock
  Buffer,     \* capacity of a subscriber's channel (256 in the code)
  MaxEvents   \* bound: how many events each publisher publishes

ASSUME BufferAssumption == Buffer \in Nat \ {0}
ASSUME FreeAssumption == Free \notin Pubs
ASSUME BoundAssumption == MaxEvents \in [Pubs -> Nat]

VARIABLES
  stage,      \* how far each Subscribe call and its unsubscribe have come
  chan,       \* what each subscriber's channel buffers
  holder,     \* the publisher inside send that holds subscriber.mu, or Free
  sawFull,    \* that publisher's first select found the buffer full
  number,     \* how many events each publisher began to publish
  todo,       \* the subscribers its Publish has yet to send to
  dropped,    \* Bus.dropped
  \* history
  got,        \* what each reader received
  offered,    \* the events send handled, in order, for each subscriber
  joined      \* each publisher's number when the subscriber registered

registry == <<stage, joined>>
vars == <<registry, chan, holder, sawFull, number, todo, dropped, got, offered>>

Events == Pubs \X Nat
Current(p) == <<p, number[p]>>
Sending(p) == \E s \in Subs : holder[s] = p
Publishing(p) == todo[p] # {}

\* Bus.subs, and subscriber.closed, which is set together with close(ch).
subs == {s \in Subs : stage[s] = "open"}
closed(s) == stage[s] = "left"

Init ==
  /\ stage = [s \in Subs |-> "new"]
  /\ chan = [s \in Subs |-> <<>>]
  /\ holder = [s \in Subs |-> Free] /\ sawFull = [s \in Subs |-> FALSE]
  /\ number = [p \in Pubs |-> 0] /\ todo = [p \in Pubs |-> {}]
  /\ dropped = 0
  /\ got = [s \in Subs |-> <<>>]
  /\ offered = [s \in Subs |-> <<>>]
  /\ joined = [s \in Subs |-> [p \in Pubs |-> 0]]

-----------------------------------------------------------------------------
(* Subscribe and unsubscribe                                               *)

Subscribe(s) ==
  /\ stage[s] = "new"
  /\ stage' = [stage EXCEPT ![s] = "open"]
  /\ joined' = [joined EXCEPT ![s] = number]
  /\ UNCHANGED <<chan, holder, sawFull, number, todo, dropped, got, offered>>

\* The first half of unsubscribe, under the bus lock.
Unregister(s) ==
  /\ stage[s] = "open"
  /\ stage' = [stage EXCEPT ![s] = "leaving"]
  /\ UNCHANGED <<chan, joined, holder, sawFull, number, todo, dropped, got, offered>>

\* A bug to catch: the channel is closed without the subscriber's lock.
CloseUnlocked(s) ==
  /\ stage[s] = "leaving"
  /\ stage' = [stage EXCEPT ![s] = "left"]
  /\ UNCHANGED <<chan, joined, holder, sawFull, number, todo, dropped, got, offered>>

\* The second half, under the subscriber's lock.
Close(s) ==
  /\ stage[s] = "leaving"
  /\ holder[s] = Free
  /\ stage' = [stage EXCEPT ![s] = "left"]
  /\ UNCHANGED <<chan, joined, holder, sawFull, number, todo, dropped, got, offered>>

-----------------------------------------------------------------------------
(* Publish                                                                 *)

BeginPublish(p) ==
  /\ ~Publishing(p)
  /\ number[p] < MaxEvents[p]
  /\ number' = [number EXCEPT ![p] = @ + 1]
  /\ todo' = [todo EXCEPT ![p] = subs]
  /\ UNCHANGED <<registry, chan, holder, sawFull, dropped, got, offered>>

\* send takes the subscriber's lock and finds the channel open.
EnterSend(p, s) ==
  /\ s \in todo[p] /\ ~Sending(p)
  /\ holder[s] = Free
  /\ ~closed(s)
  /\ holder' = [holder EXCEPT ![s] = p]
  /\ offered' = [offered EXCEPT ![s] = Append(@, Current(p))]
  /\ UNCHANGED <<registry, chan, sawFull, number, todo, dropped, got>>

\* A bug to catch: a subscriber whose lock is taken is passed over.
SkipBusy(p, s) ==
  /\ s \in todo[p] /\ ~Sending(p)
  /\ closed(s) \/ holder[s] # Free
  /\ todo' = [todo EXCEPT ![p] = @ \ {s}]
  /\ UNCHANGED <<registry, chan, holder, sawFull, number, dropped,
                 got, offered>>

\* send finds the subscriber gone.
SkipClosed(p, s) ==
  /\ s \in todo[p] /\ ~Sending(p)
  /\ holder[s] = Free
  /\ closed(s)
  /\ todo' = [todo EXCEPT ![p] = @ \ {s}]
  /\ UNCHANGED <<registry, chan, holder, sawFull, number, dropped,
                 got, offered>>

\* A bug to catch: no return after a successful send.
PutAndStay(p, s) ==
  /\ holder[s] = p /\ ~sawFull[s]
  /\ Len(chan[s]) < Buffer
  /\ chan' = [chan EXCEPT ![s] = Append(@, Current(p))]
  /\ UNCHANGED <<registry, holder, sawFull, number, todo, dropped,
                 got, offered>>

Put(p, s) ==
  /\ holder[s] = p /\ ~sawFull[s]
  /\ Len(chan[s]) < Buffer
  /\ chan' = [chan EXCEPT ![s] = Append(@, Current(p))]
  /\ holder' = [holder EXCEPT ![s] = Free]
  /\ todo' = [todo EXCEPT ![p] = @ \ {s}]
  /\ UNCHANGED <<registry, sawFull, number, dropped, got, offered>>

SeeFull(p, s) ==
  /\ holder[s] = p /\ ~sawFull[s]
  /\ Len(chan[s]) = Buffer
  /\ sawFull' = [sawFull EXCEPT ![s] = TRUE]
  /\ UNCHANGED <<registry, chan, holder, number, todo, dropped,
                 got, offered>>

\* A bug to catch: a full buffer loses the event that did not fit.
DropNewest(p, s) ==
  /\ holder[s] = p /\ sawFull[s]
  /\ sawFull' = [sawFull EXCEPT ![s] = FALSE]
  /\ dropped' = dropped + 1
  /\ holder' = [holder EXCEPT ![s] = Free]
  /\ todo' = [todo EXCEPT ![p] = @ \ {s}]
  /\ UNCHANGED <<registry, chan, number, got, offered>>

\* A bug to catch: the publisher waits until the reader makes room.
WaitForRoom(p, s) ==
  /\ holder[s] = p /\ sawFull[s]
  /\ Len(chan[s]) < Buffer
  /\ sawFull' = [sawFull EXCEPT ![s] = FALSE]
  /\ UNCHANGED <<registry, chan, dropped, holder, number, todo, got, offered>>

\* A bug to catch: a drop is counted although the reader had made room.
DropCounted(p, s) ==
  /\ holder[s] = p /\ sawFull[s]
  /\ sawFull' = [sawFull EXCEPT ![s] = FALSE]
  /\ chan' = [chan EXCEPT ![s] = IF @ = <<>> THEN @ ELSE Tail(@)]
  /\ dropped' = dropped + 1
  /\ UNCHANGED <<registry, holder, number, todo, got, offered>>

\* The second select: take the oldest event if the reader left one.
DropOldest(p, s) ==
  /\ holder[s] = p /\ sawFull[s]
  /\ sawFull' = [sawFull EXCEPT ![s] = FALSE]
  /\ IF chan[s] = <<>>
     THEN UNCHANGED <<chan, dropped>>
     ELSE /\ chan' = [chan EXCEPT ![s] = Tail(@)]
          /\ dropped' = dropped + 1
  /\ UNCHANGED <<registry, holder, number, todo, got, offered>>

Publish(p) ==
  \E s \in Subs : \/ EnterSend(p, s) \/ SkipClosed(p, s) \/ Put(p, s)
                  \/ SeeFull(p, s) \/ DropOldest(p, s)

-----------------------------------------------------------------------------
(* The reader: an event stream of the server, the recent-events ring       *)

Read(s) ==
  /\ chan[s] # <<>>
  /\ got' = [got EXCEPT ![s] = Append(@, Head(chan[s]))]
  /\ chan' = [chan EXCEPT ![s] = Tail(@)]
  /\ UNCHANGED <<registry, holder, sawFull, number, todo, dropped,
                 offered>>

Next ==
  \/ \E s \in Subs : Subscribe(s) \/ Unregister(s) \/ Close(s) \/ Read(s)
  \/ \E p \in Pubs : BeginPublish(p) \/ Publish(p)

Spec == Init /\ [][Next]_vars

\* Only the publishers run on: readers may stop reading for good, and nobody
\* has to subscribe or leave.
FairSpec == Spec /\ \A p \in Pubs : WF_vars(Publish(p))

-----------------------------------------------------------------------------
(* Properties                                                              *)

TypeOK ==
  /\ stage \in [Subs -> {"new", "open", "leaving", "left"}]
  /\ chan \in [Subs -> Seq(Events)] /\ \A s \in Subs : Len(chan[s]) <= Buffer
  /\ holder \in [Subs -> Pubs \cup {Free}] /\ sawFull \in [Subs -> BOOLEAN]
  /\ number \in [Pubs -> Nat] /\ todo \in [Pubs -> SUBSET Subs]
  /\ \A p \in Pubs : number[p] <= MaxEvents[p]
  /\ dropped \in Nat
  /\ got \in [Subs -> Seq(Events)] /\ offered \in [Subs -> Seq(Events)]
  /\ joined \in [Subs -> [Pubs -> Nat]]

\* "send and unsubscribe can never race to use ch after it has been closed
\* (which would otherwise panic)" (bus.go:28-31): while a publisher is inside
\* send, the channel stays open.
NoSendOnClosed == \A s \in Subs : holder[s] # Free => ~closed(s)

\* Whatever is lost, and however publishers, the reader and the leaving
\* subscriber interleave, a reader sees the events of one publisher in the
\* order they were published, and none twice.
Ascending(q) ==
  \A i, j \in 1..Len(q) : i < j /\ q[i][1] = q[j][1] => q[i][2] < q[j][2]
InPublisherOrder == \A s \in Subs : Ascending(got[s] \o chan[s])

\* "drops that subscriber's oldest buffered event" (bus.go:44): what a reader
\* that fell behind finds is always the newest of what it was sent; there is
\* no gap between what is buffered and the latest event.
Newest(q, n) == SubSeq(q, Len(q) - n + 1, Len(q))
NewestKept ==
  \A s \in Subs : holder[s] = Free =>
    /\ Len(chan[s]) <= Len(offered[s])
    /\ chan[s] = Newest(offered[s], Len(chan[s]))

\* "Publish delivers event to every current subscriber" (bus.go:43): a
\* subscriber that is still registered was sent every event whose Publish
\* began after it subscribed and is over, whoever else was publishing,
\* subscribing or leaving meanwhile.
Over(p) == IF Publishing(p) THEN number[p] - 1 ELSE number[p]
CompleteStream ==
  \A s \in subs, p \in Pubs : \A n \in (joined[s][p] + 1)..Over(p) :
    \E i \in 1..Len(offered[s]) : offered[s][i] = <<p, n>>

\* Bus.Dropped: the number of events that were sent to some subscriber and
\* that it neither received, nor still has in its buffer, nor is about to be
\* given; and nobody receives what it was not sent.
InHand(s) == IF holder[s] = Free THEN {} ELSE {Current(holder[s])}
Kept(s) == Range(got[s]) \cup Range(chan[s]) \cup InHand(s)
Lost == {d \in UNION {{s} \X Range(offered[s]) : s \in Subs} : d[2] \notin Kept(d[1])}
DroppedIsExact ==
  /\ dropped = Cardinality(Lost)
  /\ \A s \in Subs : Kept(s) \subseteq Range(offered[s])

\* "It never blocks" (bus.go:43): a Publish ends although no reader ever
\* reads, also when two publishers meet at one subscriber.
PublishNeverBlocks == \A p \in Pubs : Publishing(p) ~> ~Publishing(p)
=============================================================================
