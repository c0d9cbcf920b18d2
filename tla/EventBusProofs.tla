--------------------------- MODULE EventBusProofs ---------------------------
(* Proofs about EventBus, for every set of publishers and subscribers, every *)
(* buffer size and every number of events.                                   *)
EXTENDS EventBus, SequenceTheorems, FiniteSetTheorems, TLAPS

-----------------------------------------------------------------------------
(* Types                                                                   *)

LEMMA TypedInductive ==
  ASSUME TypeOK, [Next]_vars
  PROVE  TypeOK'
<1> USE DEF TypeOK, registry
<1>1. ASSUME NEW s \in Subs, Subscribe(s) PROVE TypeOK'
  BY <1>1 DEF Subscribe
<1>2. ASSUME NEW s \in Subs, Unregister(s) PROVE TypeOK'
  BY <1>2 DEF Unregister
<1>3. ASSUME NEW s \in Subs, Close(s) PROVE TypeOK'
  BY <1>3 DEF Close
<1>4. ASSUME NEW s \in Subs, Read(s) PROVE TypeOK'
  <2>1. /\ Head(chan[s]) \in Events
        /\ Tail(chan[s]) \in Seq(Events)
        /\ Len(Tail(chan[s])) <= Len(chan[s])
    BY <1>4 DEF Read
  <2> QED
    BY <1>4, <2>1, BufferAssumption DEF Read
<1>5. ASSUME NEW p \in Pubs, BeginPublish(p) PROVE TypeOK'
  <2>0. number[p] \in Nat /\ MaxEvents[p] \in Nat /\ number[p] < MaxEvents[p]
    BY <1>5, BoundAssumption DEF BeginPublish
  <2>1. number[p] + 1 \in Nat /\ number[p] + 1 <= MaxEvents[p]
    BY <2>0
  <2>2. subs \in SUBSET Subs
    BY DEF subs
  <2> QED
    BY <1>5, <2>1, <2>2 DEF BeginPublish
<1>6. ASSUME NEW p \in Pubs, NEW s \in Subs, EnterSend(p, s) PROVE TypeOK'
  <2>1. Current(p) \in Events
    BY DEF Current, Events
  <2> QED
    BY <1>6, <2>1 DEF EnterSend
<1>7. ASSUME NEW p \in Pubs, NEW s \in Subs, SkipClosed(p, s) PROVE TypeOK'
  BY <1>7 DEF SkipClosed
<1>8. ASSUME NEW p \in Pubs, NEW s \in Subs, Put(p, s) PROVE TypeOK'
  <2>1. Current(p) \in Events
    BY DEF Current, Events
  <2> QED
    BY <1>8, <2>1, BufferAssumption, FreeAssumption DEF Put
<1>9. ASSUME NEW p \in Pubs, NEW s \in Subs, SeeFull(p, s) PROVE TypeOK'
  BY <1>9 DEF SeeFull
<1>10. ASSUME NEW p \in Pubs, NEW s \in Subs, DropOldest(p, s) PROVE TypeOK'
  <2>1. CASE chan[s] = <<>>
    BY <1>10, <2>1 DEF DropOldest
  <2>2. CASE chan[s] # <<>>
    <3>1. Tail(chan[s]) \in Seq(Events) /\ Len(Tail(chan[s])) <= Len(chan[s])
      BY <2>2
    <3>2. /\ chan' = [chan EXCEPT ![s] = Tail(chan[s])]
          /\ dropped' = dropped + 1
      BY <1>10, <2>2 DEF DropOldest
    <3>3. /\ chan' \in [Subs -> Seq(Events)]
          /\ \A t \in Subs : Len(chan'[t]) <= Len(chan[t])
      BY <3>1, <3>2
    <3>4. \A t \in Subs : Len(chan'[t]) <= Buffer
      BY <3>3, BufferAssumption
    <3> QED
      BY <1>10, <3>2, <3>3, <3>4 DEF DropOldest
  <2> QED
    BY <2>1, <2>2
<1>11. CASE UNCHANGED vars
  BY <1>11 DEF vars
<1> QED
  BY <1>1, <1>2, <1>3, <1>4, <1>5, <1>6, <1>7, <1>8, <1>9, <1>10, <1>11
     DEF Next, Publish

LEMMA AlwaysTyped == Spec => []TypeOK
<1>1. ASSUME Init PROVE TypeOK
  <2>1. \A p \in Pubs : number[p] <= MaxEvents[p]
    BY <1>1, BoundAssumption DEF Init
  <2>2. \A s \in Subs : Len(chan[s]) <= Buffer
    BY <1>1, BufferAssumption DEF Init
  <2>3. <<>> \in Seq(Events)
    OBVIOUS
  <2> QED
    BY <1>1, <2>1, <2>2, <2>3 DEF Init, TypeOK
<1> QED
  BY <1>1, TypedInductive, PTL DEF Spec

(* Every variable keeps its type; no channel holds more than its capacity. *)
THEOREM TypeCorrect == Spec => []TypeOK
BY AlwaysTyped

-----------------------------------------------------------------------------
(* The lock of a subscriber                                                *)

\* A publisher inside send still has that subscriber to do, and the channel
\* cannot be closed under it.
LockInv ==
  \A s \in Subs, p \in Pubs :
    holder[s] = p => s \in todo[p] /\ stage[s] # "left"

LEMMA LockInvInductive ==
  ASSUME TypeOK, LockInv, [Next]_vars
  PROVE  LockInv'
<1> USE FreeAssumption DEF TypeOK, LockInv, registry
<1>1. ASSUME NEW s \in Subs, Subscribe(s) \/ Unregister(s) \/ Close(s) \/ Read(s)
      PROVE  LockInv'
  BY <1>1 DEF Subscribe, Unregister, Close, Read
<1>2. ASSUME NEW p \in Pubs, BeginPublish(p) PROVE LockInv'
  BY <1>2 DEF BeginPublish, Publishing
<1>3. ASSUME NEW p \in Pubs, NEW s \in Subs, EnterSend(p, s) PROVE LockInv'
  BY <1>3 DEF EnterSend, closed
<1>4. ASSUME NEW p \in Pubs, NEW s \in Subs, SkipClosed(p, s) PROVE LockInv'
  BY <1>4 DEF SkipClosed
<1>5. ASSUME NEW p \in Pubs, NEW s \in Subs, Put(p, s) PROVE LockInv'
  BY <1>5 DEF Put
<1>6. ASSUME NEW p \in Pubs, NEW s \in Subs, SeeFull(p, s) \/ DropOldest(p, s)
      PROVE  LockInv'
  BY <1>6 DEF SeeFull, DropOldest
<1>7. CASE UNCHANGED vars
  BY <1>7 DEF vars
<1> QED
  BY <1>1, <1>2, <1>3, <1>4, <1>5, <1>6, <1>7 DEF Next, Publish

LEMMA AlwaysLockInv == Spec => []LockInv
<1>1. Init => LockInv
  BY FreeAssumption DEF Init, LockInv
<1> QED
  BY <1>1, LockInvInductive, AlwaysTyped, PTL DEF Spec

(* No publisher is ever inside send on a closed channel (bus.go:63-69,     *)
(* 107-110).                                                               *)
THEOREM ChannelStaysOpen == Spec => []NoSendOnClosed
<1>1. TypeOK /\ LockInv => NoSendOnClosed
  BY DEF TypeOK, LockInv, NoSendOnClosed, closed
<1> QED
  BY <1>1, AlwaysTyped, AlwaysLockInv, PTL

-----------------------------------------------------------------------------
(* Order                                                                   *)

\* What a reader received, and then what it will receive.
Stream(s) == got[s] \o chan[s]

\* Nothing in a stream is newer than its publisher's current event, and that
\* one is not in it while the publisher has the subscriber to do.
Before(s, e) ==
  e[2] <= number[e[1]] /\ (s \in todo[e[1]] => e[2] < number[e[1]])

OrderInv ==
  \A s \in Subs : /\ Ascending(Stream(s))
                  /\ \A i \in 1..Len(Stream(s)) : Before(s, Stream(s)[i])

LEMMA AppendAscending ==
  ASSUME NEW q \in Seq(Events), Ascending(q), NEW p \in Pubs, NEW n \in Nat,
         \A i \in 1..Len(q) : q[i][1] = p => q[i][2] < n
  PROVE  Ascending(Append(q, <<p, n>>))
<1> DEFINE r == Append(q, <<p, n>>)
<1>1. /\ Len(r) = Len(q) + 1 /\ r[Len(q) + 1] = <<p, n>>
      /\ \A i \in 1..Len(q) : r[i] = q[i]
  BY DEF Events
<1> HIDE DEF r
<1>2. Ascending(r)
  BY <1>1 DEF Ascending
<1> QED
  BY <1>2 DEF r

LEMMA DropKeepsOrder ==
  ASSUME NEW q \in Seq(Events), NEW r \in Seq(Events), r # <<>>
  PROVE  LET old == q \o r
             new == q \o Tail(r)
         IN /\ new \in Seq(Events)
            /\ Ascending(old) => Ascending(new)
            /\ \A i \in 1..Len(new) : \E j \in 1..Len(old) : new[i] = old[j]
<1> DEFINE old == q \o r
           new == q \o Tail(r)
<1>1. /\ old \in Seq(Events) /\ Len(old) = Len(q) + Len(r)
      /\ \A i \in 1..Len(old) : old[i] = IF i <= Len(q) THEN q[i] ELSE r[i - Len(q)]
  OBVIOUS
<1>2. /\ Tail(r) \in Seq(Events) /\ Len(Tail(r)) = Len(r) - 1
      /\ \A i \in 1..Len(Tail(r)) : Tail(r)[i] = r[i + 1]
  OBVIOUS
<1>3. /\ new \in Seq(Events) /\ Len(new) = Len(old) - 1
      /\ \A i \in 1..Len(new) :
           new[i] = IF i <= Len(q) THEN q[i] ELSE Tail(r)[i - Len(q)]
  BY <1>1, <1>2
<1>4. Len(q) \in Nat /\ Len(r) \in Nat \ {0}
  OBVIOUS
<1> HIDE DEF old, new
<1>5. \A i \in 1..Len(new) : new[i] = old[IF i <= Len(q) THEN i ELSE i + 1]
  <2> TAKE i \in 1..Len(new)
  <2>1. CASE i <= Len(q)
    BY <1>1, <1>3, <1>4, <2>1
  <2>2. CASE i > Len(q)
    <3>1. i - Len(q) \in 1..Len(Tail(r)) /\ i + 1 \in 1..Len(old)
      BY <1>1, <1>2, <1>3, <1>4, <2>2
    <3>2. new[i] = r[i - Len(q) + 1] /\ old[i + 1] = r[i + 1 - Len(q)]
      BY <1>1, <1>2, <1>3, <1>4, <2>2, <3>1
    <3> QED
      BY <1>3, <1>4, <2>2, <3>2
  <2> QED
    BY <1>3, <1>4, <2>1, <2>2
<1>6. \A i \in 1..Len(new) :
        (IF i <= Len(q) THEN i ELSE i + 1) \in 1..Len(old)
  BY <1>1, <1>3, <1>4
<1>7. ASSUME Ascending(old) PROVE Ascending(new)
  <2> SUFFICES ASSUME NEW i \in 1..Len(new), NEW j \in 1..Len(new), i < j,
                      new[i][1] = new[j][1]
               PROVE  new[i][2] < new[j][2]
    BY DEF Ascending
  <2> DEFINE place(k) == IF k <= Len(q) THEN k ELSE k + 1
  <2>1. /\ place(i) \in 1..Len(old) /\ place(j) \in 1..Len(old)
        /\ new[i] = old[place(i)] /\ new[j] = old[place(j)]
    BY <1>5, <1>6
  <2>2. place(i) < place(j)
    BY <1>3, <1>4
  <2> HIDE DEF place
  <2> QED
    BY <1>7, <2>1, <2>2 DEF Ascending
<1>8. \A i \in 1..Len(new) : \E j \in 1..Len(old) : new[i] = old[j]
  BY <1>5, <1>6
<1> QED
  BY <1>3, <1>7, <1>8 DEF old, new

LEMMA ReadKeepsStream ==
  ASSUME NEW q \in Seq(Events), NEW r \in Seq(Events), r # <<>>
  PROVE  Append(q, Head(r)) \o Tail(r) = q \o r
OBVIOUS

LEMMA StreamTyped ==
  ASSUME TypeOK
  PROVE  \A s \in Subs :
           /\ Stream(s) \in Seq(Events)
           /\ \A i \in 1..Len(Stream(s)) :
                /\ Stream(s)[i] \in Events
                /\ Stream(s)[i][1] \in Pubs /\ Stream(s)[i][2] \in Nat
<1> TAKE s \in Subs
<1>1. got[s] \in Seq(Events) /\ chan[s] \in Seq(Events)
  BY DEF TypeOK
<1>2. Stream(s) \in Seq(Events)
  BY <1>1 DEF Stream
<1>3. \A i \in 1..Len(Stream(s)) : Stream(s)[i] \in Events
  BY <1>2
<1> QED
  BY <1>2, <1>3 DEF Events

\* What an action leaves alone, it keeps in order.
LEMMA SameStreamsKeepOrder ==
  ASSUME TypeOK, OrderInv, UNCHANGED <<got, chan, number>>,
         \A q \in Pubs : todo'[q] \subseteq todo[q]
  PROVE  OrderInv'
<1>1. \A s \in Subs : Stream(s)' = Stream(s)
  BY DEF Stream
<1> QED
  BY <1>1, StreamTyped DEF OrderInv, Before

LEMMA OrderInvInductive ==
  ASSUME TypeOK, LockInv, OrderInv, [Next]_vars
  PROVE  OrderInv'
<1>1. ASSUME NEW s \in Subs, Subscribe(s) \/ Unregister(s) \/ Close(s)
      PROVE  OrderInv'
  BY <1>1, SameStreamsKeepOrder DEF Subscribe, Unregister, Close
<1>2. ASSUME NEW s \in Subs, Read(s) PROVE OrderInv'
  <2>1. Stream(s)' = Stream(s)
    BY <1>2, ReadKeepsStream DEF Read, Stream, TypeOK
  <2>2. \A t \in Subs : Stream(t)' = Stream(t)
    BY <1>2, <2>1 DEF Read, Stream, TypeOK
  <2> QED
    BY <1>2, <2>2 DEF Read, OrderInv, Before
<1>3. ASSUME NEW p \in Pubs, BeginPublish(p) PROVE OrderInv'
  <2>1. /\ \A s \in Subs : Stream(s)' = Stream(s)
        /\ \A q \in Pubs : q # p => number'[q] = number[q] /\ todo'[q] = todo[q]
        /\ number'[p] = number[p] + 1
    BY <1>3 DEF BeginPublish, Stream, TypeOK
  <2>2. \A q \in Pubs : number[q] \in Nat
    BY DEF TypeOK
  <2>3. ASSUME NEW s \in Subs, NEW i \in 1..Len(Stream(s))
        PROVE  Before(s, Stream(s)[i])'
    <3>1. Stream(s)[i][1] \in Pubs /\ Stream(s)[i][2] \in Nat
      BY StreamTyped
    <3>2. Before(s, Stream(s)[i])
      BY DEF OrderInv
    <3> QED
      BY <2>1, <2>2, <3>1, <3>2 DEF Before
  <2> QED
    BY <2>1, <2>3 DEF OrderInv
<1>4. ASSUME NEW p \in Pubs, NEW s \in Subs,
             EnterSend(p, s) \/ SkipClosed(p, s) \/ SeeFull(p, s)
      PROVE  OrderInv'
  BY <1>4, SameStreamsKeepOrder DEF EnterSend, SkipClosed, SeeFull, TypeOK
<1>5. ASSUME NEW p \in Pubs, NEW s \in Subs, Put(p, s) PROVE OrderInv'
  <2>1. s \in todo[p] /\ Current(p) \in Events /\ number[p] \in Nat
    BY <1>5 DEF Put, LockInv, Current, Events, TypeOK
  <2>2. /\ Stream(s)' = Append(Stream(s), Current(p))
        /\ \A t \in Subs : t # s => Stream(t)' = Stream(t)
    BY <1>5, <2>1 DEF Put, Stream, TypeOK
  <2>3. /\ number' = number /\ s \notin todo'[p]
        /\ \A q \in Pubs : todo'[q] \subseteq todo[q]
    BY <1>5 DEF Put, TypeOK
  <2>4. \A i \in 1..Len(Stream(s)) :
          Stream(s)[i][1] = p => Stream(s)[i][2] < number[p]
    BY <2>1 DEF OrderInv, Before
  <2>5. Ascending(Append(Stream(s), Current(p)))
    BY StreamTyped, <2>1, <2>4, AppendAscending DEF OrderInv, Current
  <2>8. /\ Len(Append(Stream(s), Current(p))) = Len(Stream(s)) + 1
        /\ Append(Stream(s), Current(p))[Len(Stream(s)) + 1] = Current(p)
        /\ \A i \in 1..Len(Stream(s)) :
             Append(Stream(s), Current(p))[i] = Stream(s)[i]
    BY StreamTyped, <2>1
  <2>9. \A t \in Subs : Ascending(Stream(t)')
    BY <2>2, <2>5 DEF OrderInv
  <2>10. \A t \in Subs : \A i \in 1..Len(Stream(t)') :
           \/ \E j \in 1..Len(Stream(t)) : Stream(t)'[i] = Stream(t)[j]
           \/ t = s /\ Stream(t)'[i] = Current(p)
    BY <2>2, <2>8, StreamTyped
  <2>11. \A t \in Subs : \A i \in 1..Len(Stream(t)') : Before(t, Stream(t)[i])'
    <3> SUFFICES ASSUME NEW t \in Subs, NEW i \in 1..Len(Stream(t)')
                 PROVE  Before(t, Stream(t)[i])'
      OBVIOUS
    <3>1. CASE \E j \in 1..Len(Stream(t)) : Stream(t)'[i] = Stream(t)[j]
      <4>1. PICK j \in 1..Len(Stream(t)) : Stream(t)'[i] = Stream(t)[j]
        BY <3>1
      <4>2. Before(t, Stream(t)[j]) /\ Stream(t)[j][1] \in Pubs
        BY StreamTyped DEF OrderInv
      <4> QED
        BY <2>3, <4>1, <4>2 DEF Before
    <3>2. CASE t = s /\ Stream(t)'[i] = Current(p)
      BY <2>1, <2>3, <3>2 DEF Before, Current
    <3> QED
      BY <2>10, <3>1, <3>2
  <2> QED
    BY <2>9, <2>11 DEF OrderInv
<1>6. ASSUME NEW p \in Pubs, NEW s \in Subs, DropOldest(p, s) PROVE OrderInv'
  <2>1. CASE chan[s] = <<>>
    BY <1>6, <2>1, SameStreamsKeepOrder DEF DropOldest
  <2>2. CASE chan[s] # <<>>
    <3>1. /\ Stream(s)' = got[s] \o Tail(chan[s])
          /\ \A t \in Subs : t # s => Stream(t)' = Stream(t)
          /\ UNCHANGED <<number, todo>>
      BY <1>6, <2>2 DEF DropOldest, Stream, TypeOK
    <3>2. /\ Ascending(Stream(s)')
          /\ \A i \in 1..Len(Stream(s)') :
               \E j \in 1..Len(Stream(s)) : Stream(s)'[i] = Stream(s)[j]
      BY <2>2, <3>1, DropKeepsOrder DEF OrderInv, Stream, TypeOK
    <3>3. \A t \in Subs :
            /\ Ascending(Stream(t)')
            /\ \A i \in 1..Len(Stream(t)') :
                 \E j \in 1..Len(Stream(t)) : Stream(t)'[i] = Stream(t)[j]
      BY <3>1, <3>2 DEF OrderInv
    <3>4. \A t \in Subs : \A i \in 1..Len(Stream(t)') : Before(t, Stream(t)[i])'
      BY <3>1, <3>3 DEF OrderInv, Before
    <3> QED
      BY <3>3, <3>4 DEF OrderInv
  <2> QED
    BY <2>1, <2>2
<1>7. CASE UNCHANGED vars
  BY <1>7, SameStreamsKeepOrder DEF vars
<1> QED
  BY <1>1, <1>2, <1>3, <1>4, <1>5, <1>6, <1>7 DEF Next, Publish

LEMMA AlwaysOrderInv == Spec => []OrderInv
<1>1. ASSUME Init PROVE OrderInv
  <2>1. \A s \in Subs : Stream(s) = <<>>
    BY <1>1 DEF Init, Stream
  <2> QED
    BY <2>1 DEF OrderInv, Ascending
<1> QED
  BY <1>1, OrderInvInductive, AlwaysTyped, AlwaysLockInv, PTL DEF Spec

(* However publishers and readers interleave and whatever is dropped, the  *)
(* events of one publisher reach a reader in order and once (bus.go:47-86). *)
THEOREM StreamsAreOrdered == Spec => []InPublisherOrder
<1>1. OrderInv => InPublisherOrder
  BY DEF OrderInv, InPublisherOrder, Stream
<1> QED
  BY <1>1, AlwaysOrderInv, PTL

-----------------------------------------------------------------------------
(* The buffer holds the newest events                                      *)

\* c is the end of o, the last h elements of o left aside.
Aligned(c, o, h) ==
  /\ Len(c) + h <= Len(o)
  /\ \A i \in 1..Len(c) : c[i] = o[Len(o) - h - Len(c) + i]

Held(s) == IF holder[s] = Free THEN 0 ELSE 1

NewestInv ==
  \A s \in Subs :
    /\ Aligned(chan[s], offered[s], Held(s))
    /\ holder[s] # Free => offered[s][Len(offered[s])] = Current(holder[s])

LEMMA OfferKeepsAligned ==
  ASSUME NEW c \in Seq(Events), NEW o \in Seq(Events), NEW e \in Events,
         Aligned(c, o, 0)
  PROVE  /\ Aligned(c, Append(o, e), 1)
         /\ Append(o, e)[Len(Append(o, e))] = e
<1> DEFINE r == Append(o, e)
<1>1. /\ Len(r) = Len(o) + 1 /\ r[Len(o) + 1] = e
      /\ \A i \in 1..Len(o) : r[i] = o[i]
      /\ Len(c) \in Nat /\ Len(o) \in Nat
  OBVIOUS
<1> HIDE DEF r
<1>2. ASSUME NEW i \in 1..Len(c) PROVE c[i] = r[Len(r) - 1 - Len(c) + i]
  <2>1. c[i] = o[Len(o) - 0 - Len(c) + i] /\ Len(c) + 0 <= Len(o)
    BY DEF Aligned
  <2>2. /\ Len(o) - 0 - Len(c) + i \in 1..Len(o)
        /\ Len(o) - 0 - Len(c) + i = Len(r) - 1 - Len(c) + i
    BY <1>1, <2>1
  <2> QED
    BY <1>1, <2>1, <2>2
<1>3. Aligned(c, r, 1) /\ r[Len(r)] = e
  BY <1>1, <1>2 DEF Aligned
<1> QED
  BY <1>3 DEF r

LEMMA PutKeepsAligned ==
  ASSUME NEW c \in Seq(Events), NEW o \in Seq(Events), NEW e \in Events,
         Aligned(c, o, 1), o[Len(o)] = e
  PROVE  Aligned(Append(c, e), o, 0)
<1> DEFINE r == Append(c, e)
<1>1. /\ Len(r) = Len(c) + 1 /\ r[Len(c) + 1] = e
      /\ \A i \in 1..Len(c) : r[i] = c[i]
      /\ Len(c) \in Nat /\ Len(o) \in Nat
  OBVIOUS
<1> HIDE DEF r
<1>2. Aligned(r, o, 0)
  BY <1>1 DEF Aligned
<1> QED
  BY <1>2 DEF r

LEMMA TailKeepsAligned ==
  ASSUME NEW c \in Seq(Events), NEW o \in Seq(Events), NEW h \in {0, 1},
         c # <<>>, Aligned(c, o, h)
  PROVE  Aligned(Tail(c), o, h)
<1> DEFINE r == Tail(c)
<1>1. /\ Len(r) = Len(c) - 1 /\ Len(c) \in Nat /\ Len(o) \in Nat
      /\ \A i \in 1..Len(r) : r[i] = c[i + 1]
  OBVIOUS
<1> HIDE DEF r
<1>2. Aligned(r, o, h)
  BY <1>1 DEF Aligned
<1> QED
  BY <1>2 DEF r

LEMMA NewestInvInductive ==
  ASSUME TypeOK, LockInv, NewestInv, [Next]_vars
  PROVE  NewestInv'
<1> USE DEF TypeOK
<1>1. ASSUME UNCHANGED <<chan, holder, number, offered>> PROVE NewestInv'
  BY <1>1 DEF NewestInv, Held, Aligned, Current
<1>2. ASSUME NEW s \in Subs, Subscribe(s) \/ Unregister(s) \/ Close(s)
      PROVE  NewestInv'
  BY <1>1, <1>2 DEF Subscribe, Unregister, Close
<1>3. ASSUME NEW s \in Subs, chan[s] # <<>>,
             chan' = [chan EXCEPT ![s] = Tail(chan[s])],
             UNCHANGED <<holder, number, offered>>
      PROVE  NewestInv'
  <2>1. Aligned(Tail(chan[s]), offered[s], Held(s))
    BY <1>3, TailKeepsAligned DEF NewestInv, Held
  <2> QED
    BY <1>3, <2>1 DEF NewestInv, Held, Aligned, Current
<1>4. ASSUME NEW s \in Subs, Read(s) PROVE NewestInv'
  BY <1>3, <1>4 DEF Read
<1>5. ASSUME NEW p \in Pubs, BeginPublish(p) PROVE NewestInv'
  <2>1. \A s \in Subs : holder[s] # p
    BY <1>5 DEF BeginPublish, Publishing, LockInv
  <2>2. \A s \in Subs : holder[s] # Free => Current(holder[s])' = Current(holder[s])
    BY <1>5, <2>1 DEF BeginPublish, Current
  <2> QED
    BY <1>5, <2>2 DEF BeginPublish, NewestInv, Held, Aligned
<1>6. ASSUME NEW p \in Pubs, NEW s \in Subs, EnterSend(p, s) PROVE NewestInv'
  <2>1. /\ holder[s] = Free /\ holder' = [holder EXCEPT ![s] = p]
        /\ offered' = [offered EXCEPT ![s] = Append(offered[s], Current(p))]
        /\ UNCHANGED <<chan, number>>
    BY <1>6 DEF EnterSend
  <2>2. Current(p) \in Events
    BY DEF Current, Events
  <2>3. /\ Aligned(chan[s], Append(offered[s], Current(p)), 1)
        /\ Append(offered[s], Current(p))[Len(Append(offered[s], Current(p)))] = Current(p)
    BY <2>1, <2>2, OfferKeepsAligned DEF NewestInv, Held
  <2> QED
    BY <2>1, <2>3, FreeAssumption DEF NewestInv, Held, Aligned, Current
<1>7. ASSUME NEW p \in Pubs, NEW s \in Subs, Put(p, s) PROVE NewestInv'
  <2>1. /\ holder[s] = p /\ holder' = [holder EXCEPT ![s] = Free]
        /\ chan' = [chan EXCEPT ![s] = Append(chan[s], Current(p))]
        /\ UNCHANGED <<offered, number>>
    BY <1>7 DEF Put
  <2>2. Current(p) \in Events
    BY DEF Current, Events
  <2>3. Aligned(Append(chan[s], Current(p)), offered[s], 0)
    BY <2>1, <2>2, PutKeepsAligned, FreeAssumption DEF NewestInv, Held
  <2>4. Aligned(chan[s], offered[s], Held(s))' /\ holder'[s] = Free
    BY <2>1, <2>3 DEF Held
  <2>5. ASSUME NEW t \in Subs, t # s
        PROVE  /\ Aligned(chan[t], offered[t], Held(t))'
               /\ holder'[t] # Free => offered'[t][Len(offered'[t])] = Current(holder[t])'
    BY <2>1, <2>5 DEF NewestInv, Held, Aligned, Current
  <2> QED
    BY <2>4, <2>5 DEF NewestInv
<1>8. ASSUME NEW p \in Pubs, NEW s \in Subs, SkipClosed(p, s) \/ SeeFull(p, s)
      PROVE  NewestInv'
  BY <1>1, <1>8 DEF SkipClosed, SeeFull
<1>9. ASSUME NEW p \in Pubs, NEW s \in Subs, DropOldest(p, s) PROVE NewestInv'
  BY <1>1, <1>3, <1>9 DEF DropOldest
<1>10. CASE UNCHANGED vars
  BY <1>1, <1>10 DEF vars
<1> QED
  BY <1>2, <1>4, <1>5, <1>6, <1>7, <1>8, <1>9, <1>10 DEF Next, Publish

LEMMA AlwaysNewestInv == Spec => []NewestInv
<1>1. Init => NewestInv
  BY DEF Init, NewestInv, Held, Aligned
<1> QED
  BY <1>1, NewestInvInductive, AlwaysTyped, AlwaysLockInv, PTL DEF Spec

LEMMA LastElements ==
  ASSUME NEW o \in Seq(Events), NEW k \in 0..Len(o)
  PROVE  /\ Newest(o, k) \in Seq(Events)
         /\ Len(Newest(o, k)) = k
         /\ \A i \in 1..k : Newest(o, k)[i] = o[Len(o) - 0 - k + i]
<1> DEFINE m == Len(o) - k + 1
<1>1. m \in Int /\ Len(o) \in Int /\ Len(o) - m + 1 = k /\ m >= 1
  OBVIOUS
<1>2. \A i \in m..Len(o) : o[i] \in Events
  BY <1>1
<1>3. \A i \in 1..k : m + i - 1 = Len(o) - 0 - k + i
  OBVIOUS
<1>4. Newest(o, k) = SubSeq(o, m, Len(o))
  BY DEF Newest
<1> HIDE DEF m
<1>5. /\ SubSeq(o, m, Len(o)) \in Seq(Events)
      /\ Len(SubSeq(o, m, Len(o))) = IF m <= Len(o) THEN Len(o) - m + 1 ELSE 0
      /\ \A i \in 1..(Len(o) - m + 1) : SubSeq(o, m, Len(o))[i] = o[m + i - 1]
  BY <1>1, <1>2, SubSeqProperties
<1> QED
  BY <1>1, <1>3, <1>4, <1>5

(* What a reader finds in its buffer is the newest of what it was sent:    *)
(* dropping leaves no gap behind the oldest buffered event (bus.go:78-84). *)
THEOREM BufferIsNewest == Spec => []NewestKept
<1>1. ASSUME TypeOK, NewestInv PROVE NewestKept
  <2> SUFFICES ASSUME NEW s \in Subs, holder[s] = Free
               PROVE  /\ Len(chan[s]) <= Len(offered[s])
                      /\ chan[s] = Newest(offered[s], Len(chan[s]))
    BY DEF NewestKept
  <2> DEFINE c == chan[s]
             o == offered[s]
  <2>1. c \in Seq(Events) /\ o \in Seq(Events) /\ Aligned(c, o, 0)
    BY <1>1 DEF TypeOK, NewestInv, Held
  <2> HIDE DEF c, o
  <2>2. Len(c) \in 0..Len(o)
    BY <2>1 DEF Aligned
  <2>3. \A i \in 1..Len(c) : Newest(o, Len(c))[i] = c[i]
    BY <2>1, <2>2, LastElements DEF Aligned
  <2>4. c = Newest(o, Len(c))
    BY <2>1, <2>2, <2>3, LastElements, SeqEqual
  <2> QED
    BY <2>2, <2>4 DEF c, o
<1> QED
  BY <1>1, AlwaysTyped, AlwaysNewestInv, PTL

-----------------------------------------------------------------------------
(* Nothing is withheld from a registered subscriber                        *)

WasOffered(s, e) == \E i \in 1..Len(offered[s]) : offered[s][i] = e

CompleteInv ==
  \A s \in subs, p \in Pubs, n \in Nat :
    /\ joined[s][p] < n /\ n <= number[p]
    /\ n < number[p] \/ s \notin todo[p]
    => WasOffered(s, <<p, n>>)

LEMMA CompleteInvInductive ==
  ASSUME TypeOK, LockInv, NewestInv, CompleteInv, [Next]_vars
  PROVE  CompleteInv'
<1>1. \/ offered' = offered
      \/ \E p \in Pubs, s \in Subs :
           offered' = [offered EXCEPT ![s] = Append(offered[s], Current(p))]
  BY DEF Next, vars, Subscribe, Unregister, Close, Read, BeginPublish, Publish,
         EnterSend, SkipClosed, Put, SeeFull, DropOldest
<1>2. \A t \in Subs, e \in Events : WasOffered(t, e) => WasOffered(t, e)'
  <2>1. ASSUME NEW p \in Pubs, NEW s \in Subs,
               offered' = [offered EXCEPT ![s] = Append(offered[s], Current(p))]
        PROVE  \A t \in Subs, e \in Events : WasOffered(t, e) => WasOffered(t, e)'
    <3>1. offered[s] \in Seq(Events) /\ Current(p) \in Events
      BY DEF TypeOK, Current, Events
    <3>2. /\ Len(Append(offered[s], Current(p))) = Len(offered[s]) + 1
          /\ \A i \in 1..Len(offered[s]) :
               Append(offered[s], Current(p))[i] = offered[s][i]
          /\ Len(offered[s]) \in Nat
      BY <3>1
    <3>3. \A t \in Subs : t # s => offered'[t] = offered[t]
      BY <2>1 DEF TypeOK
    <3>4. offered'[s] = Append(offered[s], Current(p))
      BY <2>1 DEF TypeOK
    <3> QED
      BY <3>2, <3>3, <3>4 DEF WasOffered
  <2>2. CASE offered' = offered
    BY <2>2 DEF WasOffered
  <2> QED
    BY <1>1, <2>1, <2>2
<1> SUFFICES ASSUME NEW t \in Subs, NEW q \in Pubs, NEW n \in Nat,
                    stage'[t] = "open", joined'[t][q] < n, n <= number'[q],
                    n < number'[q] \/ t \notin todo'[q]
             PROVE  WasOffered(t, <<q, n>>)
  BY <1>2 DEF CompleteInv, subs, Events
<1>3. ASSUME stage[t] = "open", joined[t][q] < n, n <= number[q],
             n < number[q] \/ t \notin todo[q]
      PROVE  WasOffered(t, <<q, n>>)
  BY <1>3 DEF CompleteInv, subs
<1> USE DEF TypeOK, registry
<1>4. ASSUME NEW s \in Subs, Subscribe(s) PROVE WasOffered(t, <<q, n>>)
  BY <1>3, <1>4 DEF Subscribe
<1>5. ASSUME NEW s \in Subs, Unregister(s) \/ Close(s) \/ Read(s)
      PROVE  WasOffered(t, <<q, n>>)
  BY <1>3, <1>5 DEF Unregister, Close, Read
<1>6. ASSUME NEW p \in Pubs, BeginPublish(p) PROVE WasOffered(t, <<q, n>>)
  BY <1>3, <1>6 DEF BeginPublish, Publishing, subs
<1>7. ASSUME NEW p \in Pubs, NEW s \in Subs,
             EnterSend(p, s) \/ SeeFull(p, s) \/ DropOldest(p, s)
      PROVE  WasOffered(t, <<q, n>>)
  BY <1>3, <1>7 DEF EnterSend, SeeFull, DropOldest
<1>8. ASSUME NEW p \in Pubs, NEW s \in Subs, SkipClosed(p, s)
      PROVE  WasOffered(t, <<q, n>>)
  BY <1>3, <1>8 DEF SkipClosed, closed
<1>9. ASSUME NEW p \in Pubs, NEW s \in Subs, Put(p, s)
      PROVE  WasOffered(t, <<q, n>>)
  <2>1. CASE q = p /\ t = s /\ n = number[p]
    <3>1. /\ Len(offered[s]) \in 1..Len(offered[s])
          /\ offered[s][Len(offered[s])] = <<p, number[p]>>
      BY <1>9, FreeAssumption DEF Put, NewestInv, Aligned, Held, Current
    <3> QED
      BY <2>1, <3>1 DEF WasOffered
  <2>2. CASE ~(q = p /\ t = s /\ n = number[p])
    BY <1>3, <1>9, <2>2 DEF Put
  <2> QED
    BY <2>1, <2>2
<1>10. CASE UNCHANGED vars
  BY <1>3, <1>10 DEF vars
<1> QED
  BY <1>4, <1>5, <1>6, <1>7, <1>8, <1>9, <1>10 DEF Next, Publish

LEMMA AlwaysCompleteInv == Spec => []CompleteInv
<1>1. Init => CompleteInv
  BY DEF Init, CompleteInv, subs
<1> QED
  BY <1>1, CompleteInvInductive, AlwaysTyped, AlwaysLockInv, AlwaysNewestInv,
     PTL DEF Spec

(* A registered subscriber was sent every event published, from begin to   *)
(* end, since it subscribed (bus.go:47-58).                                *)
THEOREM NothingIsWithheld == Spec => []CompleteStream
<1>1. ASSUME TypeOK, CompleteInv PROVE CompleteStream
  <2> SUFFICES ASSUME NEW s \in subs, NEW p \in Pubs,
                      NEW n \in (joined[s][p] + 1)..Over(p)
               PROVE  WasOffered(s, <<p, n>>)
    BY DEF CompleteStream, WasOffered
  <2>1. joined[s][p] \in Nat /\ number[p] \in Nat
    BY <1>1 DEF TypeOK, subs
  <2>2. n \in Nat /\ joined[s][p] < n
    BY <2>1 DEF Over
  <2>3. n <= number[p] /\ (n < number[p] \/ s \notin todo[p])
    BY <2>1 DEF Over, Publishing
  <2> QED
    BY <1>1, <2>2, <2>3 DEF CompleteInv
<1> QED
  BY <1>1, AlwaysTyped, AlwaysCompleteInv, PTL
-----------------------------------------------------------------------------
(* Every lost event is counted, once                                       *)

\* Nothing a subscriber was sent is newer than its publisher's current event,
\* and that one was not sent before the publisher is inside send.
Sent(s, e) ==
  /\ e[2] <= number[e[1]]
  /\ s \in todo[e[1]] /\ holder[s] # e[1] => e[2] < number[e[1]]

SentInv == \A s \in Subs : \A e \in Range(offered[s]) : Sent(s, e)

LostInv ==
  /\ IsFiniteSet(Lost) /\ dropped = Cardinality(Lost)
  /\ \A s \in Subs : Kept(s) \subseteq Range(offered[s])

LEMMA RangeOfAppend ==
  ASSUME NEW q \in Seq(Events), NEW e \in Events
  PROVE  Range(Append(q, e)) = Range(q) \cup {e}
<1> DEFINE r == Append(q, e)
<1>1. /\ r \in Seq(Events) /\ Len(r) = Len(q) + 1 /\ r[Len(q) + 1] = e
      /\ \A i \in 1..Len(q) : r[i] = q[i]
      /\ Len(q) \in Nat
  OBVIOUS
<1>2. DOMAIN r = 1..(Len(q) + 1) /\ DOMAIN q = 1..Len(q)
  BY <1>1
<1> HIDE DEF r
<1>3. Range(r) = Range(q) \cup {e}
  BY <1>1, <1>2 DEF Range
<1> QED
  BY <1>3 DEF r

LEMMA RangeOfTail ==
  ASSUME NEW q \in Seq(Events), q # <<>>
  PROVE  /\ Head(q) \in Events /\ Tail(q) \in Seq(Events)
         /\ Range(q) = {Head(q)} \cup Range(Tail(q))
<1> DEFINE r == Tail(q)
<1>1. /\ r \in Seq(Events) /\ Len(r) = Len(q) - 1 /\ Head(q) = q[1]
      /\ \A i \in 1..Len(r) : r[i] = q[i + 1]
      /\ Len(q) \in Nat \ {0} /\ Head(q) \in Events
  OBVIOUS
<1>2. DOMAIN r = 1..(Len(q) - 1) /\ DOMAIN q = 1..Len(q)
  BY <1>1
<1> HIDE DEF r
<1>3. \A i \in 2..Len(q) : i - 1 \in 1..Len(r) /\ r[i - 1] = q[i]
  BY <1>1
<1>4. \A i \in 1..Len(r) : i + 1 \in 1..Len(q) /\ r[i] = q[i + 1]
  BY <1>1
<1>5. Range(q) \subseteq {q[1]} \cup Range(r)
  <2> SUFFICES ASSUME NEW i \in 1..Len(q), i # 1 PROVE q[i] \in Range(r)
    BY <1>2 DEF Range
  <2>1. i \in 2..Len(q)
    BY <1>1
  <2> QED
    BY <1>1, <1>2, <1>3, <2>1 DEF Range
<1>6. {q[1]} \cup Range(r) \subseteq Range(q)
  BY <1>1, <1>2, <1>4 DEF Range
<1> QED
  BY <1>1, <1>5, <1>6 DEF r

LEMMA SentInvInductive ==
  ASSUME TypeOK, LockInv, SentInv, [Next]_vars
  PROVE  SentInv'
<1> USE DEF TypeOK
<1>0. \A s \in Subs : \A e \in Range(offered[s]) :
        e \in Events /\ e[1] \in Pubs /\ e[2] \in Nat
  <2>1. \A s \in Subs : offered[s] \in Seq(Events)
    OBVIOUS
  <2>2. \A s \in Subs : \A e \in Range(offered[s]) : e \in Events
    BY <2>1 DEF Range
  <2> QED
    BY <2>2 DEF Events
<1>1. ASSUME UNCHANGED <<offered, number>>,
             \A s \in Subs, q \in Pubs :
               s \in todo'[q] /\ holder'[s] # q => s \in todo[q] /\ holder[s] # q
      PROVE  SentInv'
  BY <1>0, <1>1 DEF SentInv, Sent
<1>2. ASSUME NEW s \in Subs, Subscribe(s) \/ Unregister(s) \/ Close(s) \/ Read(s)
      PROVE  SentInv'
  BY <1>1, <1>2 DEF Subscribe, Unregister, Close, Read
<1>3. ASSUME NEW p \in Pubs, BeginPublish(p) PROVE SentInv'
  <2>1. /\ offered' = offered /\ number'[p] = number[p] + 1
        /\ \A q \in Pubs : q # p => number'[q] = number[q] /\ todo'[q] = todo[q]
        /\ holder' = holder
    BY <1>3 DEF BeginPublish
  <2>2. \A q \in Pubs : number[q] \in Nat
    OBVIOUS
  <2>3. ASSUME NEW s \in Subs, NEW e \in Range(offered[s]) PROVE Sent(s, e)'
    <3>1. Sent(s, e) /\ e[1] \in Pubs /\ e[2] \in Nat
      BY <1>0 DEF SentInv
    <3>2. CASE e[1] = p
      <4>1. e[2] < number'[p] /\ number'[p] \in Nat
        BY <2>1, <2>2, <3>1, <3>2 DEF Sent
      <4> QED
        BY <3>1, <3>2, <4>1 DEF Sent
    <3>3. CASE e[1] # p
      BY <2>1, <3>1, <3>3 DEF Sent
    <3> QED
      BY <3>2, <3>3
  <2> QED
    BY <2>1, <2>3 DEF SentInv
<1>4. ASSUME NEW p \in Pubs, NEW s \in Subs, EnterSend(p, s) PROVE SentInv'
  <2>1. Current(p) \in Events /\ Current(p)[1] = p /\ Current(p)[2] = number[p]
    BY DEF Current, Events
  <2>2. /\ offered' = [offered EXCEPT ![s] = Append(offered[s], Current(p))]
        /\ holder' = [holder EXCEPT ![s] = p] /\ UNCHANGED <<number, todo>>
        /\ holder[s] = Free
    BY <1>4 DEF EnterSend
  <2>3. Range(offered'[s]) = Range(offered[s]) \cup {Current(p)}
    BY <2>1, <2>2, RangeOfAppend
  <2>4. \A t \in Subs : t # s => offered'[t] = offered[t] /\ holder'[t] = holder[t]
    BY <2>2
  <2>5. holder'[s] = p
    BY <2>2
  <2>6. \A e \in Range(offered'[s]) : Sent(s, e)'
    BY <1>0, <2>1, <2>2, <2>3, <2>5, FreeAssumption DEF SentInv, Sent
  <2>7. \A t \in Subs : t # s => \A e \in Range(offered'[t]) : Sent(t, e)'
    BY <1>0, <2>2, <2>4 DEF SentInv, Sent
  <2> QED
    BY <2>6, <2>7 DEF SentInv
<1>5. ASSUME NEW p \in Pubs, NEW s \in Subs, SkipClosed(p, s) \/ SeeFull(p, s)
      PROVE  SentInv'
  BY <1>1, <1>5 DEF SkipClosed, SeeFull
<1>6. ASSUME NEW p \in Pubs, NEW s \in Subs, Put(p, s) PROVE SentInv'
  <2>1. \A q \in Pubs : q # p => holder[s] # q
    BY <1>6 DEF Put
  <2> QED
    BY <1>1, <1>6, <2>1 DEF Put
<1>7. ASSUME NEW p \in Pubs, NEW s \in Subs, DropOldest(p, s) PROVE SentInv'
  BY <1>1, <1>7 DEF DropOldest
<1>8. CASE UNCHANGED vars
  BY <1>1, <1>8 DEF vars
<1> QED
  BY <1>2, <1>3, <1>4, <1>5, <1>6, <1>7, <1>8 DEF Next, Publish

LEMMA AlwaysSentInv == Spec => []SentInv
<1>1. ASSUME Init PROVE SentInv
  <2>1. \A s \in Subs : Range(offered[s]) = {}
    BY <1>1 DEF Init, Range
  <2> QED
    BY <2>1 DEF SentInv
<1> QED
  BY <1>1, SentInvInductive, AlwaysTyped, AlwaysLockInv, PTL DEF Spec

\* The oldest buffered event was received by nobody and is nobody's current.
LEMMA OldestIsAlone ==
  ASSUME TypeOK, LockInv, OrderInv, NEW s \in Subs, chan[s] # <<>>
  PROVE  /\ Head(chan[s]) \notin Range(got[s]) \cup Range(Tail(chan[s]))
         /\ Head(chan[s]) \notin InHand(s)
<1> DEFINE g == got[s]
           c == chan[s]
           r == g \o c
<1>1. g \in Seq(Events) /\ c \in Seq(Events) /\ c # <<>>
  BY DEF TypeOK
<1> HIDE DEF g, c
<1>2. /\ r \in Seq(Events) /\ Len(r) = Len(g) + Len(c)
      /\ \A i \in 1..Len(g) : r[i] = g[i]
      /\ \A i \in 1..Len(c) : r[Len(g) + i] = c[i]
      /\ Len(g) \in Nat /\ Len(c) \in Nat \ {0}
  BY <1>1
<1>3. Ascending(r) /\ \A i \in 1..Len(r) : Before(s, r[i])
  BY DEF OrderInv, Stream, g, c
<1>4. /\ Tail(c) \in Seq(Events) /\ Len(Tail(c)) = Len(c) - 1 /\ Head(c) = c[1]
      /\ \A i \in 1..Len(Tail(c)) : Tail(c)[i] = c[i + 1]
      /\ c[1] \in Events
  BY <1>1
<1> HIDE DEF r
<1>5. \A i \in 1..Len(r) : r[i][1] \in Pubs /\ r[i][2] \in Nat
  BY <1>2 DEF Events
<1>6. ASSUME NEW k \in 1..Len(r), k # Len(g) + 1 PROVE r[k] # c[1]
  <2>1. Len(g) + 1 \in 1..Len(r) /\ r[Len(g) + 1] = c[1]
    BY <1>2
  <2>2. CASE k < Len(g) + 1
    BY <1>2, <1>3, <1>5, <2>1, <2>2 DEF Ascending
  <2>3. CASE k > Len(g) + 1
    BY <1>2, <1>3, <1>5, <2>1, <2>3 DEF Ascending
  <2> QED
    BY <1>2, <1>6, <2>2, <2>3
<1>7. c[1] \notin Range(g)
  <2>1. DOMAIN g = 1..Len(g)
    BY <1>1
  <2>2. \A k \in 1..Len(g) : k \in 1..Len(r) /\ k # Len(g) + 1
    BY <1>2
  <2>3. \A k \in 1..Len(g) : g[k] # c[1]
    BY <1>2, <1>6, <2>2
  <2> QED
    BY <2>1, <2>3 DEF Range
<1>8. c[1] \notin Range(Tail(c))
  <2>1. ASSUME NEW i \in 1..Len(Tail(c)) PROVE Tail(c)[i] # c[1]
    <3>1. /\ Len(g) + (i + 1) \in 1..Len(r) /\ Len(g) + (i + 1) # Len(g) + 1
          /\ r[Len(g) + (i + 1)] = c[i + 1]
      BY <1>2, <1>4
    <3> QED
      BY <1>4, <1>6, <3>1
  <2>2. DOMAIN Tail(c) = 1..Len(Tail(c))
    BY <1>4
  <2> QED
    BY <2>1, <2>2 DEF Range
<1>9. c[1] \notin InHand(s)
  <2>1. ASSUME NEW p \in Pubs, holder[s] = p PROVE c[1] # Current(p)
    <3>1. s \in todo[p] /\ number[p] \in Nat
      BY <2>1 DEF LockInv, TypeOK
    <3>2. Len(g) + 1 \in 1..Len(r) /\ r[Len(g) + 1] = c[1]
      BY <1>2
    <3>3. Before(s, c[1])
      BY <1>3, <3>2
    <3> QED
      BY <3>1, <3>3 DEF Before, Current
  <2>2. holder[s] \in Pubs \cup {Free}
    BY DEF TypeOK
  <2> QED
    BY <2>1, <2>2 DEF InHand
<1> QED
  BY <1>4, <1>7, <1>8, <1>9 DEF g, c

LEMMA LostInvInductive ==
  ASSUME TypeOK, LockInv, OrderInv, SentInv, LostInv, [Next]_vars
  PROVE  LostInv'
<1>1. ASSUME UNCHANGED <<offered, got, chan, holder, number, dropped>>
      PROVE  LostInv'
  BY <1>1 DEF LostInv, Lost, Kept, InHand, Current
<1>2. ASSUME NEW s \in Subs, Subscribe(s) \/ Unregister(s) \/ Close(s)
      PROVE  LostInv'
  BY <1>1, <1>2 DEF Subscribe, Unregister, Close
<1>3. ASSUME NEW s \in Subs, Read(s) PROVE LostInv'
  <2>1. /\ chan[s] # <<>> /\ got' = [got EXCEPT ![s] = Append(got[s], Head(chan[s]))]
        /\ chan' = [chan EXCEPT ![s] = Tail(chan[s])]
        /\ UNCHANGED <<offered, holder, number, dropped>>
    BY <1>3 DEF Read
  <2>2. /\ Range(got'[s]) = Range(got[s]) \cup {Head(chan[s])}
        /\ Range(chan[s]) = {Head(chan[s])} \cup Range(chan'[s])
    BY <2>1, RangeOfAppend, RangeOfTail DEF TypeOK
  <2>3. \A t \in Subs : t # s => got'[t] = got[t] /\ chan'[t] = chan[t]
    BY <2>1 DEF TypeOK
  <2>4. \A t \in Subs : InHand(t)' = InHand(t)
    BY <2>1 DEF InHand, Current
  <2>5. \A t \in Subs : Kept(t)' = Kept(t)
    BY <2>2, <2>3, <2>4 DEF Kept
  <2>6. Lost' = Lost
    BY <2>1, <2>5 DEF Lost
  <2> QED
    BY <2>1, <2>5, <2>6 DEF LostInv
<1>4. ASSUME NEW p \in Pubs, BeginPublish(p) PROVE LostInv'
  <2>1. \A s \in Subs : holder[s] # p
    BY <1>4 DEF BeginPublish, Publishing, LockInv
  <2>2. \A s \in Subs : InHand(s)' = InHand(s)
    BY <1>4, <2>1 DEF BeginPublish, InHand, Current
  <2>3. \A s \in Subs : Kept(s)' = Kept(s)
    BY <1>4, <2>2 DEF BeginPublish, Kept
  <2>4. Lost' = Lost
    BY <1>4, <2>3 DEF BeginPublish, Lost
  <2> QED
    BY <1>4, <2>3, <2>4 DEF BeginPublish, LostInv
<1>5. ASSUME NEW p \in Pubs, NEW s \in Subs, EnterSend(p, s) PROVE LostInv'
  <2>1. /\ holder[s] = Free /\ holder' = [holder EXCEPT ![s] = p]
        /\ offered' = [offered EXCEPT ![s] = Append(offered[s], Current(p))]
        /\ s \in todo[p] /\ UNCHANGED <<chan, number, got, dropped>>
    BY <1>5 DEF EnterSend
  <2>2. Current(p) \in Events /\ Current(p)[1] = p /\ Current(p)[2] = number[p]
    BY DEF Current, Events, TypeOK
  <2>3. Current(p) \notin Range(offered[s])
    <3> SUFFICES ASSUME Current(p) \in Range(offered[s]) PROVE FALSE
      OBVIOUS
    <3>1. Sent(s, Current(p))
      BY DEF SentInv
    <3>2. holder[s] # p /\ number[p] \in Nat
      BY <2>1, FreeAssumption DEF TypeOK
    <3> QED
      BY <2>1, <2>2, <3>1, <3>2 DEF Sent
  <2>4. /\ Range(offered'[s]) = Range(offered[s]) \cup {Current(p)}
        /\ \A t \in Subs : t # s => offered'[t] = offered[t]
    BY <2>1, <2>2, RangeOfAppend DEF TypeOK
  <2>5. InHand(s) = {} /\ InHand(s)' = {Current(p)}
    BY <2>1, FreeAssumption DEF InHand, Current, TypeOK
  <2>6. \A t \in Subs : t # s => InHand(t)' = InHand(t)
    BY <2>1 DEF InHand, Current, TypeOK
  <2>7. /\ Kept(s)' = Kept(s) \cup {Current(p)}
        /\ \A t \in Subs : t # s => Kept(t)' = Kept(t)
    BY <2>1, <2>5, <2>6 DEF Kept
  <2>8. Lost' = Lost
    BY <2>3, <2>4, <2>7 DEF Lost
  <2> QED
    BY <2>1, <2>4, <2>7, <2>8 DEF LostInv
<1>6. ASSUME NEW p \in Pubs, NEW s \in Subs, SkipClosed(p, s) \/ SeeFull(p, s)
      PROVE  LostInv'
  BY <1>1, <1>6 DEF SkipClosed, SeeFull
<1>7. ASSUME NEW p \in Pubs, NEW s \in Subs, Put(p, s) PROVE LostInv'
  <2>1. /\ holder[s] = p /\ holder' = [holder EXCEPT ![s] = Free]
        /\ chan' = [chan EXCEPT ![s] = Append(chan[s], Current(p))]
        /\ UNCHANGED <<offered, got, number, dropped>>
    BY <1>7 DEF Put
  <2>2. Current(p) \in Events
    BY DEF Current, Events, TypeOK
  <2>3. /\ Range(chan'[s]) = Range(chan[s]) \cup {Current(p)}
        /\ \A t \in Subs : t # s => chan'[t] = chan[t] /\ holder'[t] = holder[t]
    BY <2>1, <2>2, RangeOfAppend DEF TypeOK
  <2>4. InHand(s) = {Current(p)} /\ InHand(s)' = {}
    BY <2>1, FreeAssumption DEF InHand, TypeOK
  <2>5. \A t \in Subs : t # s => InHand(t)' = InHand(t)
    BY <2>1, <2>3 DEF InHand, Current
  <2>6. \A t \in Subs : Kept(t)' = Kept(t)
    BY <2>1, <2>3, <2>4, <2>5 DEF Kept
  <2>7. Lost' = Lost
    BY <2>1, <2>6 DEF Lost
  <2> QED
    BY <2>1, <2>6, <2>7 DEF LostInv
<1>8. ASSUME NEW p \in Pubs, NEW s \in Subs, DropOldest(p, s) PROVE LostInv'
  <2>1. CASE chan[s] = <<>>
    BY <1>1, <1>8, <2>1 DEF DropOldest
  <2>2. CASE chan[s] # <<>>
    <3> DEFINE e == Head(chan[s])
    <3>1. /\ chan' = [chan EXCEPT ![s] = Tail(chan[s])] /\ dropped' = dropped + 1
          /\ UNCHANGED <<offered, got, holder, number>>
      BY <1>8, <2>2 DEF DropOldest
    <3>2. /\ Range(chan[s]) = {e} \cup Range(chan'[s])
          /\ \A t \in Subs : t # s => chan'[t] = chan[t]
      BY <2>2, <3>1, RangeOfTail DEF TypeOK
    <3>3. \A t \in Subs : InHand(t)' = InHand(t)
      BY <3>1 DEF InHand, Current
    <3>4. /\ e \notin Range(got[s]) \cup Range(chan'[s]) \cup InHand(s)
      BY <2>2, <3>1, OldestIsAlone DEF TypeOK
    <3> HIDE DEF e
    <3>5. /\ Kept(s)' = Kept(s) \ {e} /\ e \in Kept(s)
          /\ \A t \in Subs : t # s => Kept(t)' = Kept(t)
      BY <3>1, <3>2, <3>3, <3>4 DEF Kept
    <3>6. e \in Range(offered[s])
      BY <3>5 DEF LostInv
    <3>7. Lost' = Lost \cup {<<s, e>>} /\ <<s, e>> \notin Lost
      BY <3>1, <3>5, <3>6 DEF Lost
    <3>8. IsFiniteSet(Lost') /\ Cardinality(Lost') = Cardinality(Lost) + 1
      BY <3>7, FS_AddElement DEF LostInv
    <3>9. dropped' = Cardinality(Lost')
      BY <3>1, <3>8 DEF LostInv
    <3>10. \A t \in Subs : Kept(t)' \subseteq Range(offered[t])'
      BY <3>1, <3>5 DEF LostInv
    <3> QED
      BY <3>8, <3>9, <3>10 DEF LostInv
  <2> QED
    BY <2>1, <2>2
<1>9. CASE UNCHANGED vars
  BY <1>1, <1>9 DEF vars
<1> QED
  BY <1>2, <1>3, <1>4, <1>5, <1>6, <1>7, <1>8, <1>9 DEF Next, Publish

(* Bus.Dropped counts every event that a subscriber was sent and will never *)
(* have, each once (bus.go:60-86).                                          *)
THEOREM DropsAreCounted == Spec => []DroppedIsExact
<1>1. ASSUME Init PROVE LostInv
  <2>1. \A s \in Subs : offered[s] = <<>> /\ Kept(s) = {}
    BY <1>1 DEF Init, Kept, InHand, Range
  <2>2. Lost = {}
    BY <2>1 DEF Lost, Range
  <2> QED
    BY <1>1, <2>1, <2>2, FS_EmptySet DEF LostInv, Init
<1>2. LostInv => DroppedIsExact
  BY DEF LostInv, DroppedIsExact
<1> QED
  BY <1>1, <1>2, LostInvInductive, AlwaysTyped, AlwaysLockInv, AlwaysOrderInv,
     AlwaysSentInv, PTL DEF Spec
=============================================================================
