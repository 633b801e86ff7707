--------------------------- MODULE ServicesProofs ---------------------------
(***************************************************************************)
(* Proofs about the services of the kernel. The event bus, for any number  *)
(* of topics, subscriptions and queue places: the ring is a queue          *)
(* (RingInv), every list stays ordered (ListsInv), and whoever stays       *)
(* subscribed through a delivery is called by it while the list it walks   *)
(* changes under it (DeliveryInv: every delivery under way is one of a     *)
(* topic there is, and the calls it made match the part it passed). The    *)
(* timers: the list stays sorted and holds the started ones (TimersInv).   *)
(* The sensors: an open converter is one of a slot and no sample is newer  *)
(* than the clock (SensorsInv).                                            *)
(***************************************************************************)
EXTENDS EventBus, Timers, Sensors, ListsProofs

-----------------------------------------------------------------------------
(* The rings and the table.                                                *)

-----------------------------------------------------------------------------
(* The ring.                                                                *)

\* The k-th place behind place h of the ring.
Behind(h, k) == (h + k) % QueueSize

\* The two lemmas, for the places of the queue.
LEMMA QueuePlaces ==
    ASSUME NEW h \in 0..(QueueSize - 1), NEW k \in 0..(QueueSize - 1)
    PROVE  /\ Following(Behind(h, k)) = Behind(h, k + 1)
           /\ Behind(Following(h), k) = Behind(h, k + 1)
           /\ Behind(h, k) \in 0..(QueueSize - 1)
           /\ Following(h) \in 0..(QueueSize - 1)
           /\ Behind(h, 0) = h
           /\ \A a \in 0..(QueueSize - 1) : a < k => Behind(h, a) # Behind(h, k)
<1>1. QueueSize \in Nat \ {0}
  BY BusBoundsAssumption, Zenon
<1>2. h + (k + 1) = h + k + 1
  OBVIOUS
<1>3. Behind(h, 0) = h
  BY <1>1 DEF Behind
<1>4. ASSUME NEW a \in 0..(QueueSize - 1), a < k PROVE Behind(h, a) # Behind(h, k)
  BY <1>1, <1>4, RingPlaces, Zenon DEF Behind
<1> QED
  BY <1>1, <1>2, <1>3, <1>4, RingSteps, ZenonT(40) DEF Behind, Following

RingInv ==
    /\ queue = [i \in 0..(QueueSize - 1) |-> queue[i]]
    /\ queue_head \in 0..(QueueSize - 1)
    /\ queue_count \in 0..QueueSize
    /\ queue_tail = Behind(queue_head, queue_count)
    /\ \E S : pending \in Seq(S)
    /\ queue_count = Len(pending)
    /\ \A i \in 1..Len(pending) : pending[i] = queue[Behind(queue_head, i - 1)]

\* The empty ring.
LEMMA InitRing == BusInit => RingInv
<1> SUFFICES ASSUME BusInit PROVE RingInv
  BY Zenon
<1>1. QueueSize \in Nat \ {0}
  BY BusBoundsAssumption, Zenon
<1>2. pending \in Seq({}) /\ Len(pending) = 0
  BY DEF BusInit
<1>3. 0 \in 0..(QueueSize - 1) /\ Behind(0, 0) = 0
  BY <1>1, QueuePlaces
<1> QED
  BY <1>1, <1>2, <1>3 DEF BusInit, RingInv

\* event_publish writes the place behind the last event.
LEMMA PublishRing ==
    ASSUME RingInv, NEW name \in Topics, event_publish(name)
    PROVE  RingInv'
<1>1. QueueSize \in Nat \ {0}
  BY BusBoundsAssumption, Zenon
<1> DEFINE e == [topic |-> Truncated[name], id |-> NewId]
           n == queue_count
<1>2. /\ queue' = [queue EXCEPT ![queue_tail] = e]
      /\ queue_tail' = Following(queue_tail)
      /\ queue_count' = n + 1
      /\ pending' = Append(pending, e)
      /\ queue_head' = queue_head
      /\ n \in 0..(QueueSize - 1)
      /\ queue_head \in 0..(QueueSize - 1)
  <2>1. n \in 0..(QueueSize - 1) /\ queue_head \in 0..(QueueSize - 1)
    BY <1>1 DEF event_publish, RingInv, Room
  <2> QED
    BY <2>1, Zenon DEF event_publish
<1> HIDE DEF e, n
<1>3. PICK S : pending \in Seq(S)
  BY Zenon DEF RingInv
<1>4. pending \in Seq(S \cup {e})
  BY <1>3
<1>5. /\ pending' \in Seq(S \cup {e})
      /\ Len(pending') = n + 1
      /\ pending'[n + 1] = e
      /\ \A i \in 1..n : pending'[i] = pending[i]
  <2>1. Len(pending) = n
    BY Zenon DEF RingInv, n
  <2> HIDE DEF e
  <2> QED
    BY <1>2, <1>4, <2>1
<1>6. /\ queue_tail = Behind(queue_head, n) /\ queue_tail \in 0..(QueueSize - 1)
      /\ queue_tail' = Behind(queue_head, n + 1)
  BY <1>2, QueuePlaces, SMTT(30) DEF RingInv, n
<1>7. ASSUME NEW i \in 1..n
      PROVE  pending'[i] = queue'[Behind(queue_head, i - 1)]
  <2> DEFINE k == i - 1
  <2>1. k \in 0..(QueueSize - 1) /\ k < n
    BY <1>1, <1>2
  <2>2. pending[i] = queue[Behind(queue_head, k)]
    BY Zenon DEF RingInv, n
  <2> HIDE DEF k
  <2>3. Behind(queue_head, k) \in 0..(QueueSize - 1) /\ Behind(queue_head, k) # queue_tail
    <3>1. Behind(queue_head, k) \in 0..(QueueSize - 1)
      BY ONLY <1>2, <2>1, QueuePlaces, Zenon
    <3>2. \A a \in 0..(QueueSize - 1) : a < n => Behind(queue_head, a) # Behind(queue_head, n)
      BY ONLY <1>2, QueuePlaces, Zenon
    <3> QED
      BY <1>6, <2>1, <3>1, <3>2, Zenon
  <2>4. queue'[Behind(queue_head, k)] = queue[Behind(queue_head, k)]
    BY <1>2, <2>3, Zenon DEF RingInv
  <2> QED
    BY <1>5, <2>2, <2>4, Zenon DEF k
<1>8. pending'[n + 1] = queue'[Behind(queue_head, (n + 1) - 1)]
  <2>1. queue'[queue_tail] = e
    BY <1>2, <1>6, Zenon DEF RingInv
  <2>2. (n + 1) - 1 = n
    BY <1>2
  <2> QED
    BY <1>5, <1>6, <2>1, <2>2, Zenon
<1>9. queue' = [i \in 0..(QueueSize - 1) |-> queue'[i]]
  BY <1>2, Zenon DEF RingInv
<1>10. \A i \in 1..Len(pending') : pending'[i] = queue'[Behind(queue_head', i - 1)]
  BY <1>2, <1>5, <1>7, <1>8
<1>11. /\ queue_head' \in 0..(QueueSize - 1) /\ queue_count' \in 0..QueueSize
       /\ queue_tail' = Behind(queue_head', queue_count')
       /\ queue_count' = Len(pending')
  BY <1>1, <1>2, <1>5, <1>6, SMTT(30) DEF RingInv
<1> QED
  BY <1>5, <1>9, <1>10, <1>11, Zenon DEF RingInv, Behind

\* event_process_queue takes the event at the head.
LEMMA ProcessRing ==
    ASSUME RingInv, NEW d \in Dispatchers, event_process_queue(d)
    PROVE  RingInv'
<1>1. QueueSize \in Nat \ {0}
  BY BusBoundsAssumption, Zenon
<1> DEFINE n == queue_count - 1
           h == queue_head
<1>2. /\ queue' = [queue EXCEPT ![h] = NoEvent]
      /\ queue_head' = Following(h)
      /\ queue_count' = n
      /\ queue_tail' = queue_tail
      /\ pending' = Tail(pending)
      /\ n \in 0..(QueueSize - 1)
      /\ h \in 0..(QueueSize - 1)
      /\ queue_count = n + 1
  BY <1>1 DEF event_process_queue, RingInv
<1> HIDE DEF n
<1>3. PICK S : pending \in Seq(S)
  BY Zenon DEF RingInv
<1>4. /\ pending' \in Seq(S)
      /\ Len(pending') = n
      /\ \A i \in 1..n : pending'[i] = pending[i + 1]
  <2>1. Len(pending) = n + 1
    BY <1>2, Zenon DEF RingInv
  <2>2. pending # <<>>
    BY <1>2, <2>1
  <2> QED
    BY <1>2, <1>3, <2>1, <2>2
<1>5. queue_head' \in 0..(QueueSize - 1) /\ queue_tail' = Behind(queue_head', n)
  BY <1>2, QueuePlaces DEF RingInv
<1>6. ASSUME NEW i \in 1..n
      PROVE  pending'[i] = queue'[Behind(queue_head', i - 1)]
  <2> DEFINE k == i - 1
  <2>1. k \in 0..(QueueSize - 1) /\ k + 1 \in 0..(QueueSize - 1) /\ 0 < k + 1 /\ i = k + 1
        /\ 0 \in 0..(QueueSize - 1) /\ i + 1 \in 1..(n + 1) /\ (i + 1) - 1 = k + 1
    BY <1>1, <1>2
  <2> HIDE DEF k
  <2>2. pending[i + 1] = queue[Behind(h, k + 1)]
    BY <1>2, <2>1, Zenon DEF RingInv
  <2>3. Behind(h, k + 1) \in 0..(QueueSize - 1) /\ Behind(h, k + 1) # h
    BY <1>2, <2>1, QueuePlaces
  <2>4. Behind(queue_head', k) = Behind(h, k + 1)
    BY <1>2, <2>1, QueuePlaces
  <2>5. queue'[Behind(h, k + 1)] = queue[Behind(h, k + 1)]
    BY <1>2, <2>3, Zenon DEF RingInv
  <2> QED
    BY <1>4, <2>2, <2>4, <2>5, Zenon DEF k
<1>7. queue' = [i \in 0..(QueueSize - 1) |-> queue'[i]]
  BY <1>2, Zenon DEF RingInv
<1>8. \A i \in 1..Len(pending') : pending'[i] = queue'[Behind(queue_head', i - 1)]
  BY <1>4, <1>6, Zenon
<1>9. queue_count' \in 0..QueueSize /\ queue_count' = Len(pending')
  BY <1>1, <1>2, <1>4
<1> QED
  BY <1>2, <1>4, <1>5, <1>7, <1>8, <1>9, Zenon DEF RingInv, Behind

\* Every step of the bus keeps the ring.
LEMMA NextRing == RingInv /\ [BusNext]_busVars => RingInv'
<1> SUFFICES ASSUME RingInv, [BusNext]_busVars PROVE RingInv'
  BY Zenon
<1>1. CASE UNCHANGED <<ring, pending>>
  BY <1>1, Zenon DEF ring, RingInv, Behind
<1>2. ASSUME NEW c \in Clients, NEW t \in Topics, NEW p \in Priorities,
             event_subscribe(c, t, p) PROVE UNCHANGED <<ring, pending>>
  BY <1>2, Zenon DEF event_subscribe
<1>3. ASSUME NEW c \in Clients, NEW t \in Topics, event_unsubscribe(c, t)
      PROVE  UNCHANGED <<ring, pending>>
  BY <1>3, Zenon DEF event_unsubscribe
<1>4. ASSUME NEW c \in Clients, event_cleanup_app(c) PROVE UNCHANGED <<ring, pending>>
  BY <1>4, Zenon DEF event_cleanup_app
<1>5. ASSUME NEW d \in Dispatchers,
             \/ \E t \in Topics : event_publish_sync(d, t)
             \/ Callback(d) \/ Delivered(d)
      PROVE  UNCHANGED <<ring, pending>>
  BY <1>5, Zenon DEF event_publish_sync, Callback, Delivered
<1>6. CASE UNCHANGED busVars
  BY <1>1, <1>6, Zenon DEF busVars
<1> QED
  BY <1>1, <1>2, <1>3, <1>4, <1>5, <1>6, PublishRing, ProcessRing, Zenon DEF BusNext

\* No event that event_publish accepted is lost, doubled or overtaken, for every
\* size of the ring and every order of publishing and processing.
THEOREM RingIsFifo == BusSpec => []QueueIsFifo
<1>1. RingInv => QueueIsFifo
  <2> SUFFICES ASSUME RingInv PROVE QueueIsFifo
    BY Zenon
  <2>1. ASSUME NEW i \in 1..Len(pending)
        PROVE  pending[i] = queue[(queue_head + i - 1) % QueueSize]
    <3>1. Len(pending) \in Nat
      BY DEF RingInv
    <3>2. queue_head + (i - 1) = queue_head + i - 1
      BY <3>1, Zenon DEF RingInv
    <3> QED
      BY <3>2, Zenon DEF RingInv, Behind
  <2> QED
    BY <2>1, Zenon DEF RingInv, QueueIsFifo
<1> QED
  BY InitRing, NextRing, <1>1, PTL DEF BusSpec
-----------------------------------------------------------------------------
(* The lists of subscriptions.                                              *)

Sub == [client : Clients, prio : Priorities, active : BOOLEAN]

\* A list is ordered by priority.
Ordered(subs) == \A j, k \in 1..Len(subs) : j < k => subs[j].prio >= subs[k].prio

BusTypes == topics \in Seq([name : Topics, subs : Seq(Sub)])

ListsInv == BusTypes /\ OrderedByPriority

\* The priorities on a list are naturals.
LEMMA PriosOfList ==
    ASSUME NEW subs \in Seq(Sub)
    PROVE  /\ Len(subs) \in Nat
           /\ \A j \in 1..Len(subs) : subs[j] \in Sub /\ subs[j].prio \in Nat
<1>1. \A s \in Sub : s.prio \in Nat
  BY BusBoundsAssumption, Zenon DEF Sub
<1>2. Len(subs) \in Nat /\ \A j \in 1..Len(subs) : subs[j] \in Sub
  OBVIOUS
<1> QED
  BY <1>1, <1>2, Zenon

\* Where event_subscribe puts a new subscription: those before it have at least
\* its priority, those behind it less.
LEMMA PlaceSplits ==
    ASSUME NEW subs \in Seq(Sub), Ordered(subs), NEW prio \in Priorities
    PROVE  /\ Place(subs, prio) \in 1..(Len(subs) + 1)
           /\ \A j \in 1..Len(subs) : j < Place(subs, prio) => subs[j].prio >= prio
           /\ \A j \in 1..Len(subs) : j >= Place(subs, prio) => subs[j].prio < prio
<1>1. Len(subs) \in Nat /\ Priorities \subseteq Nat
  BY BusBoundsAssumption
<1>2. \A j \in 1..Len(subs) : subs[j].prio \in Nat
  BY PriosOfList, Zenon
<1> DEFINE n == Len(subs)
           S == {p \in 1..(n + 1) : \A j \in p..n : subs[j].prio < prio}
           q == First(S)
<1>3. S \subseteq Nat /\ n + 1 \in S
  BY <1>1
<1> HIDE DEF S
<1>4. q \in S /\ \A p \in S : q <= p
  BY <1>3, FirstIsFirst, Zenon
<1> HIDE DEF q
<1>5. q \in 1..(n + 1) /\ \A j \in q..n : subs[j].prio < prio
  BY <1>4, Zenon DEF S
<1>6. ASSUME NEW j \in 1..n, j < q PROVE subs[j].prio >= prio
  <2>1. q - 1 \in 1..n /\ q - 1 \notin S
    BY <1>1, <1>4, <1>5, <1>6
  <2>2. PICK k \in (q - 1)..n : ~(subs[k].prio < prio)
    BY <1>1, <2>1 DEF S
  <2>3. k = q - 1
    BY <1>1, <1>5, <2>1, <2>2
  <2>4. subs[k].prio >= prio /\ k \in 1..n /\ j <= k
    <3>1. k \in 1..n /\ j <= k
      BY <1>1, <1>5, <1>6, <2>1, <2>3
    <3>2. subs[k].prio \in Nat /\ prio \in Nat
      BY <1>1, <1>2, <3>1, Zenon
    <3> QED
      BY <2>2, <3>1, <3>2
  <2>5. subs[j].prio >= subs[k].prio
    <3>1. CASE j = k
      BY <1>2, <2>4, <3>1
    <3>2. CASE j < k
      BY <2>4, <3>2, Zenon DEF Ordered
    <3> QED
      BY <2>4, <3>1, <3>2
  <2> QED
    BY <1>1, <1>2, <2>4, <2>5
<1>7. Place(subs, prio) = q
  BY Zenon DEF Place, q, S
<1> QED
  BY <1>1, <1>5, <1>6, <1>7

\* A list with a subscription put there is ordered.
LEMMA InsertOrdered ==
    ASSUME NEW subs \in Seq(Sub), Ordered(subs), NEW s \in Sub
    PROVE  LET new == Inserted(subs, Place(subs, s.prio), s)
           IN  new \in Seq(Sub) /\ Ordered(new)
<1> DEFINE n == Len(subs)
           q == Place(subs, s.prio)
           new == Inserted(subs, q, s)
<1>1. n \in Nat /\ s.prio \in Priorities /\ Priorities \subseteq Nat
  BY BusBoundsAssumption DEF Sub
<1>2. \A j \in 1..n : subs[j].prio \in Nat
  BY PriosOfList, Zenon
<1>3. /\ q \in 1..(n + 1)
      /\ \A j \in 1..n : j < q => subs[j].prio >= s.prio
      /\ \A j \in 1..n : j >= q => subs[j].prio < s.prio
  BY <1>1, PlaceSplits, Zenon
<1> HIDE DEF q
<1>4. /\ new \in Seq(Sub) /\ Len(new) = n + 1
      /\ new[q] = s
      /\ \A j \in 1..n : j < q => new[j] = subs[j]
      /\ \A j \in (q + 1)..(n + 1) : new[j] = subs[j - 1]
  <2> DEFINE a == SubSeq(subs, 1, q - 1)
             b == SubSeq(subs, q, n)
  <2>1. /\ a \in Seq(Sub) /\ Len(a) = q - 1
        /\ \A j \in 1..(q - 1) : a[j] = subs[j]
    BY <1>1, <1>3
  <2>2. /\ b \in Seq(Sub) /\ Len(b) = n - q + 1
        /\ \A j \in 1..(n - q + 1) : b[j] = subs[q + j - 1]
    BY <1>1, <1>3
  <2>3. new = a \o <<s>> \o b
    BY Zenon DEF Inserted
  <2> HIDE DEF a, b, new
  <2>4. /\ a \o <<s>> \in Seq(Sub) /\ Len(a \o <<s>>) = q
        /\ (a \o <<s>>)[q] = s
        /\ \A j \in 1..(q - 1) : (a \o <<s>>)[j] = subs[j]
    BY <1>1, <1>3, <2>1, SMTT(30)
  <2> DEFINE c == a \o <<s>>
  <2>5. /\ c \in Seq(Sub) /\ Len(c) = q /\ c[q] = s
        /\ \A j \in 1..(q - 1) : c[j] = subs[j]
        /\ new = c \o b
    BY <2>3, <2>4, Zenon
  <2> HIDE DEF c
  <2>6. /\ new \in Seq(Sub) /\ Len(new) = n + 1
        /\ \A j \in 1..q : new[j] = c[j]
        /\ \A j \in (q + 1)..(n + 1) : new[j] = b[j - q]
    <3>1. /\ c \o b \in Seq(Sub)
          /\ Len(c \o b) = Len(c) + Len(b)
          /\ \A j \in 1..(Len(c) + Len(b)) :
                (c \o b)[j] = IF j <= Len(c) THEN c[j] ELSE b[j - Len(c)]
      BY ONLY <2>2, <2>5, ConcatProperties, ZenonT(40)
    <3>2. Len(c) + Len(b) = n + 1 /\ Len(c) = q
      BY <1>1, <1>3, <2>2, <2>5
    <3>3. \A j \in 1..(n + 1) : new[j] = IF j <= q THEN c[j] ELSE b[j - q]
      BY ONLY <2>5, <3>1, <3>2, Zenon
    <3> QED
      BY <1>1, <1>3, <2>5, <3>1, <3>2, <3>3, SMTT(30)
  <2>7. ASSUME NEW j \in (q + 1)..(n + 1) PROVE new[j] = subs[j - 1]
    <3>1. j - q \in 1..(n - q + 1) /\ q + (j - q) - 1 = j - 1
      BY <1>1, <1>3
    <3> QED
      BY <2>2, <2>6, <3>1, Zenon
  <2> QED
    BY <1>1, <1>3, <2>5, <2>6, <2>7, SMTT(30)
<1> HIDE DEF new, n
<1>5. ASSUME NEW j \in 1..(n + 1), NEW k \in 1..(n + 1), j < k
      PROVE  new[j].prio >= new[k].prio
  <2>1. CASE k < q
    BY <1>1, <1>3, <1>4, <1>5, <2>1, SMTT(30) DEF Ordered, n
  <2>2. CASE k = q
    BY <1>1, <1>3, <1>4, <1>5, <2>2, SMTT(30)
  <2>3. CASE k > q /\ j < q
    <3>1. /\ j \in 1..n /\ k - 1 \in 1..n /\ k - 1 >= q
          /\ new[j] = subs[j] /\ new[k] = subs[k - 1]
      BY <1>1, <1>3, <1>4, <2>3
    <3>2. subs[j].prio >= s.prio /\ subs[k - 1].prio < s.prio
      BY <1>3, <2>3, <3>1, Zenon
    <3>3. subs[j].prio \in Nat /\ subs[k - 1].prio \in Nat /\ s.prio \in Nat
      BY <1>1, <1>2, <3>1, Zenon
    <3> QED
      BY <3>1, <3>2, <3>3, SMTT(30)
  <2>4. CASE k > q /\ j = q
    <3>1. k - 1 \in 1..n /\ k - 1 >= q /\ new[j] = s /\ new[k] = subs[k - 1]
      BY <1>1, <1>3, <1>4, <2>4
    <3>2. subs[k - 1].prio < s.prio
      BY <1>3, <3>1, Zenon
    <3>3. subs[k - 1].prio \in Nat /\ s.prio \in Nat
      BY <1>1, <1>2, <3>1, Zenon
    <3> QED
      BY <3>1, <3>2, <3>3
  <2>5. CASE j > q
    <3>1. /\ j - 1 \in 1..n /\ k - 1 \in 1..n /\ j - 1 < k - 1
          /\ new[j] = subs[j - 1] /\ new[k] = subs[k - 1]
      BY <1>1, <1>3, <1>4, <1>5, <2>5, SMTT(30)
    <3> QED
      BY <3>1, Zenon DEF Ordered, n
  <2> QED
    BY <1>1, <1>3, <1>5, <2>1, <2>2, <2>3, <2>4, <2>5, SMTT(30)
<1>6. new \in Seq(Sub) /\ Ordered(new)
  BY <1>4, <1>5, Zenon DEF Ordered
<1> QED
  BY <1>6, Zenon DEF new, q

\* A list with one subscription taken out is ordered.
LEMMA RemoveOrdered ==
    ASSUME NEW subs \in Seq(Sub), Ordered(subs), NEW q \in 1..Len(subs)
    PROVE  Without(subs, q) \in Seq(Sub) /\ Ordered(Without(subs, q))
<1> DEFINE n == Len(subs)
           a == SubSeq(subs, 1, q - 1)
           b == SubSeq(subs, q + 1, n)
           new == Without(subs, q)
<1>1. n \in Nat
  OBVIOUS
<1>2. /\ a \in Seq(Sub) /\ Len(a) = q - 1
      /\ \A j \in 1..(q - 1) : a[j] = subs[j]
  BY <1>1
<1>3. /\ b \in Seq(Sub) /\ Len(b) = n - q
      /\ \A j \in 1..(n - q) : b[j] = subs[q + 1 + j - 1]
  BY <1>1
<1>4. new = a \o b
  BY Zenon DEF Without
<1> HIDE DEF a, b, new
<1>5. /\ a \o b \in Seq(Sub)
      /\ Len(a \o b) = Len(a) + Len(b)
      /\ \A j \in 1..(Len(a) + Len(b)) :
            (a \o b)[j] = IF j <= Len(a) THEN a[j] ELSE b[j - Len(a)]
  BY ONLY <1>2, <1>3, ConcatProperties, Zenon
<1>6. new \in Seq(Sub) /\ Len(new) = n - 1
  BY <1>1, <1>2, <1>3, <1>4, <1>5
<1>7. \A j \in 1..(n - 1) : new[j] = IF j <= q - 1 THEN a[j] ELSE b[j - (q - 1)]
  <2>1. Len(a) + Len(b) = n - 1
    BY <1>1, <1>2, <1>3
  <2> QED
    BY ONLY <1>2, <1>4, <1>5, <2>1, Zenon
<1>8. ASSUME NEW j \in 1..(n - 1)
      PROVE  new[j] = IF j < q THEN subs[j] ELSE subs[j + 1]
  <2>1. CASE j < q
    BY <1>1, <1>2, <1>7, <2>1, SMTT(30)
  <2>2. CASE ~(j < q)
    <3>1. j - (q - 1) \in 1..(n - q) /\ q + 1 + (j - (q - 1)) - 1 = j + 1 /\ ~(j <= q - 1)
      BY <1>1, <2>2
    <3> QED
      BY <1>3, <1>7, <2>2, <3>1, Zenon
  <2> QED
    BY <2>1, <2>2, Zenon
<1>9. ASSUME NEW j \in 1..(n - 1), NEW k \in 1..(n - 1), j < k
      PROVE  new[j].prio >= new[k].prio
  <2> DEFINE u == IF j < q THEN j ELSE j + 1
             v == IF k < q THEN k ELSE k + 1
  <2>1. u \in 1..n /\ v \in 1..n /\ u < v
    BY <1>1, <1>9
  <2>2. new[j] = subs[u] /\ new[k] = subs[v]
    BY <1>8, Zenon
  <2> HIDE DEF u, v
  <2> QED
    BY <2>1, <2>2, Zenon DEF Ordered
<1> QED
  BY <1>6, <1>9, Zenon DEF Ordered, new

\* Every step of the bus keeps the lists typed and ordered.
LEMMA NextOrdered == ListsInv /\ [BusNext]_busVars => ListsInv'
<1> SUFFICES ASSUME ListsInv, [BusNext]_busVars PROVE ListsInv'
  BY Zenon
<1> DEFINE T == [name : Topics, subs : Seq(Sub)]
<1>1. /\ topics \in Seq(T) /\ Len(topics) \in Nat
      /\ \A i \in 1..Len(topics) :
            topics[i] \in T /\ topics[i].subs \in Seq(Sub) /\ Ordered(topics[i].subs)
  <2>1. topics \in Seq(T)
    BY Zenon DEF ListsInv, BusTypes
  <2>2. Len(topics) \in Nat /\ \A i \in 1..Len(topics) : topics[i] \in T
    <3> HIDE DEF T
    <3> QED
      BY <2>1
  <2>3. \A r \in T : r.subs \in Seq(Sub)
    BY Zenon
  <2>4. \A i \in 1..Len(topics) : Ordered(topics[i].subs)
    BY Zenon DEF ListsInv, OrderedByPriority, Ordered
  <2> QED
    BY <2>1, <2>2, <2>3, <2>4, Zenon
<1>2. ASSUME topics' \in Seq(T), \A i \in 1..Len(topics') : Ordered(topics'[i].subs)
      PROVE  ListsInv'
  BY <1>2, Zenon DEF ListsInv, BusTypes, OrderedByPriority, Ordered
<1>3. CASE UNCHANGED topics
  BY <1>3, Zenon DEF ListsInv, BusTypes, OrderedByPriority
<1>4. ASSUME NEW i \in 1..Len(topics), NEW new \in Seq(Sub), Ordered(new),
             topics' = [topics EXCEPT ![i].subs = new]
      PROVE  ListsInv'
  <2>1. [topics[i] EXCEPT !.subs = new] \in T
    BY <1>1, Zenon
  <2>2. /\ topics' \in Seq(T) /\ Len(topics') = Len(topics)
        /\ \A j \in 1..Len(topics) : topics'[j].subs = IF j = i THEN new ELSE topics[j].subs
    BY <1>1, <1>4, <2>1
  <2>3. \A j \in 1..Len(topics') : Ordered(topics'[j].subs)
    BY <1>1, <1>4, <2>2, Zenon
  <2> QED
    BY <1>2, <2>2, <2>3, Zenon
<1>5. ASSUME NEW c \in Clients, NEW t \in Topics, NEW prio \in Priorities,
             event_subscribe(c, t, prio)
      PROVE  ListsInv'
  <2> DEFINE s == [client |-> c, prio |-> prio, active |-> TRUE]
             i == First(Matches(t))
             p == Place(topics[i].subs, prio)
  <2>1. s \in Sub /\ s.prio = prio
    BY Zenon DEF Sub
  <2>2. CASE Matches(t) = {}
    <3> DEFINE r == [name |-> Truncated[t], subs |-> <<s>>]
    <3>1. topics' = Append(topics, r)
      BY <1>5, <2>2, Zenon DEF event_subscribe
    <3>2. r \in T /\ Ordered(r.subs)
      <4>1. Truncated[t] \in Topics
        BY TruncatedAssumption, Zenon
      <4>2. <<s>> \in Seq(Sub) /\ Len(<<s>>) = 1
        BY <2>1
      <4>3. Ordered(<<s>>)
        BY <4>2 DEF Ordered
      <4> QED
        BY <4>1, <4>2, <4>3, Zenon
    <3> HIDE DEF r, T
    <3>3. /\ topics' \in Seq(T) /\ Len(topics') = Len(topics) + 1
          /\ topics'[Len(topics) + 1] = r
          /\ \A j \in 1..Len(topics) : topics'[j] = topics[j]
      BY <1>1, <3>1, <3>2
    <3>4. \A j \in 1..Len(topics') : j \in 1..Len(topics) \/ j = Len(topics) + 1
      BY <1>1, <3>3
    <3>5. \A j \in 1..Len(topics') : Ordered(topics'[j].subs)
      BY <1>1, <3>2, <3>3, <3>4, Zenon
    <3> QED
      BY <1>2, <3>3, <3>5, Zenon
  <2>3. CASE Matches(t) # {}
    <3>1. i \in 1..Len(topics)
      <4>1. Matches(t) \subseteq 1..Len(topics) /\ Matches(t) \subseteq Nat
        BY <1>1 DEF Matches
      <4> QED
        BY <2>3, <4>1, FirstIsFirst, Zenon
    <3>2. topics' = [topics EXCEPT ![i].subs = Inserted(@, p, s)]
      BY <1>5, <2>3, Zenon DEF event_subscribe
    <3> DEFINE new == Inserted(topics[i].subs, p, s)
    <3>3. topics' = [topics EXCEPT ![i].subs = new]
      BY <3>2, Zenon
    <3>4. topics[i].subs \in Seq(Sub) /\ Ordered(topics[i].subs)
      BY <1>1, <3>1, Zenon
    <3>5. new \in Seq(Sub) /\ Ordered(new)
      <4> DEFINE l == topics[i].subs
      <4>1. l \in Seq(Sub) /\ Ordered(l)
        BY <3>4, Zenon
      <4>2. new = Inserted(l, Place(l, s.prio), s)
        BY <2>1, Zenon
      <4> HIDE DEF l, new, s
      <4> QED
        BY ONLY <2>1, <4>1, <4>2, InsertOrdered, Zenon
    <3> HIDE DEF new, i
    <3> QED
      BY <1>4, <3>1, <3>3, <3>5, Zenon
  <2> QED
    BY <2>2, <2>3, Zenon
<1>6. ASSUME NEW c \in Clients, NEW t \in Topics, event_unsubscribe(c, t)
      PROVE  ListsInv'
  <2> DEFINE i == First(Matches(t))
             mine == {j \in 1..Len(topics[i].subs) : topics[i].subs[j].client = c}
             q == First(mine)
             new == Without(topics[i].subs, q)
  <2>1. Matches(t) # {} /\ mine # {} /\ topics' = [topics EXCEPT ![i].subs = new]
    BY <1>6, Zenon DEF event_unsubscribe
  <2>2. i \in 1..Len(topics)
    <3>1. Matches(t) \subseteq 1..Len(topics) /\ Matches(t) \subseteq Nat
      BY <1>1 DEF Matches
    <3> QED
      BY <2>1, <3>1, FirstIsFirst, Zenon
  <2>3. topics[i].subs \in Seq(Sub) /\ Ordered(topics[i].subs)
    BY <1>1, <2>2, Zenon
  <2>4. q \in 1..Len(topics[i].subs)
    <3>1. mine \subseteq 1..Len(topics[i].subs) /\ mine \subseteq Nat
      BY <2>3
    <3> QED
      BY <2>1, <3>1, FirstIsFirst, Zenon
  <2>5. new \in Seq(Sub) /\ Ordered(new)
    <3> DEFINE l == topics[i].subs
    <3>1. l \in Seq(Sub) /\ Ordered(l) /\ q \in 1..Len(l) /\ new = Without(l, q)
      BY <2>3, <2>4, Zenon
    <3> HIDE DEF l, q, new
    <3> QED
      BY ONLY <3>1, RemoveOrdered, Zenon
  <2> HIDE DEF new, i
  <2> QED
    BY <1>4, <2>1, <2>2, <2>5, Zenon
<1>7. ASSUME NEW c \in Clients, event_cleanup_app(c) PROVE ListsInv'
  <2> DEFINE off(s) == IF s.client = c THEN [s EXCEPT !.active = FALSE] ELSE s
             new(i) == [j \in 1..Len(topics[i].subs) |-> off(topics[i].subs[j])]
  <2>1. topics' = [i \in 1..Len(topics) |-> [topics[i] EXCEPT !.subs = new(i)]]
    BY <1>7, Zenon DEF event_cleanup_app
  <2>2. ASSUME NEW i \in 1..Len(topics)
        PROVE  new(i) \in Seq(Sub) /\ Ordered(new(i))
    <3> DEFINE l == topics[i].subs
    <3>1. l \in Seq(Sub) /\ Ordered(l) /\ Len(l) \in Nat
          /\ \A j \in 1..Len(l) : l[j] \in Sub
      BY <1>1
    <3>2. \A s \in Sub : off(s) \in Sub /\ off(s).prio = s.prio
      BY Zenon DEF Sub
    <3>3. new(i) = [j \in 1..Len(l) |-> off(l[j])]
      BY Zenon
    <3> HIDE DEF l, off
    <3>4. \A j \in 1..Len(l) : off(l[j]) \in Sub
      BY <3>1, <3>2, Zenon
    <3>5. new(i) \in Seq(Sub) /\ Len(new(i)) = Len(l)
      BY <3>1, <3>3, <3>4, SMTT(30)
    <3>6. \A j \in 1..Len(l) : new(i)[j].prio = l[j].prio
      BY <3>1, <3>2, <3>3, Zenon
    <3> HIDE DEF new
    <3> QED
      BY <3>1, <3>5, <3>6, SMTT(30) DEF Ordered
  <2> HIDE DEF new
  <2>3. \A i \in 1..Len(topics) :
           /\ [topics[i] EXCEPT !.subs = new(i)] \in T
           /\ [topics[i] EXCEPT !.subs = new(i)].subs = new(i)
    BY <1>1, <2>2, Zenon
  <2>4. /\ topics' \in Seq(T) /\ Len(topics') = Len(topics)
        /\ \A i \in 1..Len(topics) : topics'[i].subs = new(i)
    <3> DEFINE r(i) == [topics[i] EXCEPT !.subs = new(i)]
               n == Len(topics)
    <3>1. /\ \A i \in 1..n : r(i) \in T /\ r(i).subs = new(i)
          /\ topics' = [i \in 1..n |-> r(i)]
          /\ n \in Nat
      BY <1>1, <2>1, <2>3, Zenon
    <3> HIDE DEF r, T, n
    <3>2. topics' \in Seq(T) /\ Len(topics') = n
      BY <3>1
    <3>3. \A i \in 1..n : topics'[i].subs = new(i)
      BY <3>1, Zenon
    <3> QED
      BY <3>2, <3>3, Zenon DEF n
  <2> QED
    BY <1>2, <2>2, <2>4, Zenon
<1>8. ASSUME NEW t \in Topics, event_publish(t) PROVE UNCHANGED topics
  BY <1>8, Zenon DEF event_publish
<1>9. ASSUME NEW d \in Dispatchers,
             \/ \E t \in Topics : event_publish_sync(d, t)
             \/ event_process_queue(d) \/ Callback(d) \/ Delivered(d)
      PROVE  UNCHANGED topics
  BY <1>9, Zenon DEF event_publish_sync, event_process_queue, Callback, Delivered
<1>10. CASE UNCHANGED busVars
  BY <1>3, <1>10, Zenon DEF busVars
<1> QED
  BY <1>3, <1>5, <1>6, <1>7, <1>8, <1>9, <1>10, Zenon DEF BusNext

\* The single insertion step of event_subscribe keeps every list ordered by
\* priority, for any numbers of topics, subscriptions and priorities, whatever
\* event_unsubscribe removed and event_cleanup_app switched off before.
THEOREM ListsStayOrdered == BusSpec => []OrderedByPriority
<1>1. BusInit => ListsInv
  BY DEF BusInit, ListsInv, BusTypes, OrderedByPriority
<1>2. ListsInv => OrderedByPriority
  BY Zenon DEF ListsInv
<1> QED
  BY <1>1, <1>2, NextOrdered, PTL DEF BusSpec

-----------------------------------------------------------------------------
(* Delivery.                                                               *)

\* A delivery under way.
Walk == [topic : Nat \ {0}, place : Nat \ {0}, sync : BOOLEAN,
         called : Seq(SUBSET Clients), shifted : BOOLEAN]

\* Whoever is active in the part of subs the delivery w has passed was called.
Passed(w, subs) ==
    /\ w.place <= Len(subs) + 1
    /\ Len(w.called) = w.place - 1
    /\ \A j \in 1..(w.place - 1) : subs[j].active => w.called[j] = {subs[j].client}

\* A delivery is one of a topic there is, and has called whom it passed.
WalkOK(w, tops) ==
    \/ w = NoDelivery
    \/ /\ w \in Walk
       /\ w.topic <= Len(tops)
       /\ w.shifted = FALSE => Passed(w, tops[w.topic].subs)

DeliveryInv ==
    /\ ListsInv
    /\ delivery = [d \in Dispatchers |-> delivery[d]]
    /\ \A d \in Dispatchers : WalkOK(delivery[d], topics)

Lists == [name : Topics, subs : Seq(Sub)]

\* What the invariant of the lists says of each.
LEMMA ListFacts ==
    ASSUME ListsInv
    PROVE  /\ topics \in Seq(Lists) /\ Len(topics) \in Nat
           /\ \A i \in 1..Len(topics) : topics[i] \in Lists /\ topics[i].subs \in Seq(Sub)
<1>1. topics \in Seq(Lists)
  BY Zenon DEF ListsInv, BusTypes, Lists
<1>2. Len(topics) \in Nat /\ \A i \in 1..Len(topics) : topics[i] \in Lists
  BY <1>1
<1>3. \A r \in Lists : r.subs \in Seq(Sub)
  BY Zenon DEF Lists
<1> QED
  BY <1>1, <1>2, <1>3, Zenon

\* A delivery keeps its part passed when its list is the same afterwards.
LEMMA WalkOfSameList ==
    ASSUME NEW w, NEW tops, NEW new, WalkOK(w, tops),
           Len(tops) \in Nat, Len(new) \in Nat, Len(tops) <= Len(new),
           w \in Walk => new[w.topic].subs = tops[w.topic].subs
    PROVE  WalkOK(w, new)
<1>1. CASE w = NoDelivery
  BY <1>1, Zenon DEF WalkOK
<1>2. CASE w \in Walk /\ w.topic <= Len(tops) /\ (w.shifted = FALSE => Passed(w, tops[w.topic].subs))
  <2>1. w.topic \in Nat
    BY <1>2, Zenon DEF Walk
  <2>2. w.topic <= Len(new)
    BY <1>2, <2>1
  <2>3. w.shifted = FALSE => Passed(w, new[w.topic].subs)
    BY <1>2, Zenon
  <2> QED
    BY <1>2, <2>2, <2>3, Zenon DEF WalkOK
<1> QED
  BY <1>1, <1>2, Zenon DEF WalkOK

\* A subscription put into a list at or behind the place a delivery stands at
\* leaves the part it has passed alone.
LEMMA InsertKeepsPassed ==
    ASSUME NEW subs \in Seq(Sub), NEW s \in Sub, NEW q \in 1..(Len(subs) + 1),
           NEW w \in Walk, Passed(w, subs), w.place <= q
    PROVE  Passed(w, Inserted(subs, q, s))
<1> DEFINE n == Len(subs)
           a == SubSeq(subs, 1, q - 1)
           b == SubSeq(subs, q, n)
           c == a \o <<s>>
           new == Inserted(subs, q, s)
<1>1. n \in Nat /\ w.place \in Nat \ {0}
  BY DEF Walk
<1>2. /\ a \in Seq(Sub) /\ Len(a) = q - 1
      /\ \A j \in 1..(q - 1) : a[j] = subs[j]
  BY <1>1
<1>3. b \in Seq(Sub) /\ Len(b) = n - q + 1
  BY <1>1
<1>4. new = c \o b
  BY Zenon DEF Inserted
<1> HIDE DEF a, b, new
<1>5. /\ c \in Seq(Sub) /\ Len(c) = q
      /\ \A j \in 1..(q - 1) : c[j] = subs[j]
  BY <1>1, <1>2
<1> HIDE DEF c
<1>6. /\ Len(c \o b) = Len(c) + Len(b)
      /\ \A j \in 1..(Len(c) + Len(b)) :
            (c \o b)[j] = IF j <= Len(c) THEN c[j] ELSE b[j - Len(c)]
  BY ONLY <1>3, <1>5, ConcatProperties, Zenon
<1>7. Len(new) = n + 1 /\ \A j \in 1..(q - 1) : new[j] = subs[j]
  <2>1. Len(c) = q /\ Len(c) + Len(b) = n + 1
    BY <1>1, <1>3, <1>5
  <2>2. \A j \in 1..(q - 1) : j \in 1..(Len(c) + Len(b)) /\ j <= Len(c)
    BY <1>1, <2>1
  <2> QED
    BY <1>4, <1>5, <1>6, <2>1, <2>2, Zenon
<1>8. \A j \in 1..(w.place - 1) : j \in 1..(q - 1)
  BY <1>1
<1>9. w.place <= Len(new) + 1
  BY <1>1, <1>7
<1>10. Passed(w, new)
  BY <1>7, <1>8, <1>9, Zenon DEF Passed
<1> QED
  BY <1>10, Zenon DEF new

\* So does one taken out of it there.
LEMMA RemoveKeepsPassed ==
    ASSUME NEW subs \in Seq(Sub), NEW q \in 1..Len(subs),
           NEW w \in Walk, Passed(w, subs), w.place <= q
    PROVE  Passed(w, Without(subs, q))
<1> DEFINE n == Len(subs)
           a == SubSeq(subs, 1, q - 1)
           b == SubSeq(subs, q + 1, n)
           new == Without(subs, q)
<1>1. n \in Nat /\ w.place \in Nat \ {0}
  BY DEF Walk
<1>2. /\ a \in Seq(Sub) /\ Len(a) = q - 1
      /\ \A j \in 1..(q - 1) : a[j] = subs[j]
  BY <1>1
<1>3. b \in Seq(Sub) /\ Len(b) = n - q
  BY <1>1
<1>4. new = a \o b
  BY Zenon DEF Without
<1> HIDE DEF a, b, new
<1>5. /\ Len(a \o b) = Len(a) + Len(b)
      /\ \A j \in 1..(Len(a) + Len(b)) :
            (a \o b)[j] = IF j <= Len(a) THEN a[j] ELSE b[j - Len(a)]
  BY ONLY <1>2, <1>3, ConcatProperties, Zenon
<1>6. Len(new) = n - 1 /\ \A j \in 1..(q - 1) : new[j] = subs[j]
  <2>1. Len(a) = q - 1 /\ Len(a) + Len(b) = n - 1
    BY <1>1, <1>2, <1>3, SMTT(30)
  <2>2. \A j \in 1..(q - 1) : j \in 1..(Len(a) + Len(b)) /\ j <= Len(a)
    BY <1>1, <2>1
  <2> QED
    BY <1>2, <1>4, <1>5, <2>1, <2>2, Zenon
<1>7. \A j \in 1..(w.place - 1) : j \in 1..(q - 1)
  BY <1>1
<1>8. w.place <= Len(new) + 1
  BY <1>1, <1>6
<1>9. Passed(w, new)
  BY <1>6, <1>7, <1>8, Zenon DEF Passed
<1> QED
  BY <1>9, Zenon DEF new

\* A delivery marked as shifted is still one, of the same topic.
LEMMA MarkedWalk ==
    ASSUME NEW w \in Walk
    PROVE  LET w2 == [w EXCEPT !.shifted = TRUE, !.called = <<>>]
           IN  w2 \in Walk /\ w2.topic = w.topic /\ w2.shifted = TRUE
<1> DEFINE Calls == Seq(SUBSET Clients)
<1>1. <<>> \in Calls
  OBVIOUS
<1>2. Walk = [topic : Nat \ {0}, place : Nat \ {0}, sync : BOOLEAN,
              called : Calls, shifted : BOOLEAN]
  BY Zenon DEF Walk
<1> HIDE DEF Calls
<1> DEFINE w1 == [w EXCEPT !.shifted = TRUE]
           w2 == [w1 EXCEPT !.called = <<>>]
<1>3. w1 \in Walk /\ w1.topic = w.topic /\ w1.shifted = TRUE
  BY <1>2, Zenon
<1> HIDE DEF w1
<1>4. w2 \in Walk /\ w2.topic = w1.topic /\ w2.shifted = w1.shifted
  BY <1>1, <1>2, <1>3, Zenon
<1> QED
  BY <1>3, <1>4, Zenon DEF w1

\* A delivery that goes on to the next place is still one.
LEMMA NextPlaceWalk ==
    ASSUME NEW w \in Walk, NEW calls \in Seq(SUBSET Clients)
    PROVE  LET w1 == [w EXCEPT !.place = w.place + 1]
               w2 == [w1 EXCEPT !.called = calls]
           IN  /\ w2 \in Walk /\ w2.topic = w.topic /\ w2.place = w.place + 1
               /\ w2.called = calls /\ w2.shifted = w.shifted
<1> DEFINE Calls == Seq(SUBSET Clients)
<1>1. calls \in Calls
  BY Zenon
<1>2. Walk = [topic : Nat \ {0}, place : Nat \ {0}, sync : BOOLEAN,
              called : Calls, shifted : BOOLEAN]
  BY Zenon DEF Walk
<1> HIDE DEF Calls
<1> DEFINE w1 == [w EXCEPT !.place = w.place + 1]
           w2 == [w1 EXCEPT !.called = calls]
<1>3. w.place + 1 \in Nat \ {0}
  BY <1>2
<1>4. w1 \in Walk /\ w1.topic = w.topic /\ w1.place = w.place + 1 /\ w1.shifted = w.shifted
  BY <1>2, <1>3, Zenon
<1> HIDE DEF w1
<1>5. /\ w2 \in Walk /\ w2.topic = w1.topic /\ w2.place = w1.place
      /\ w2.called = calls /\ w2.shifted = w1.shifted
  BY <1>1, <1>2, <1>4, Zenon
<1> QED
  BY <1>4, <1>5, Zenon DEF w1

\* A list changed at place q leaves every delivery with whom it passed called:
\* the ones beyond q are marked, for the others the part passed is the same.
LEMMA ShiftKeepsWalks ==
    ASSUME DeliveryInv, ListsInv', NEW i \in 1..Len(topics), NEW new, NEW q \in Nat,
           topics' = [topics EXCEPT ![i].subs = new], delivery' = Shifted(i, q),
           \A w \in Walk : Passed(w, topics[i].subs) /\ w.place <= q => Passed(w, new)
    PROVE  DeliveryInv'
<1>1. /\ topics \in Seq(Lists) /\ Len(topics) \in Nat
      /\ \A j \in 1..Len(topics) : topics[j] \in Lists
  BY ListFacts, Zenon DEF DeliveryInv
<1>2. Len(topics') = Len(topics)
      /\ \A j \in 1..Len(topics) : topics'[j].subs = IF j = i THEN new ELSE topics[j].subs
  BY <1>1, SMTT(30) DEF Lists
<1>3. ASSUME NEW d \in Dispatchers PROVE WalkOK(delivery'[d], topics')
  <2> DEFINE w == delivery[d]
             w2 == [w EXCEPT !.shifted = TRUE, !.called = <<>>]
  <2>1. WalkOK(w, topics)
    BY Zenon DEF DeliveryInv
  <2>2. delivery'[d] = IF w.topic = i /\ q < w.place THEN w2 ELSE w
    BY Zenon DEF Shifted
  <2>3. i \in Nat /\ i # 0
    BY <1>1
  <2>4. CASE w = NoDelivery
    <3>1. w.topic = 0
      BY <2>4 DEF NoDelivery
    <3>2. delivery'[d] = NoDelivery
      BY <2>2, <2>3, <2>4, <3>1, Zenon
    <3> QED
      BY <3>2, Zenon DEF WalkOK
  <2>5. CASE w \in Walk /\ w.topic <= Len(topics)
             /\ (w.shifted = FALSE => Passed(w, topics[w.topic].subs))
    <3> HIDE DEF w, w2
    <3>1. w.topic \in 1..Len(topics) /\ w.place \in Nat
      BY <1>1, <2>5 DEF Walk
    <3>2. CASE w.topic = i /\ q < w.place
      <4>1. w2 \in Walk /\ w2.topic = w.topic /\ w2.shifted = TRUE
        BY ONLY <2>5, MarkedWalk, Zenon DEF w2
      <4>2. w2.topic <= Len(topics')
        BY <1>2, <2>5, <4>1, Zenon
      <4> QED
        BY <2>2, <3>2, <4>1, <4>2, Zenon DEF WalkOK
    <3>3. CASE w.topic = i /\ ~(q < w.place)
      <4>1. w.place <= q
        BY <3>1, <3>3
      <4>2. w.shifted = FALSE => Passed(w, new)
        BY <2>5, <3>3, <4>1, Zenon
      <4>3. new = topics'[w.topic].subs
        BY <1>2, <3>3, Zenon
      <4> QED
        BY <1>2, <2>2, <2>5, <3>3, <4>2, <4>3, Zenon DEF WalkOK
    <3>4. CASE w.topic # i
      <4>1. topics'[w.topic].subs = topics[w.topic].subs
        BY <1>2, <3>1, <3>4, Zenon
      <4> QED
        BY <1>2, <2>2, <2>5, <3>4, <4>1, Zenon DEF WalkOK
    <3> QED
      BY <3>2, <3>3, <3>4, Zenon
  <2> QED
    BY <2>1, <2>4, <2>5, Zenon DEF WalkOK
<1>4. delivery' = [d \in Dispatchers |-> delivery'[d]]
  BY Zenon DEF Shifted
<1> QED
  BY <1>3, <1>4, Zenon DEF DeliveryInv

\* A subscription after the cleanup of app c.
Off(s, c) == IF s.client = c THEN [s EXCEPT !.active = FALSE] ELSE s

\* event_cleanup_app switches subscriptions off and moves none.
LEMMA OffKeepsPassed ==
    ASSUME NEW subs \in Seq(Sub), NEW w \in Walk, Passed(w, subs), NEW c,
           NEW new, Len(new) = Len(subs),
           \A j \in 1..Len(subs) : new[j] = Off(subs[j], c)
    PROVE  Passed(w, new)
<1>1. Len(subs) \in Nat /\ w.place \in Nat \ {0}
  BY DEF Walk
<1>2. \A j \in 1..(w.place - 1) : j \in 1..Len(subs)
  BY <1>1 DEF Passed
<1>3. ASSUME NEW j \in 1..Len(subs), new[j].active
      PROVE  subs[j].active /\ new[j].client = subs[j].client
  <2>1. subs[j] \in Sub
    OBVIOUS
  <2>2. CASE subs[j].client = c
    <3>1. new[j] = [subs[j] EXCEPT !.active = FALSE]
      BY <2>2, Zenon DEF Off
    <3>2. new[j].active = FALSE
      BY <2>1, <3>1, Zenon DEF Sub
    <3> QED
      BY <1>3, <3>2, Zenon
  <2>3. CASE subs[j].client # c
    <3>1. new[j] = subs[j]
      BY <2>3, Zenon DEF Off
    <3> QED
      BY <1>3, <3>1, Zenon
  <2> QED
    BY <2>2, <2>3, Zenon
<1>4. \A j \in 1..(w.place - 1) : new[j].active => w.called[j] = {new[j].client}
  <2>1. \A j \in 1..(w.place - 1) : subs[j].active => w.called[j] = {subs[j].client}
    BY Zenon DEF Passed
  <2> QED
    BY <1>2, <1>3, <2>1, Zenon
<1> QED
  BY <1>4, Zenon DEF Passed

\* The first of the topics that match a name is one.
LEMMA FirstMatch ==
    ASSUME ListsInv, NEW t, Matches(t) # {}
    PROVE  First(Matches(t)) \in 1..Len(topics)
<1>1. Matches(t) \subseteq 1..Len(topics) /\ Matches(t) \subseteq Nat
  BY ListFacts DEF Matches
<1> QED
  BY <1>1, FirstIsFirst, Zenon

\* Every step keeps what the deliveries rest on.
LEMMA NextWalks == DeliveryInv /\ [BusNext]_busVars => DeliveryInv'
<1> SUFFICES ASSUME DeliveryInv, [BusNext]_busVars PROVE DeliveryInv'
  BY Zenon
<1>1. ListsInv /\ ListsInv'
  BY NextOrdered, Zenon DEF DeliveryInv
<1>2. /\ topics \in Seq(Lists) /\ Len(topics) \in Nat
      /\ \A i \in 1..Len(topics) : topics[i] \in Lists /\ topics[i].subs \in Seq(Sub)
  BY ONLY <1>1, ListFacts, Zenon
<1>3. \A d \in Dispatchers : WalkOK(delivery[d], topics)
  BY Zenon DEF DeliveryInv
<1>4. ASSUME NEW d \in Dispatchers, NEW w, UNCHANGED topics, WalkOK(w, topics),
             delivery' = [delivery EXCEPT ![d] = w]
      PROVE  DeliveryInv'
  <2>1. delivery = [e \in Dispatchers |-> delivery[e]]
    BY Zenon DEF DeliveryInv
  <2>2. delivery' = [e \in Dispatchers |-> IF e = d THEN w ELSE delivery[e]]
    BY <1>4, <2>1, Zenon
  <2>3. \A e \in Dispatchers : WalkOK(delivery'[e], topics)
    BY <1>3, <1>4, <2>2, Zenon
  <2>4. \A e \in Dispatchers : WalkOK(delivery'[e], topics')
    BY <1>4, <2>3, Zenon
  <2>5. delivery' = [e \in Dispatchers |-> delivery'[e]]
    BY <2>2, Zenon
  <2> QED
    BY <1>1, <2>4, <2>5, Zenon DEF DeliveryInv
<1>5. ASSUME NEW d \in Dispatchers, NEW t, NEW sync \in BOOLEAN, UNCHANGED topics,
             Deliver(d, t, sync)
      PROVE  DeliveryInv'
  <2> DEFINE i == First(Matches(t))
             w == [topic |-> i, place |-> 1, sync |-> sync,
                   called |-> <<>>, shifted |-> FALSE]
  <2>1. CASE Matches(t) = {}
    <3>1. delivery' = [delivery EXCEPT ![d] = NoDelivery]
      BY <1>5, <2>1, Zenon DEF Deliver
    <3>2. WalkOK(NoDelivery, topics)
      BY Zenon DEF WalkOK
    <3> QED
      BY <1>4, <1>5, <3>1, <3>2, Zenon
  <2>2. CASE Matches(t) # {}
    <3>1. i \in 1..Len(topics)
      BY <1>1, <2>2, FirstMatch, Zenon
    <3>2. delivery' = [delivery EXCEPT ![d] = w]
      BY <1>5, <2>2, Zenon DEF Deliver
    <3> HIDE DEF i
    <3>3. w \in Walk /\ w.topic = i /\ w.place = 1 /\ w.called = <<>>
      BY <1>2, <3>1, SMTT(30) DEF Walk
    <3> HIDE DEF w
    <3>4. Passed(w, topics[i].subs)
      <4>1. topics[i].subs \in Seq(Sub) /\ Len(topics[i].subs) \in Nat
        BY <1>2, <3>1, SMTT(30)
      <4> QED
        BY <3>3, <4>1, SMTT(30) DEF Passed
    <3>5. WalkOK(w, topics)
      BY <1>2, <3>1, <3>3, <3>4, SMTT(30) DEF WalkOK
    <3> QED
      BY <1>4, <1>5, <3>2, <3>5, Zenon
  <2> QED
    BY <2>1, <2>2, Zenon
<1>6. ASSUME NEW c \in Clients, NEW t \in Topics, NEW prio \in Priorities,
             event_subscribe(c, t, prio)
      PROVE  DeliveryInv'
  <2> DEFINE s == [client |-> c, prio |-> prio, active |-> TRUE]
             i == First(Matches(t))
             l == topics[i].subs
             p == Place(l, prio)
             new == Inserted(l, p, s)
  <2>1. CASE Matches(t) = {}
    <3> DEFINE r == [name |-> Truncated[t], subs |-> <<s>>]
    <3>1. topics' = Append(topics, r) /\ UNCHANGED delivery
      BY <1>6, <2>1, Zenon DEF event_subscribe
    <3> HIDE DEF r
    <3>2. /\ Len(topics') = Len(topics) + 1
          /\ \A j \in 1..Len(topics) : topics'[j] = topics[j]
      BY <1>2, <3>1
    <3>3. ASSUME NEW d \in Dispatchers PROVE WalkOK(delivery[d], topics')
      <4>1. CASE delivery[d] = NoDelivery
        BY <4>1, Zenon DEF WalkOK
      <4>2. CASE delivery[d] \in Walk /\ delivery[d].topic <= Len(topics)
        <5>1. delivery[d].topic \in 1..Len(topics)
          BY <1>2, <4>2 DEF Walk
        <5>2. topics'[delivery[d].topic].subs = topics[delivery[d].topic].subs
          BY <3>2, <5>1, Zenon
        <5>3. Len(topics') \in Nat /\ Len(topics) <= Len(topics')
          BY <1>2, <3>2, SMTT(30)
        <5> QED
          BY ONLY <1>2, <1>3, <3>3, <5>2, <5>3, WalkOfSameList, Zenon
      <4> QED
        BY <1>3, <4>1, <4>2, Zenon DEF WalkOK
    <3> QED
      BY <1>1, <3>1, <3>3, Zenon DEF DeliveryInv
  <2>2. CASE Matches(t) # {}
    <3>1. i \in 1..Len(topics)
      BY <1>1, <2>2, FirstMatch, Zenon
    <3>2. topics' = [topics EXCEPT ![i].subs = new] /\ delivery' = Shifted(i, p)
      BY <1>6, <2>2, Zenon DEF event_subscribe
    <3>3. s \in Sub
      BY Zenon DEF Sub
    <3>4. l \in Seq(Sub) /\ Ordered(l)
      BY <1>1, <1>2, <3>1, Zenon DEF ListsInv, OrderedByPriority, Ordered
    <3> HIDE DEF i, s
    <3>5. p \in 1..(Len(l) + 1)
      <4> HIDE DEF l
      <4> QED
        BY ONLY <3>4, PlaceSplits, <1>6, Zenon
    <3>6. p \in Nat
      BY <3>4, <3>5
    <3>7. \A w \in Walk : Passed(w, l) /\ w.place <= p => Passed(w, new)
      <4> HIDE DEF l, p
      <4> QED
        BY ONLY <3>3, <3>4, <3>5, InsertKeepsPassed, Zenon
    <3> HIDE DEF p, new
    <3> QED
      BY <1>1, <3>1, <3>2, <3>6, <3>7, ShiftKeepsWalks, Zenon
  <2> QED
    BY <2>1, <2>2, Zenon
<1>7. ASSUME NEW c \in Clients, NEW t \in Topics, event_unsubscribe(c, t)
      PROVE  DeliveryInv'
  <2> DEFINE i == First(Matches(t))
             l == topics[i].subs
             mine == {j \in 1..Len(l) : l[j].client = c}
             q == First(mine)
             new == Without(l, q)
  <2>1. /\ Matches(t) # {} /\ mine # {}
        /\ topics' = [topics EXCEPT ![i].subs = new] /\ delivery' = Shifted(i, q)
    BY <1>7, Zenon DEF event_unsubscribe
  <2>2. i \in 1..Len(topics)
    BY <1>1, <2>1, FirstMatch, Zenon
  <2>3. l \in Seq(Sub) /\ Len(l) \in Nat
    BY <1>2, <2>2
  <2>4. q \in 1..Len(l)
    <3>1. mine \subseteq 1..Len(l) /\ mine \subseteq Nat
      BY <2>3, SMTT(30)
    <3> QED
      BY <2>1, <3>1, FirstIsFirst, Zenon
  <2>5. q \in Nat
    BY <2>3, <2>4
  <2>6. \A w \in Walk : Passed(w, l) /\ w.place <= q => Passed(w, new)
    <3> HIDE DEF l, q
    <3> QED
      BY ONLY <2>3, <2>4, RemoveKeepsPassed, Zenon
  <2> HIDE DEF i, q, new
  <2> QED
    BY <1>1, <2>1, <2>2, <2>5, <2>6, ShiftKeepsWalks, Zenon
<1>8. ASSUME NEW c \in Clients, event_cleanup_app(c) PROVE DeliveryInv'
  <2> DEFINE new(i) == [j \in 1..Len(topics[i].subs) |-> Off(topics[i].subs[j], c)]
  <2>1. /\ topics' = [i \in 1..Len(topics) |-> [topics[i] EXCEPT !.subs = new(i)]]
        /\ UNCHANGED delivery
    BY <1>8, Zenon DEF event_cleanup_app, Off
  <2>2. ASSUME NEW i \in 1..Len(topics), NEW w \in Walk, Passed(w, topics[i].subs)
        PROVE  Passed(w, new(i))
    <3> DEFINE l == topics[i].subs
               m == new(i)
    <3>1. l \in Seq(Sub) /\ Len(l) \in Nat
      BY <1>2
    <3>2. Len(m) = Len(l)
      BY <3>1
    <3>3. \A j \in 1..Len(l) : m[j] = Off(l[j], c)
      BY Zenon
    <3>4. Passed(w, l)
      BY <2>2, Zenon
    <3>5. Passed(w, m)
      <4> HIDE DEF l, m
      <4> QED
        BY ONLY <2>2, <3>1, <3>2, <3>3, <3>4, OffKeepsPassed, Zenon
    <3> QED
      BY <3>5, Zenon
  <2> HIDE DEF new
  <2>3. Len(topics') = Len(topics) /\ \A i \in 1..Len(topics) : topics'[i].subs = new(i)
    <3>1. \A i \in 1..Len(topics) : [topics[i] EXCEPT !.subs = new(i)].subs = new(i)
      BY <1>2, Zenon DEF Lists
    <3>2. Len(topics') = Len(topics)
      BY <1>2, <2>1
    <3> QED
      BY <2>1, <3>1, <3>2, Zenon
  <2>4. ASSUME NEW d \in Dispatchers PROVE WalkOK(delivery[d], topics')
    <3> DEFINE w == delivery[d]
    <3>1. CASE w = NoDelivery
      BY <3>1, Zenon DEF WalkOK
    <3>2. CASE w \in Walk /\ w.topic <= Len(topics)
               /\ (w.shifted = FALSE => Passed(w, topics[w.topic].subs))
      <4>1. w.topic \in 1..Len(topics)
        BY <1>2, <3>2 DEF Walk
      <4> HIDE DEF w
      <4>2. w.shifted = FALSE => Passed(w, topics'[w.topic].subs)
        BY <2>2, <2>3, <3>2, <4>1, Zenon
      <4>3. WalkOK(w, topics')
        BY <2>3, <3>2, <4>2, Zenon DEF WalkOK
      <4> QED
        BY <4>3, Zenon DEF w
    <3> QED
      BY <1>3, <3>1, <3>2, Zenon DEF WalkOK
  <2> QED
    BY <1>1, <2>1, <2>4, Zenon DEF DeliveryInv
<1>9. ASSUME NEW d \in Dispatchers, Callback(d) PROVE DeliveryInv'
  <2> DEFINE w == delivery[d]
             l == topics[w.topic].subs
             s == l[w.place]
             one == IF s.active THEN {s.client} ELSE {}
             calls == IF w.shifted THEN <<>> ELSE Append(w.called, one)
             w1 == [w EXCEPT !.place = w.place + 1]
             w2 == [w1 EXCEPT !.called = calls]
  <2>1. w # NoDelivery /\ w.place <= Len(l) /\ UNCHANGED topics
    BY <1>9, Zenon DEF Callback, Delivering, ListOf
  <2>2. delivery' = [delivery EXCEPT ![d] = w2]
    BY <1>9, Zenon DEF Callback, ListOf
  <2>3. /\ w \in Walk /\ w.topic <= Len(topics)
        /\ (w.shifted = FALSE => Passed(w, l))
    BY <1>3, <2>1, Zenon DEF WalkOK
  <2> HIDE DEF w
  <2>4. w.topic \in 1..Len(topics) /\ w.place \in Nat \ {0} /\ w.called \in Seq(SUBSET Clients)
        /\ w.shifted \in BOOLEAN
    BY <1>2, <2>3 DEF Walk
  <2>5. l \in Seq(Sub)
    BY <1>2, <2>4, Zenon
  <2> HIDE DEF l
  <2>6. s \in Sub /\ one \in SUBSET Clients
    <3>1. w.place \in 1..Len(l)
      BY <2>1, <2>4, <2>5
    <3>2. s \in Sub
      BY <2>5, <3>1
    <3>3. s.client \in Clients
      BY <3>2, Zenon DEF Sub
    <3> QED
      BY <3>2, <3>3, Zenon
  <2> HIDE DEF s, one
  <2>7. calls \in Seq(SUBSET Clients)
    BY <2>4, <2>6
  <2>8. w.shifted = FALSE => calls = Append(w.called, one)
    BY Zenon
  <2> HIDE DEF calls
  <2>9. w2 \in Walk /\ w2.topic = w.topic /\ w2.place = w.place + 1
        /\ w2.called = calls /\ w2.shifted = w.shifted
    BY ONLY <2>3, <2>4, <2>7, NextPlaceWalk, Zenon DEF w1, w2
  <2> HIDE DEF w1, w2
  <2>10. ASSUME w.shifted = FALSE PROVE Passed(w2, l)
    <3>1. /\ w.place <= Len(l) + 1 /\ Len(w.called) = w.place - 1
          /\ \A j \in 1..(w.place - 1) : l[j].active => w.called[j] = {l[j].client}
      BY <2>3, <2>10, Zenon DEF Passed
    <3>2. /\ Len(calls) = w.place
          /\ calls[w.place] = one
          /\ \A j \in 1..(w.place - 1) : calls[j] = w.called[j]
      <4> DEFINE Calls == SUBSET Clients
      <4>1. w.called \in Seq(Calls) /\ one \in Calls
        BY <2>4, <2>6, Zenon
      <4>2. calls = Append(w.called, one)
        BY <2>8, <2>10, Zenon
      <4> HIDE DEF Calls
      <4> QED
        BY ONLY <2>4, <3>1, <4>1, <4>2, SMTT(30)
    <3>3. l[w.place].active => calls[w.place] = {l[w.place].client}
      BY <3>2, Zenon DEF one, s
    <3>4. \A j \in 1..w.place : j = w.place \/ j \in 1..(w.place - 1)
      BY <2>4
    <3>5. \A j \in 1..w.place : l[j].active => calls[j] = {l[j].client}
      BY <3>1, <3>2, <3>3, <3>4, Zenon
    <3>6. w2.place - 1 = w.place /\ w2.place <= Len(l) + 1
      BY <2>1, <2>4, <2>5, <2>9, SMTT(30)
    <3> QED
      BY <2>9, <3>2, <3>5, <3>6, Zenon DEF Passed
  <2>11. WalkOK(w2, topics)
    BY <2>3, <2>9, <2>10, Zenon DEF WalkOK, l
  <2> QED
    BY <1>4, <2>1, <2>2, <2>11, ZenonT(40)
<1>10. ASSUME NEW d \in Dispatchers, Delivered(d) PROVE DeliveryInv'
  <2>1. delivery' = [delivery EXCEPT ![d] = NoDelivery] /\ UNCHANGED topics
    BY <1>10, Zenon DEF Delivered
  <2>2. WalkOK(NoDelivery, topics)
    BY Zenon DEF WalkOK
  <2> QED
    BY <1>4, <2>1, <2>2, Zenon
<1>11. ASSUME NEW d \in Dispatchers, NEW t \in Topics, event_publish_sync(d, t)
       PROVE  DeliveryInv'
  BY <1>5, <1>11, Zenon DEF event_publish_sync
<1>12. ASSUME NEW d \in Dispatchers, event_process_queue(d) PROVE DeliveryInv'
  BY <1>5, <1>12, Zenon DEF event_process_queue
<1>13. CASE UNCHANGED <<topics, delivery>>
  BY <1>1, <1>3, <1>13, Zenon DEF DeliveryInv
<1>14. ASSUME NEW t \in Topics, event_publish(t) PROVE DeliveryInv'
  BY <1>13, <1>14, Zenon DEF event_publish
<1>15. CASE UNCHANGED busVars
  BY <1>13, <1>15, Zenon DEF busVars
<1> QED
  BY <1>6, <1>7, <1>8, <1>9, <1>10, <1>11, <1>12, <1>14, <1>15, ZenonT(40) DEF BusNext

\* event_deliver walks a list that subscribe, unsubscribe and cleanup change while
\* event_process_queue has let go of the lock.  For any numbers of topics,
\* subscriptions and dispatchers, whoever is active in the part passed was called
\* from there, unless a subscription came or went within that part.
THEOREM PassedAreCalled == BusSpec => []PassedWereCalled
<1>1. BusInit => DeliveryInv
  <2> SUFFICES ASSUME BusInit PROVE DeliveryInv
    BY Zenon
  <2>1. ListsInv
    BY DEF BusInit, ListsInv, BusTypes, OrderedByPriority
  <2>2. delivery = [d \in Dispatchers |-> NoDelivery]
    BY Zenon DEF BusInit
  <2>3. \A d \in Dispatchers : WalkOK(delivery[d], topics)
    BY <2>2, Zenon DEF WalkOK
  <2> QED
    BY <2>1, <2>2, <2>3, Zenon DEF DeliveryInv
<1>2. DeliveryInv => PassedWereCalled
  <2> SUFFICES ASSUME DeliveryInv, NEW d \in Dispatchers, delivery[d] # NoDelivery,
                      ~delivery[d].shifted
               PROVE  Passed(delivery[d], ListOf(d))
    BY Zenon DEF PassedWereCalled, Passed, Delivering
  <2>1. /\ delivery[d] \in Walk
        /\ delivery[d].shifted = FALSE => Passed(delivery[d], topics[delivery[d].topic].subs)
    BY Zenon DEF DeliveryInv, WalkOK
  <2>2. delivery[d].shifted \in BOOLEAN
    BY <2>1, Zenon DEF Walk
  <2>3. delivery[d].shifted = FALSE
    BY <2>2, Zenon
  <2> QED
    BY <2>1, <2>3, Zenon DEF ListOf
<1> QED
  BY <1>1, <1>2, NextWalks, PTL DEF BusSpec

-----------------------------------------------------------------------------
(* The timers.                                                             *)

TimerRecord == [expire_time : Int, callback : BOOLEAN, periodic : BOOLEAN, period : Int,
                active : BOOLEAN, since : Int, early : {FALSE}]

TimersTypes ==
    /\ g_boot_time \in Int /\ g_time_offset \in Int
    /\ os_timer \in [OsTimers -> TimerRecord]
    /\ g_timer_list \in Seq(OsTimers)
    /\ pass \in [on : BOOLEAN, now : Int, fired : Int]

On(list, t) == \E i \in 1..Len(list) : list[i] = t

\* The timers of the list expire in its order.
InTimeOrder(list, expires) ==
    \A i, j \in 1..Len(list) : i < j =>
        list[i] # list[j] /\ expires[list[i]] <= expires[list[j]]

\* A periodic timer the clock was not set under expires one period after it was
\* started or last fired.
OnTime(timer, offset) ==
    timer.active /\ timer.periodic /\ timer.since # Unknown =>
        timer.expire_time = offset + timer.since + timer.period

Expires(all) == [t \in OsTimers |-> all[t].expire_time]

ListInv(list, all) ==
    /\ \A t \in OsTimers : all[t].active => On(list, t)
    /\ \A t \in OsTimers : ~all[t].active => ~On(list, t)
    /\ InTimeOrder(list, Expires(all))

TimersInv ==
    /\ TimersTypes
    /\ ListInv(g_timer_list, os_timer)
    /\ \A t \in OsTimers : OnTime(os_timer[t], g_time_offset)

-----------------------------------------------------------------------------
(* The list.                                                                *)

\* timer_list_insert puts a timer where the list stays in order.
LEMMA InsertOrders ==
    ASSUME NEW list \in Seq(OsTimers), NEW t \in OsTimers, NEW all \in [OsTimers -> TimerRecord],
           InTimeOrder(list, Expires(all)), ~On(list, t)
    PROVE  /\ timer_list_insert(list, t, all) \in Seq(OsTimers)
           /\ InTimeOrder(timer_list_insert(list, t, all), Expires(all))
           /\ \A u \in OsTimers : On(timer_list_insert(list, t, all), u) <=> u = t \/ On(list, u)
<1> DEFINE x == Expires(all)
           later == {i \in 1..Len(list) : all[list[i]].expire_time > all[t].expire_time}
           m == First(later \cup {Len(list) + 1})
           new == Inserted(list, m, t)
<1>1. x \in [OsTimers -> Int] /\ \A u \in OsTimers : x[u] = all[u].expire_time
  BY Zenon DEF Expires, TimerRecord
<1>2. \A i \in 1..Len(list) : list[i] \in OsTimers
  OBVIOUS
<1>3. later = {i \in 1..Len(list) : x[list[i]] > x[t]}
  BY <1>1, <1>2, Zenon
<1>4. m \in later \cup {Len(list) + 1} /\ \A i \in later \cup {Len(list) + 1} : m <= i
  <2>1. Len(list) \in Nat /\ later \cup {Len(list) + 1} \subseteq Nat /\ later \cup {Len(list) + 1} # {}
    OBVIOUS
  <2> QED
    BY <2>1, FirstIsFirst, Zenon
<1>5. timer_list_insert(list, t, all) = new
  BY Zenon DEF timer_list_insert
<1>6. m \in 1..(Len(list) + 1)
  <2>1. later \subseteq 1..Len(list) /\ Len(list) \in Nat
    OBVIOUS
  <2> HIDE DEF m, later
  <2> QED
    BY <1>4, <2>1
<1>7. /\ new \in Seq(OsTimers) /\ Len(new) = Len(list) + 1
      /\ \A i \in 1..(Len(list) + 1) :
           new[i] = IF i < m THEN list[i] ELSE IF i = m THEN t ELSE list[i - 1]
  <2> HIDE DEF m, later
  <2>1. HasAt(new, list, m, t, OsTimers)
    BY <1>6, InsertedAt, Zenon
  <2> QED
    BY <2>1, Zenon DEF HasAt
<1>8. \A i, j \in 1..Len(list) : i < j => list[i] # list[j] /\ x[list[i]] <= x[list[j]]
  BY Zenon DEF InTimeOrder
<1>9. \A i \in 1..Len(list) : list[i] # t
  BY Zenon DEF On
<1>10. \A i \in 1..Len(list) : i < m => x[list[i]] <= x[t]
  <2>1. ASSUME NEW i \in 1..Len(list), i < m PROVE i \notin later
    <3> HIDE DEF m, later
    <3>1. \A j \in later : m <= j
      BY <1>4, Zenon
    <3>2. m \in Int /\ i \in Int /\ ~(m <= i)
      BY <1>6, <2>1
    <3> QED
      BY <3>1, <3>2, Zenon
  <2>2. \A i \in 1..Len(list) : x[list[i]] \in Int /\ x[t] \in Int
    BY <1>1, <1>2, Zenon
  <2> QED
    BY <1>3, <2>1, <2>2
<1>11. \A i \in 1..Len(list) : m <= i => x[t] < x[list[i]]
  <2>1. ASSUME NEW i \in 1..Len(list), m <= i PROVE x[t] < x[list[i]]
    <3> HIDE DEF m, later
    <3>1. m \in later
      BY <1>4, <1>6, <2>1
    <3>2. x[t] < x[list[m]] /\ m \in 1..Len(list)
      BY <1>3, <3>1, Zenon
    <3>3. x[list[m]] <= x[list[i]]
      <4>1. CASE m = i
        BY <4>1, <1>1, <1>2
      <4>2. CASE m < i
        BY <1>8, <3>2, <4>2, Zenon
      <4> QED
        BY <2>1, <3>2, <4>1, <4>2
    <3>4. x[t] \in Int /\ x[list[m]] \in Int /\ x[list[i]] \in Int
      BY <1>1, <1>2, <3>2, Zenon
    <3> QED
      BY <3>2, <3>3, <3>4, SMTT(30)
  <2> QED
    BY <2>1, Zenon
<1> HIDE DEF x, later, m, new
<1>12. InTimeOrder(new, x)
  <2> SUFFICES ASSUME NEW i \in 1..Len(new), NEW j \in 1..Len(new), i < j
               PROVE  new[i] # new[j] /\ x[new[i]] <= x[new[j]]
    BY Zenon DEF InTimeOrder
  <2>0. /\ x[t] \in Int
        /\ \A k \in 1..Len(list) : x[list[k]] \in Int
    BY <1>1, <1>2, Zenon
  <2>1. CASE j < m
    <3>1. new[i] = list[i] /\ new[j] = list[j] /\ i \in 1..Len(list) /\ j \in 1..Len(list)
      BY <1>7, <2>1, <1>6
    <3> QED
      BY <1>8, <3>1, Zenon
  <2>2. CASE j = m
    <3>1. new[i] = list[i] /\ new[j] = t /\ i \in 1..Len(list) /\ i < m
      BY <1>7, <2>2, <1>6
    <3> QED
      BY <1>9, <1>10, <3>1, Zenon
  <2>3. CASE j > m /\ i < m
    <3>1. new[i] = list[i] /\ new[j] = list[j - 1] /\ i \in 1..Len(list) /\ j - 1 \in 1..Len(list) /\ i < j - 1
      BY <1>7, <2>3, <1>6
    <3> QED
      BY <1>8, <3>1, Zenon
  <2>4. CASE j > m /\ i = m
    <3>1. new[i] = t /\ new[j] = list[j - 1] /\ j - 1 \in 1..Len(list) /\ m <= j - 1
      BY <1>7, <2>4, <1>6
    <3> QED
      BY <1>9, <1>11, <3>1, <2>0, SMTT(30)
  <2>5. CASE j > m /\ i > m
    <3>1. new[i] = list[i - 1] /\ new[j] = list[j - 1] /\ i - 1 \in 1..Len(list) /\ j - 1 \in 1..Len(list) /\ i - 1 < j - 1
      BY <1>7, <2>5, <1>6
    <3> QED
      BY <1>8, <3>1, Zenon
  <2> QED
    BY <2>1, <2>2, <2>3, <2>4, <2>5, <1>6, <1>7
<1>13. ASSUME NEW u \in OsTimers
       PROVE  On(new, u) <=> u = t \/ On(list, u)
  <2>1. ASSUME NEW i \in 1..Len(new), new[i] = u PROVE u = t \/ On(list, u)
    <3>1. CASE i < m
      BY <1>6, <1>7, <2>1, <3>1 DEF On
    <3>2. CASE i = m
      BY <1>6, <1>7, <2>1, <3>2
    <3>3. CASE i > m
      <4>1. list[i - 1] = u /\ i - 1 \in 1..Len(list)
        BY <1>6, <1>7, <2>1, <3>3
      <4> QED
        BY <4>1, Zenon DEF On
    <3> QED
      BY <3>1, <3>2, <3>3, <1>6
  <2>2. On(new, t)
    <3>1. m \in 1..Len(new) /\ new[m] = t
      BY <1>6, <1>7
    <3> QED
      BY <3>1, Zenon DEF On
  <2>3. ASSUME NEW i \in 1..Len(list), list[i] = u PROVE On(new, u)
    <3>1. CASE i < m
      <4>1. new[i] = u /\ i \in 1..Len(new)
        BY <1>6, <1>7, <2>3, <3>1
      <4> QED
        BY <4>1, Zenon DEF On
    <3>2. CASE i >= m
      <4>1. new[i + 1] = list[i] /\ i + 1 \in 1..Len(new)
        BY <1>6, <1>7, <3>2
      <4> QED
        BY <2>3, <4>1, Zenon DEF On
    <3> QED
      BY <3>1, <3>2, <1>6
  <2> QED
    BY <2>1, <2>2, <2>3, Zenon DEF On
<1> QED
  BY <1>5, <1>7, <1>12, <1>13, Zenon DEF x

\* A list with its place m unlinked is still in order.
LEMMA RemoveOrders ==
    ASSUME NEW list \in Seq(OsTimers), NEW x, InTimeOrder(list, x), NEW m \in 1..Len(list),
           NEW new \in Seq(OsTimers), Len(new) = Len(list) - 1,
           \A i \in 1..(Len(list) - 1) : new[i] = IF i < m THEN list[i] ELSE list[i + 1]
    PROVE  /\ InTimeOrder(new, x)
           /\ \A u \in OsTimers : On(new, u) <=> On(list, u) /\ u # list[m]
<1>1. \A i, j \in 1..Len(list) : i < j => list[i] # list[j] /\ x[list[i]] <= x[list[j]]
  BY Zenon DEF InTimeOrder
<1> DEFINE old(i) == IF i < m THEN i ELSE i + 1
<1>2. \A i \in 1..Len(new) : new[i] = list[old(i)] /\ old(i) \in 1..Len(list) /\ old(i) # m
  OBVIOUS
<1>3. \A i, j \in 1..Len(new) : i < j => old(i) < old(j)
  OBVIOUS
<1>4. \A k \in 1..Len(list) : k # m => \E i \in 1..Len(new) : old(i) = k
  <2> SUFFICES ASSUME NEW k \in 1..Len(list), k # m PROVE \E i \in 1..Len(new) : old(i) = k
    BY Zenon
  <2>1. CASE k < m
    <3>1. k \in 1..Len(new) /\ old(k) = k
      BY <2>1
    <3> QED
      BY <3>1, Zenon
  <2>2. CASE k > m
    <3>1. k - 1 \in 1..Len(new) /\ old(k - 1) = k
      BY <2>2
    <3> QED
      BY <3>1, Zenon
  <2> QED
    BY <2>1, <2>2
<1>5. \A k \in 1..Len(list) : k # m => list[k] # list[m]
  <2> SUFFICES ASSUME NEW k \in 1..Len(list), k # m PROVE list[k] # list[m]
    BY Zenon
  <2>1. k < m \/ m < k
    OBVIOUS
  <2> QED
    BY <1>1, <2>1, Zenon
<1> HIDE DEF old
<1>6. InTimeOrder(new, x)
  <2> SUFFICES ASSUME NEW i \in 1..Len(new), NEW j \in 1..Len(new), i < j
               PROVE  new[i] # new[j] /\ x[new[i]] <= x[new[j]]
    BY Zenon DEF InTimeOrder
  <2>1. /\ new[i] = list[old(i)] /\ old(i) \in 1..Len(list)
        /\ new[j] = list[old(j)] /\ old(j) \in 1..Len(list) /\ old(i) < old(j)
    BY <1>2, <1>3, Zenon
  <2> QED
    BY <1>1, <2>1, Zenon
<1>7. ASSUME NEW u \in OsTimers PROVE On(new, u) <=> On(list, u) /\ u # list[m]
  <2>1. On(new, u) => On(list, u) /\ u # list[m]
    <3> SUFFICES ASSUME NEW i \in 1..Len(new), new[i] = u PROVE On(list, u) /\ u # list[m]
      BY Zenon DEF On
    <3>1. list[old(i)] = u /\ old(i) \in 1..Len(list) /\ old(i) # m
      BY <1>2, Zenon
    <3> QED
      BY <1>5, <3>1, Zenon DEF On
  <2>2. On(list, u) /\ u # list[m] => On(new, u)
    <3> SUFFICES ASSUME NEW k \in 1..Len(list), list[k] = u, u # list[m] PROVE On(new, u)
      BY Zenon DEF On
    <3>1. PICK i \in 1..Len(new) : old(i) = k
      BY <1>4, Zenon
    <3>2. new[i] = u
      BY <1>2, <3>1, Zenon
    <3> QED
      BY <3>2, Zenon DEF On
  <2> QED
    BY <2>1, <2>2, Zenon
<1> QED
  BY <1>6, <1>7, Zenon

\* os_timer_stop unlinks the place it meets first.
LEMMA StopUnlinks ==
    ASSUME NEW t \in OsTimers, TimersTypes, InTimeOrder(g_timer_list, Expires(os_timer)), Linked(t),
           g_timer_list' = Without(g_timer_list,
                              First({i \in 1..Len(g_timer_list) : g_timer_list[i] = t}))
    PROVE  /\ g_timer_list' \in Seq(OsTimers)
           /\ InTimeOrder(g_timer_list', Expires(os_timer))
           /\ \A u \in OsTimers : On(g_timer_list', u) <=> On(g_timer_list, u) /\ u # t
<1> DEFINE I == {i \in 1..Len(g_timer_list) : g_timer_list[i] = t}
           m == First(I)
<1>1. g_timer_list \in Seq(OsTimers)
  BY Zenon DEF TimersTypes
<1>2. m \in I
  <2>1. I \subseteq Nat /\ I # {}
    BY <1>1 DEF Linked
  <2> QED
    BY <2>1, FirstIsFirst, Zenon
<1>3. m \in 1..Len(g_timer_list) /\ g_timer_list[m] = t
  BY <1>2, Zenon
<1> HIDE DEF m
<1>4. g_timer_list' = Without(g_timer_list, m)
  BY Zenon DEF m
<1>5. /\ g_timer_list' \in Seq(OsTimers) /\ Len(g_timer_list') = Len(g_timer_list) - 1
      /\ \A i \in 1..(Len(g_timer_list) - 1) :
           g_timer_list'[i] = IF i < m THEN g_timer_list[i] ELSE g_timer_list[i + 1]
  BY <1>1, <1>3, <1>4, RemovedAt, Zenon
<1> DEFINE new == g_timer_list'
<1> HIDE DEF new
<1>6. /\ new \in Seq(OsTimers) /\ Len(new) = Len(g_timer_list) - 1
      /\ \A i \in 1..(Len(g_timer_list) - 1) :
           new[i] = IF i < m THEN g_timer_list[i] ELSE g_timer_list[i + 1]
  BY <1>5, Zenon DEF new
<1>7. /\ InTimeOrder(new, Expires(os_timer))
      /\ \A u \in OsTimers : On(new, u) <=> On(g_timer_list, u) /\ u # g_timer_list[m]
  BY <1>1, <1>3, <1>6, RemoveOrders, Zenon
<1> QED
  BY <1>3, <1>6, <1>7, Zenon DEF new

\* The order of a list hangs on the times of its own timers.
LEMMA OrderStays ==
    ASSUME NEW list \in Seq(OsTimers), NEW x, NEW y, InTimeOrder(list, x),
           \A u \in OsTimers : On(list, u) => y[u] = x[u]
    PROVE  InTimeOrder(list, y)
<1>1. \A i \in 1..Len(list) : list[i] \in OsTimers /\ On(list, list[i])
  BY DEF On
<1> QED
  BY <1>1, Zenon DEF InTimeOrder

-----------------------------------------------------------------------------
(* The steps.                                                               *)

\* A field of a timer.
LEMMA TimerFields ==
    ASSUME NEW r \in TimerRecord
    PROVE  /\ r.expire_time \in Int /\ r.callback \in BOOLEAN /\ r.periodic \in BOOLEAN
           /\ r.period \in Int /\ r.active \in BOOLEAN /\ r.since \in Int /\ r.early = FALSE
BY Zenon DEF TimerRecord

\* No timer is started at boot.
LEMMA TimersInitInv == TimersInit => TimersInv
<1> SUFFICES ASSUME TimersInit PROVE TimersInv
  BY Zenon
<1>1. TimersTypes
  BY DEF TimersInit, TimersTypes, TimerRecord, Unset, Idle
<1>2. \A t \in OsTimers : ~os_timer[t].active
  BY Zenon DEF TimersInit, Unset
<1>3. Len(g_timer_list) = 0
  BY Zenon DEF TimersInit
<1>4. \A t : ~On(g_timer_list, t)
  BY <1>3 DEF On
<1>5. \A x : InTimeOrder(g_timer_list, x)
  BY <1>3 DEF InTimeOrder
<1> QED
  BY <1>1, <1>2, <1>4, <1>5, Zenon DEF TimersInv, ListInv, OnTime

\* A step that changes one timer and keeps the clock.
LEMMA OneTimerMoves ==
    ASSUME TimersInv, NEW t \in OsTimers, NEW r \in TimerRecord,
           os_timer' = [os_timer EXCEPT ![t] = r],
           g_timer_list' \in Seq(OsTimers),
           \A u \in OsTimers : u # t => (On(g_timer_list', u) <=> On(g_timer_list, u)),
           r.active => On(g_timer_list', t), ~r.active => ~On(g_timer_list', t),
           InTimeOrder(g_timer_list', Expires(os_timer')),
           OnTime(r, g_time_offset),
           g_time_offset' = g_time_offset, g_boot_time' = g_boot_time,
           pass' \in [on : BOOLEAN, now : Int, fired : Int]
    PROVE  TimersInv'
<1>1. os_timer \in [OsTimers -> TimerRecord]
  BY Zenon DEF TimersInv, TimersTypes
<1>2. os_timer' \in [OsTimers -> TimerRecord] /\ os_timer'[t] = r
      /\ \A u \in OsTimers : u # t => os_timer'[u] = os_timer[u]
  BY <1>1, Zenon
<1>3. TimersTypes'
  BY <1>2, Zenon DEF TimersInv, TimersTypes
<1>4. ListInv(g_timer_list', os_timer')
  BY <1>2, Zenon DEF TimersInv, ListInv
<1>5. \A u \in OsTimers : OnTime(os_timer'[u], g_time_offset')
  BY <1>2, Zenon DEF TimersInv
<1> QED
  BY <1>3, <1>4, <1>5, Zenon DEF TimersInv, ListInv, OnTime

\* What the invariant says of the list.
LEMMA TimerListFacts ==
    ASSUME TimersInv
    PROVE  /\ os_timer \in [OsTimers -> TimerRecord] /\ g_timer_list \in Seq(OsTimers)
           /\ \A u \in OsTimers : os_timer[u] \in TimerRecord
           /\ \A u \in OsTimers : os_timer[u].active => On(g_timer_list, u)
           /\ \A u \in OsTimers : On(g_timer_list, u) => os_timer[u].active
           /\ \A u \in OsTimers : Linked(u) <=> On(g_timer_list, u)
           /\ InTimeOrder(g_timer_list, Expires(os_timer))
           /\ \A u \in OsTimers : OnTime(os_timer[u], g_time_offset)
           /\ g_boot_time \in Int /\ g_time_offset \in Int
           /\ pass \in [on : BOOLEAN, now : Int, fired : Int]
<1>1. os_timer \in [OsTimers -> TimerRecord] /\ g_timer_list \in Seq(OsTimers)
      /\ g_boot_time \in Int /\ g_time_offset \in Int
      /\ pass \in [on : BOOLEAN, now : Int, fired : Int]
  BY Zenon DEF TimersInv, TimersTypes
<1>2. \A u \in OsTimers : os_timer[u] \in TimerRecord
  BY <1>1, Zenon
<1>3. \A u \in OsTimers : Linked(u) <=> On(g_timer_list, u)
  BY Zenon DEF Linked, On
<1> QED
  BY <1>1, <1>2, <1>3, Zenon DEF TimersInv, ListInv

\* The times of the timers after one has changed.
LEMMA ExpiresMoves ==
    ASSUME os_timer \in [OsTimers -> TimerRecord], NEW t \in OsTimers, NEW r,
           os_timer' = [os_timer EXCEPT ![t] = r]
    PROVE  /\ Expires(os_timer')[t] = r.expire_time
           /\ \A u \in OsTimers : u # t => Expires(os_timer')[u] = Expires(os_timer)[u]
BY Zenon DEF Expires

\* What a start, a stop or an expiry leaves of a timer is a timer.
LEMMA TimerMoved ==
    ASSUME NEW r \in TimerRecord, NEW e \in Int, NEW a \in BOOLEAN, NEW s \in Int
    PROVE  [r EXCEPT !.expire_time = e, !.active = a, !.since = s] \in TimerRecord
BY Zenon DEF TimerRecord

\* os_timer_create.
LEMMA CreateKeeps ==
    ASSUME TimersInv, NEW t \in OsTimers, NEW d \in Periods, NEW p \in BOOLEAN,
           os_timer_create(t, d, p)
    PROVE  TimersInv'
<1> DEFINE r == [Unset EXCEPT !.callback = TRUE, !.periodic = p, !.period = d]
<1>1. d \in Int
  BY TimersAssumption
<1>2. r \in TimerRecord /\ r.active = FALSE
  <2>1. Unset \in TimerRecord /\ Unset.active = FALSE
    BY DEF Unset, TimerRecord
  <2>2. r \in TimerRecord
    BY <1>1, <2>1, Zenon DEF TimerRecord
  <2>3. r.active = Unset.active
    BY <2>1, Zenon DEF TimerRecord
  <2> QED
    BY <2>1, <2>2, <2>3, Zenon
<1>3. os_timer' = [os_timer EXCEPT ![t] = r] /\ g_timer_list' = g_timer_list /\ ~Linked(t)
      /\ g_boot_time' = g_boot_time /\ g_time_offset' = g_time_offset /\ pass' = pass
  BY Zenon DEF os_timer_create
<1> HIDE DEF r
<1>4. ~On(g_timer_list, t)
  BY <1>3, TimerListFacts, Zenon
<1>5. InTimeOrder(g_timer_list, Expires(os_timer'))
  <2>1. \A u \in OsTimers : On(g_timer_list, u) => Expires(os_timer')[u] = Expires(os_timer)[u]
    BY <1>3, <1>4, TimerListFacts, ExpiresMoves, Zenon
  <2> QED
    BY <2>1, TimerListFacts, OrderStays, Zenon
<1>6. OnTime(r, g_time_offset)
  BY <1>2, Zenon DEF OnTime
<1> QED
  BY <1>2, <1>3, <1>4, <1>5, <1>6, TimerListFacts, OneTimerMoves, Zenon

\* os_timer_start.
LEMMA StartKeeps ==
    ASSUME TimersInv, NEW t \in OsTimers, os_timer_start(t)
    PROVE  TimersInv'
<1> DEFINE r == [os_timer[t] EXCEPT !.expire_time = time_now_us + Delay(os_timer[t]),
                                    !.active = TRUE, !.since = g_boot_time]
<1>0. os_timer[t] \in TimerRecord /\ g_boot_time \in Int /\ g_time_offset \in Int
  BY TimerListFacts, Zenon
<1>1. os_timer[t].period \in Int /\ os_timer[t].periodic \in BOOLEAN
  BY <1>0, TimerFields, Zenon
<1>2. Delay(os_timer[t]) \in Int /\ time_now_us \in Int /\ time_now_us = g_time_offset + g_boot_time
  BY <1>0, <1>1 DEF Delay, time_now_us
<1>3. r \in TimerRecord
  <2>1. time_now_us + Delay(os_timer[t]) \in Int
    BY <1>2
  <2> QED
    BY <1>0, <2>1, TimerMoved, Zenon
<1>4. /\ r.active = TRUE /\ r.expire_time = time_now_us + Delay(os_timer[t])
      /\ r.since = g_boot_time /\ r.periodic = os_timer[t].periodic /\ r.period = os_timer[t].period
  BY <1>0, Zenon DEF TimerRecord
<1>5. /\ os_timer' = [os_timer EXCEPT ![t] = r] /\ ~os_timer[t].active
      /\ g_timer_list' = timer_list_insert(g_timer_list, t, os_timer')
      /\ g_boot_time' = g_boot_time /\ g_time_offset' = g_time_offset /\ pass' = pass
  BY Zenon DEF os_timer_start
<1> HIDE DEF r
<1>6. OnTime(r, g_time_offset)
  <2>1. r.periodic => Delay(os_timer[t]) = r.period
    BY <1>4, Zenon DEF Delay
  <2>2. r.periodic => r.expire_time = g_time_offset + r.since + r.period
    BY <1>0, <1>1, <1>2, <1>4, <2>1, Zenon
  <2> QED
    BY <2>2, Zenon DEF OnTime
<1>7. ~On(g_timer_list, t) /\ os_timer' \in [OsTimers -> TimerRecord]
  <2>1. ~On(g_timer_list, t)
    BY <1>5, TimerListFacts, Zenon
  <2> QED
    BY <1>3, <1>5, <2>1, TimerListFacts, Zenon
<1>8. InTimeOrder(g_timer_list, Expires(os_timer'))
  <2>1. \A u \in OsTimers : On(g_timer_list, u) => Expires(os_timer')[u] = Expires(os_timer)[u]
    BY <1>5, <1>7, TimerListFacts, ExpiresMoves, Zenon
  <2> QED
    BY <2>1, TimerListFacts, OrderStays, Zenon
<1>9. /\ g_timer_list' \in Seq(OsTimers)
      /\ InTimeOrder(g_timer_list', Expires(os_timer'))
      /\ \A u \in OsTimers : On(g_timer_list', u) <=> u = t \/ On(g_timer_list, u)
  BY <1>5, <1>7, <1>8, TimerListFacts, InsertOrders, Zenon
<1> QED
  BY <1>3, <1>4, <1>5, <1>6, <1>9, TimerListFacts, OneTimerMoves, Zenon

\* A timer at rest is a timer.
LEMMA RestedTimer ==
    ASSUME NEW r \in TimerRecord
    PROVE  /\ Rested(r) \in TimerRecord /\ ~Rested(r).active
           /\ [Rested(r) EXCEPT !.callback = FALSE] \in TimerRecord
           /\ ~[Rested(r) EXCEPT !.callback = FALSE].active
<1>1. Rested(r) \in TimerRecord
  <2>1. 0 \in Int
    OBVIOUS
  <2> QED
    BY <2>1, Zenon DEF Rested, TimerRecord
<1>2. ~Rested(r).active
  BY Zenon DEF Rested, TimerRecord
<1> DEFINE q == Rested(r)
<1> HIDE DEF q
<1>3. q \in TimerRecord /\ ~q.active
  BY <1>1, <1>2, Zenon DEF q
<1>4. [q EXCEPT !.callback = FALSE] \in TimerRecord
  BY <1>3, Zenon DEF TimerRecord
<1>5. ~[q EXCEPT !.callback = FALSE].active
  BY <1>3, Zenon DEF TimerRecord
<1> QED
  BY <1>1, <1>2, <1>4, <1>5, Zenon DEF q

\* A timer that leaves the list and comes to rest.
LEMMA RestKeeps ==
    ASSUME TimersInv, NEW t \in OsTimers, NEW r \in TimerRecord, ~r.active,
           os_timer' = [os_timer EXCEPT ![t] = r],
           g_timer_list' \in Seq(OsTimers), InTimeOrder(g_timer_list', Expires(os_timer)),
           \A u \in OsTimers : On(g_timer_list', u) <=> On(g_timer_list, u) /\ u # t,
           g_time_offset' = g_time_offset, g_boot_time' = g_boot_time,
           pass' \in [on : BOOLEAN, now : Int, fired : Int]
    PROVE  TimersInv'
<1>1. InTimeOrder(g_timer_list', Expires(os_timer'))
  <2>1. \A u \in OsTimers : On(g_timer_list', u) => Expires(os_timer')[u] = Expires(os_timer)[u]
    BY TimerListFacts, ExpiresMoves, Zenon
  <2> DEFINE list == g_timer_list'
             y == Expires(os_timer')
  <2>2. list \in Seq(OsTimers) /\ InTimeOrder(list, Expires(os_timer))
        /\ \A u \in OsTimers : On(list, u) => y[u] = Expires(os_timer)[u]
    BY <2>1, Zenon
  <2> HIDE DEF list, y
  <2>3. InTimeOrder(list, y)
    BY <2>2, OrderStays, Zenon
  <2> QED
    BY <2>3, Zenon DEF list, y
<1>2. OnTime(r, g_time_offset)
  BY Zenon DEF OnTime
<1>3. ~On(g_timer_list', t)
  BY Zenon
<1> QED
  BY <1>1, <1>2, <1>3, OneTimerMoves, Zenon

\* os_timer_stop.
LEMMA StopKeeps ==
    ASSUME TimersInv, NEW t \in OsTimers, os_timer_stop(t)
    PROVE  TimersInv'
<1>1. /\ os_timer' = [os_timer EXCEPT ![t] = Rested(os_timer[t])] /\ Linked(t)
      /\ g_timer_list' = Without(g_timer_list, First({i \in 1..Len(g_timer_list) : g_timer_list[i] = t}))
      /\ g_boot_time' = g_boot_time /\ g_time_offset' = g_time_offset /\ pass' = pass
  BY Zenon DEF os_timer_stop, Stops
<1>2. Rested(os_timer[t]) \in TimerRecord /\ ~Rested(os_timer[t]).active
  BY TimerListFacts, RestedTimer, Zenon
<1>3. /\ g_timer_list' \in Seq(OsTimers) /\ InTimeOrder(g_timer_list', Expires(os_timer))
      /\ \A u \in OsTimers : On(g_timer_list', u) <=> On(g_timer_list, u) /\ u # t
  BY <1>1, TimerListFacts, StopUnlinks, Zenon DEF TimersInv
<1> QED
  BY <1>1, <1>2, <1>3, TimerListFacts, RestKeeps, Zenon

\* os_timer_delete.
LEMMA DeleteKeeps ==
    ASSUME TimersInv, NEW t \in OsTimers, os_timer_delete(t)
    PROVE  TimersInv'
<1>1. g_boot_time' = g_boot_time /\ g_time_offset' = g_time_offset /\ pass' = pass
  BY Zenon DEF os_timer_delete
<1>2. CASE Stops(t)
  <2> DEFINE r == [Rested(os_timer[t]) EXCEPT !.callback = FALSE]
  <2>1. /\ os_timer' = [os_timer EXCEPT ![t] = r] /\ Linked(t)
        /\ g_timer_list' = Without(g_timer_list, First({i \in 1..Len(g_timer_list) : g_timer_list[i] = t}))
    BY <1>2, Zenon DEF os_timer_delete, Stops
  <2>2. r \in TimerRecord /\ ~r.active
    BY TimerListFacts, RestedTimer, Zenon
  <2> HIDE DEF r
  <2>3. /\ g_timer_list' \in Seq(OsTimers) /\ InTimeOrder(g_timer_list', Expires(os_timer))
        /\ \A u \in OsTimers : On(g_timer_list', u) <=> On(g_timer_list, u) /\ u # t
    BY <2>1, TimerListFacts, StopUnlinks, Zenon DEF TimersInv
  <2> QED
    BY <1>1, <2>1, <2>2, <2>3, TimerListFacts, RestKeeps, Zenon
<1>3. CASE ~Stops(t)
  <2> DEFINE r == [os_timer[t] EXCEPT !.callback = FALSE]
  <2>1. os_timer' = [os_timer EXCEPT ![t] = r] /\ g_timer_list' = g_timer_list
    BY <1>3, Zenon DEF os_timer_delete
  <2>2. os_timer[t] \in TimerRecord
    BY TimerListFacts, Zenon
  <2>3. r \in TimerRecord
    BY <2>2, Zenon DEF TimerRecord
  <2>4. r.active = os_timer[t].active
    BY <2>2, Zenon DEF TimerRecord
  <2> HIDE DEF r
  <2>5. ~r.active /\ ~On(g_timer_list, t)
    BY <1>3, <2>4, TimerListFacts, Zenon DEF Stops
  <2> QED
    BY <1>1, <2>1, <2>3, <2>5, TimerListFacts, RestKeeps, Zenon
<1> QED
  BY <1>2, <1>3, Zenon

\* One step of timers_process: the head of the list fires.
LEMMA ExpireKeeps ==
    ASSUME TimersInv, Expire
    PROVE  TimersInv'
<1> DEFINE t == g_timer_list[1]
           rest == Tail(g_timer_list)
<1>1. /\ g_timer_list # <<>> /\ os_timer[t].expire_time <= pass.now
      /\ g_boot_time' = g_boot_time /\ g_time_offset' = g_time_offset
      /\ pass' = [pass EXCEPT !.fired = @ + 1]
  BY Zenon DEF Expire, DueHead
<1>2. /\ os_timer \in [OsTimers -> TimerRecord] /\ g_timer_list \in Seq(OsTimers)
      /\ g_boot_time \in Int /\ g_time_offset \in Int
      /\ pass \in [on : BOOLEAN, now : Int, fired : Int]
  BY TimerListFacts, Zenon
<1>3. pass' \in [on : BOOLEAN, now : Int, fired : Int] /\ pass.now \in Int
  BY <1>1, <1>2, SMTT(30)
<1>4. t \in OsTimers /\ 1 \in 1..Len(g_timer_list)
  BY <1>1, <1>2
<1>5. /\ rest \in Seq(OsTimers) /\ Len(rest) = Len(g_timer_list) - 1
      /\ \A i \in 1..(Len(g_timer_list) - 1) :
           rest[i] = IF i < 1 THEN g_timer_list[i] ELSE g_timer_list[i + 1]
  BY <1>1, <1>2
<1>6. /\ InTimeOrder(rest, Expires(os_timer))
      /\ \A u \in OsTimers : On(rest, u) <=> On(g_timer_list, u) /\ u # t
  <2> HIDE DEF rest
  <2> QED
    BY <1>2, <1>4, <1>5, TimerListFacts, RemoveOrders, ZenonT(40)
<1>7. On(g_timer_list, t)
  BY <1>4, Zenon DEF On
<1>8. os_timer[t] \in TimerRecord
  BY <1>2, <1>4, Zenon
<1>9. CASE ~os_timer[t].periodic
  <2>1. os_timer' = [os_timer EXCEPT ![t] = Rested(os_timer[t])] /\ g_timer_list' = rest
    BY <1>9, Zenon DEF Expire
  <2>2. Rested(os_timer[t]) \in TimerRecord /\ ~Rested(os_timer[t]).active
    BY <1>8, RestedTimer, Zenon
  <2> HIDE DEF t, rest
  <2> QED
    BY <1>1, <1>3, <1>4, <1>5, <1>6, <2>1, <2>2, RestKeeps, Zenon
<1>10. CASE os_timer[t].periodic
  <2> DEFINE old == os_timer[t]
             early == /\ old.since # Unknown /\ pass.now = time_now_us
                      /\ g_boot_time < old.since + old.period
             since == IF pass.now = time_now_us THEN g_boot_time ELSE Unknown
             r == [old EXCEPT !.expire_time = pass.now + old.period, !.since = since,
                              !.early = @ \/ early]
  <2>1. os_timer' = [os_timer EXCEPT ![t] = r] /\ g_timer_list' = timer_list_insert(rest, t, os_timer')
    BY <1>10, Zenon DEF Expire
  <2>2. old \in TimerRecord /\ old.active
    BY <1>4, <1>7, <1>8, TimerListFacts, Zenon
  <2>3. /\ old.expire_time \in Int /\ old.period \in Int /\ old.since \in Int /\ old.early = FALSE
    BY <2>2, TimerFields, Zenon
  <2>4. ~early
    <3>1. SUFFICES ASSUME old.since # Unknown, pass.now = time_now_us
                   PROVE  ~(g_boot_time < old.since + old.period)
      BY Zenon
    <3>2. old.expire_time = g_time_offset + old.since + old.period
      BY <1>4, <1>10, <2>2, <3>1, TimerListFacts, Zenon DEF OnTime
    <3>3. old.expire_time <= g_time_offset + g_boot_time
      BY <1>1, <3>1, Zenon DEF time_now_us
    <3> HIDE DEF old
    <3> QED
      BY <1>2, <2>3, <3>2, <3>3, SMTT(30)
  <2>5. since \in Int
    BY <1>2 DEF Unknown
  <2> HIDE DEF early, since
  <2>6. r = [old EXCEPT !.expire_time = pass.now + old.period, !.since = since, !.early = FALSE]
    BY <2>2, <2>3, <2>4, Zenon
  <2>7. /\ r.active = old.active /\ r.periodic = old.periodic /\ r.period = old.period
        /\ r.expire_time = pass.now + old.period /\ r.since = since
    BY <2>2, <2>6, Zenon DEF TimerRecord
  <2>8. r \in TimerRecord
    <3>1. pass.now + old.period \in Int
      BY <1>3, <2>3
    <3> HIDE DEF r, old
    <3> QED
      BY <2>2, <2>5, <2>6, <3>1, Zenon DEF TimerRecord
  <2> HIDE DEF r
  <2>9. OnTime(r, g_time_offset)
    <3>1. since # Unknown => since = g_boot_time /\ pass.now = g_time_offset + g_boot_time
      BY Zenon DEF since, time_now_us
    <3>2. r.since # Unknown => r.expire_time = g_time_offset + r.since + r.period
      BY <1>2, <1>3, <2>3, <2>7, <3>1, Zenon
    <3> QED
      BY <3>2, Zenon DEF OnTime
  <2> HIDE DEF old
  <2>10. os_timer' \in [OsTimers -> TimerRecord] /\ ~On(rest, t)
    BY <1>2, <1>4, <1>6, <2>1, <2>8, Zenon
  <2>11. r.active
    BY <2>2, <2>7, Zenon
  <2> HIDE DEF t, rest
  <2>12. InTimeOrder(rest, Expires(os_timer'))
    <3>1. \A u \in OsTimers : On(rest, u) => Expires(os_timer')[u] = Expires(os_timer)[u]
      BY <1>2, <1>4, <1>6, <2>1, ExpiresMoves, Zenon
    <3> DEFINE y == Expires(os_timer')
    <3>2. \A u \in OsTimers : On(rest, u) => y[u] = Expires(os_timer)[u]
      BY <3>1, Zenon
    <3> HIDE DEF y
    <3>3. rest \in Seq(OsTimers) /\ InTimeOrder(rest, Expires(os_timer))
      BY <1>5, <1>6, Zenon
    <3>4. InTimeOrder(rest, y)
      BY ONLY <3>2, <3>3, OrderStays, Zenon
    <3> QED
      BY <3>4, Zenon DEF y
  <2>13. /\ g_timer_list' \in Seq(OsTimers)
         /\ InTimeOrder(g_timer_list', Expires(os_timer'))
         /\ \A u \in OsTimers : On(g_timer_list', u) <=> u = t \/ On(rest, u)
    BY <1>4, <1>5, <2>1, <2>10, <2>12, InsertOrders, Zenon
  <2> QED
    BY <1>1, <1>3, <1>4, <1>6, <2>1, <2>8, <2>9, <2>11, <2>13, OneTimerMoves, Zenon
<1> QED
  BY <1>9, <1>10, Zenon

\* The clock is fed, or set: a timer that waits no longer knows since when.
LEMMA ClockKeeps ==
    ASSUME TimersInv,
           \/ \E us \in 1..LastBoot : time_set_now_us(us)
           \/ \E epoch \in RtcTimes : time_rtc_set(epoch)
    PROVE  TimersInv'
<1>0. TimersTypes
  BY Zenon DEF TimersInv
<1>1. CASE \E us \in 1..LastBoot : time_set_now_us(us)
  <2>1. /\ g_boot_time' \in Int
        /\ UNCHANGED <<g_time_offset, os_timer, g_timer_list, pass>>
    BY <1>1, TimersAssumption DEF time_set_now_us
  <2>2. TimersTypes'
    BY <1>0, <2>1, Zenon DEF TimersTypes
  <2> QED
    BY <2>1, <2>2, Zenon DEF TimersInv, ListInv, OnTime
<1>2. CASE \E epoch \in RtcTimes : time_rtc_set(epoch)
  <2>1. PICK epoch \in RtcTimes : time_rtc_set(epoch)
    BY <1>2, Zenon
  <2> DEFINE s(t) == IF os_timer[t].active THEN Unknown ELSE 0
  <2>2. /\ g_time_offset' = epoch - g_boot_time
        /\ os_timer' = [t \in OsTimers |-> [os_timer[t] EXCEPT !.since = s(t)]]
        /\ UNCHANGED <<g_boot_time, g_timer_list, pass>>
    BY <2>1, Zenon DEF time_rtc_set
  <2>3. \A t \in OsTimers : s(t) \in Int /\ (os_timer[t].active => s(t) = Unknown)
    BY DEF Unknown
  <2> HIDE DEF s
  <2>4. ASSUME NEW t \in OsTimers
        PROVE  /\ os_timer'[t] \in TimerRecord /\ os_timer'[t].active = os_timer[t].active
               /\ os_timer'[t].expire_time = os_timer[t].expire_time
               /\ os_timer'[t].since = s(t)
    <3>1. os_timer[t] \in TimerRecord /\ s(t) \in Int
      BY <1>0, <2>3, Zenon DEF TimersTypes
    <3>2. os_timer'[t] = [os_timer[t] EXCEPT !.since = s(t)]
      BY <2>2, Zenon
    <3>3. os_timer'[t] \in TimerRecord
      BY <3>1, <3>2, Zenon DEF TimerRecord
    <3>4. /\ os_timer'[t].expire_time = os_timer[t].expire_time
          /\ os_timer'[t].since = s(t) /\ os_timer'[t].active = os_timer[t].active
      BY <3>1, <3>2, Zenon DEF TimerRecord
    <3> QED
      BY <3>3, <3>4, Zenon
  <2>5. TimersTypes'
    <3>1. DOMAIN os_timer' = OsTimers
      BY <2>2, Zenon
    <3>2. os_timer' \in [OsTimers -> TimerRecord]
      <4>1. os_timer' = [t \in OsTimers |-> os_timer'[t]]
        BY <2>2, Zenon
      <4> QED
        BY <2>4, <4>1, Zenon
    <3>3. g_time_offset' \in Int
      BY <1>0, <2>2, TimersAssumption, SMTT(30) DEF TimersTypes
    <3> QED
      BY <1>0, <2>2, <3>2, <3>3, Zenon DEF TimersTypes
  <2>6. Expires(os_timer') = Expires(os_timer)
    BY <2>4, Zenon DEF Expires
  <2>7. ListInv(g_timer_list', os_timer')
    BY <2>2, <2>4, <2>6, Zenon DEF TimersInv, ListInv
  <2>8. \A t \in OsTimers : OnTime(os_timer'[t], g_time_offset')
    BY <2>3, <2>4, Zenon DEF OnTime
  <2> QED
    BY <2>5, <2>7, <2>8, Zenon DEF TimersInv, ListInv, OnTime
<1> QED
  BY <1>1, <1>2, Zenon

\* Every step keeps the invariant.
LEMMA TimersNextInv == TimersInv /\ [TimersNext]_tmrVars => TimersInv'
<1> SUFFICES ASSUME TimersInv, [TimersNext]_tmrVars PROVE TimersInv'
  BY Zenon
<1>1. CASE \E t \in OsTimers, d \in Periods, p \in BOOLEAN : os_timer_create(t, d, p)
  BY <1>1, CreateKeeps, Zenon
<1>2. CASE \E t \in OsTimers : os_timer_start(t) \/ os_timer_stop(t) \/ os_timer_delete(t)
  BY <1>2, StartKeeps, StopKeeps, DeleteKeeps, Zenon
<1>3. CASE timers_process \/ PassEnds
  <2>1. UNCHANGED <<g_boot_time, g_time_offset, os_timer, g_timer_list>>
    BY <1>3, Zenon DEF timers_process, PassEnds
  <2>2. pass' \in [on : BOOLEAN, now : Int, fired : Int]
    <3>1. time_now_us \in Int
      BY DEF time_now_us, TimersInv, TimersTypes
    <3>2. CASE timers_process
      BY <3>1, <3>2 DEF timers_process
    <3>3. CASE PassEnds
      BY <3>3 DEF PassEnds, Idle
    <3> QED
      BY <1>3, <3>2, <3>3, Zenon
  <2> QED
    BY <2>1, <2>2, Zenon DEF TimersInv, TimersTypes, ListInv, OnTime
<1>4. CASE Expire
  BY <1>4, ExpireKeeps, Zenon
<1>5. CASE \/ \E us \in 1..LastBoot : time_set_now_us(us)
           \/ \E epoch \in RtcTimes : time_rtc_set(epoch)
  BY <1>5, ClockKeeps, Zenon
<1>6. CASE UNCHANGED tmrVars
  BY <1>6, Zenon DEF tmrVars, TimersInv, TimersTypes, ListInv, OnTime
<1> QED
  BY <1>1, <1>2, <1>3, <1>4, <1>5, <1>6, Zenon DEF TimersNext

\* A started timer of os_time.c is on the list, in the place of its expiry, until
\* it is stopped or fires, and no periodic timer fires early, for any number of
\* timers and any periods.
THEOREM TimersAreKept == TimersSpec => []TimersKept
<1>1. TimersInv => TimersKept
  <2> SUFFICES ASSUME TimersInv PROVE TimersKept
    BY Zenon
  <2>1. NeverEarly
    BY TimerListFacts, TimerFields, Zenon DEF NeverEarly
  <2>2. \A t \in OsTimers : os_timer[t].active <=> Linked(t)
    BY TimerListFacts, Zenon
  <2>3. \A i, j \in 1..Len(g_timer_list) : i < j =>
          /\ g_timer_list[i] # g_timer_list[j]
          /\ os_timer[g_timer_list[i]].expire_time <= os_timer[g_timer_list[j]].expire_time
    <3>1. \A u \in OsTimers : Expires(os_timer)[u] = os_timer[u].expire_time
      BY Zenon DEF Expires
    <3>2. \A i \in 1..Len(g_timer_list) : g_timer_list[i] \in OsTimers
      BY DEF TimersInv, TimersTypes
    <3>3. InTimeOrder(g_timer_list, Expires(os_timer))
      BY TimerListFacts, Zenon
    <3> QED
      BY <3>1, <3>2, <3>3, Zenon DEF InTimeOrder
  <2> QED
    BY <2>1, <2>2, <2>3, Zenon DEF TimersKept, TimerListExact
<1> QED
  BY <1>1, TimersInitInv, TimersNextInv, PTL DEF TimersSpec

-----------------------------------------------------------------------------
(* The sensors.                                                            *)

SensorKeys == {s.key : s \in KnownSensors} \cup {""}
SensorTypes == {s.type : s \in KnownSensors} \cup {""}
SlotRecord == [used : BOOLEAN, key : SensorKeys, type : SensorTypes, refresh_ms : Nat,
               hw : BOOLEAN, value : Nat, sampled_ms : Nat, has_sample : BOOLEAN]
SlotTable == [SensorSlots -> SlotRecord]

\* A slot that is not used has no converter; a sample is no older than the boot,
\* and its time is shown modulo MsMod.
SlotSound(cell) ==
    /\ cell.hw => cell.used
    /\ cell.has_sample => cell.value <= sensor_ms /\ cell.sampled_ms = cell.value % MsMod

SensorsInv ==
    /\ SensorsKept
    /\ g_slots \in SlotTable
    /\ sensor_ms \in Nat
    /\ \A i \in SensorSlots : SlotSound(g_slots[i])

\* Every slot holds what it held, or a sensor without a sample in place of nothing.
OnlyAdded(slots, more) ==
    /\ more \in SlotTable
    /\ \A i \in SensorSlots :
         \/ more[i] = slots[i]
         \/ ~slots[i].used /\ more[i].used /\ ~more[i].hw /\ ~more[i].has_sample

\* The empty slot is a slot.
LEMMA UnusedIsSlot == Unused \in SlotRecord /\ ~Unused.hw /\ ~Unused.has_sample
<1>1. "" \in SensorKeys /\ "" \in SensorTypes /\ 0 \in Nat
  BY Zenon DEF SensorKeys, SensorTypes
<1> QED BY <1>1, Zenon DEF Unused, SlotRecord

\* sensor_service_add takes a slot nobody uses, or leaves the table alone.
LEMMA AddOnlyAdds ==
    ASSUME NEW slots \in SlotTable, NEW s \in KnownSensors
    PROVE  OnlyAdded(slots, sensor_service_add(slots, s))
<1> DEFINE free == {i \in SensorSlots : ~slots[i].used}
           new == [used |-> TRUE, key |-> s.key, type |-> s.type, refresh_ms |-> s.refresh_ms,
                   hw |-> FALSE, value |-> 0, sampled_ms |-> 0, has_sample |-> FALSE]
<1>1. CASE find_slot(slots, s.key) # {} \/ free = {}
  BY <1>1, Zenon DEF sensor_service_add, OnlyAdded
<1>2. CASE ~(find_slot(slots, s.key) # {} \/ free = {})
  <2>1. First(free) \in SensorSlots /\ ~slots[First(free)].used
    <3>1. free # {} /\ free \subseteq Nat
      BY <1>2, SensorsAssumption, Zenon
    <3>2. First(free) \in free
      BY <3>1, FirstIsFirst, Zenon
    <3> QED BY <3>2, Zenon
  <2>2. new \in SlotRecord
    <3>1. s.key \in SensorKeys /\ s.type \in SensorTypes /\ s.refresh_ms \in Nat
      BY SensorsAssumption, Zenon DEF SensorKeys, SensorTypes
    <3> QED BY <3>1, Zenon DEF SlotRecord
  <2>3. sensor_service_add(slots, s) = [slots EXCEPT ![First(free)] = new]
    BY <1>2, Zenon DEF sensor_service_add, NewSensor
  <2>4. [slots EXCEPT ![First(free)] = new] \in SlotTable
    BY <2>1, <2>2, Zenon DEF SlotTable
  <2>5. new.used /\ ~new.hw /\ ~new.has_sample
    BY Zenon
  <2> HIDE DEF free, new
  <2>6. \A i \in SensorSlots : [slots EXCEPT ![First(free)] = new][i]
                                 = IF i = First(free) THEN new ELSE slots[i]
    BY Zenon DEF SlotTable
  <2> QED BY <2>1, <2>3, <2>4, <2>5, <2>6, Zenon DEF OnlyAdded
<1> QED BY <1>1, <1>2, Zenon

\* Adding in two goes is adding.
LEMMA AddedTwice ==
    ASSUME NEW a, NEW b, NEW c, OnlyAdded(a, b), OnlyAdded(b, c)
    PROVE  OnlyAdded(a, c)
BY Zenon DEF OnlyAdded

\* The loop of sensor_service_load_builtin, up to its n-th turn.
IsLoad(f, slots, n) ==
    f = [k \in 0..n |-> IF k = 0 THEN slots ELSE sensor_service_add(f[k - 1], Known[k])]

\* The loop can be run to any turn.
LEMMA LoadRuns ==
    ASSUME NEW slots
    PROVE  \A n \in Nat : \E f : IsLoad(f, slots, n)
<1> DEFINE Bad == {n \in Nat : ~ \E f : IsLoad(f, slots, n)}
           m == First(Bad)
<1>1. SUFFICES ASSUME Bad # {} PROVE FALSE
  BY Zenon
<1>2. m \in Bad /\ \A y \in Bad : m <= y
  BY <1>1, FirstIsFirst, Zenon
<1>3. m \in Nat /\ (~ \E f : IsLoad(f, slots, m)) /\ \A y \in Nat : y < m => \E f : IsLoad(f, slots, y)
  BY <1>2
<1> HIDE DEF Bad, m
<1>4. CASE m = 0
  <2> DEFINE g == [k \in 0..0 |-> slots]
  <2>1. IsLoad(g, slots, 0)
    BY DEF IsLoad
  <2> QED BY <1>3, <1>4, <2>1, Zenon
<1>5. CASE m # 0
  <2>1. PICK f : IsLoad(f, slots, m - 1)
    BY <1>3, <1>5
  <2> DEFINE last == sensor_service_add(f[m - 1], Known[m])
             g == [k \in 0..m |-> IF k = m THEN last ELSE f[k]]
  <2>2. \A k \in 0..(m - 1) : f[k] = IF k = 0 THEN slots ELSE sensor_service_add(f[k - 1], Known[k])
    BY <2>1, Zenon DEF IsLoad
  <2>3. \A k \in 0..m : g[k] = IF k = m THEN last ELSE f[k]
    BY Zenon
  <2>4. last = sensor_service_add(g[m - 1], Known[m])
    BY <1>3, <1>5, <2>3
  <2>5. ASSUME NEW k \in 0..m
        PROVE  g[k] = IF k = 0 THEN slots ELSE sensor_service_add(g[k - 1], Known[k])
    <3>1. CASE k = m
      BY <1>5, <2>3, <2>4, <3>1, Zenon
    <3>2. CASE k # m
      <4>1. k \in 0..(m - 1) /\ (k # 0 => k - 1 \in 0..m /\ k - 1 # m)
        BY <1>3, <3>2
      <4> QED BY <2>2, <2>3, <3>2, <4>1, Zenon
    <3> QED BY <3>1, <3>2, Zenon
  <2>6. g = [k \in 0..m |-> g[k]]
    BY Zenon
  <2> HIDE DEF g, last
  <2>7. IsLoad(g, slots, m)
    BY <2>5, <2>6, Zenon DEF IsLoad
  <2> QED BY <1>3, <2>7, Zenon
<1> QED BY <1>4, <1>5, Zenon

\* Every turn of the loop leaves a table with sensors added to the first.
LEMMA LoadOnlyAdds ==
    ASSUME NEW slots \in SlotTable
    PROVE  OnlyAdded(slots, Loaded(slots)[Len(Known)])
<1> DEFINE L == Len(Known)
           f == Loaded(slots)
<1>1. L \in Nat /\ \A k \in 1..L : Known[k] \in KnownSensors
  BY SensorsAssumption DEF KnownSensors
<1>2. IsLoad(f, slots, L)
  <2>1. f = CHOOSE g : IsLoad(g, slots, L)
    BY Zenon DEF Loaded, IsLoad
  <2>2. \E g : IsLoad(g, slots, L)
    BY <1>1, LoadRuns, Zenon
  <2> HIDE DEF f, L
  <2> QED BY <2>1, <2>2, Zenon
<1> HIDE DEF f, L
<1>3. \A k \in 0..L : f[k] = IF k = 0 THEN slots ELSE sensor_service_add(f[k - 1], Known[k])
  BY <1>2, Zenon DEF IsLoad
<1> DEFINE Bad == {n \in 0..L : ~OnlyAdded(slots, f[n])}
           m == First(Bad)
<1>4. SUFFICES ASSUME Bad # {} PROVE FALSE
  BY <1>1 DEF f, L
<1>5. m \in Bad /\ \A y \in Bad : m <= y
  BY <1>4, FirstIsFirst
<1>6. m \in 0..L /\ ~OnlyAdded(slots, f[m]) /\ \A y \in 0..L : y < m => OnlyAdded(slots, f[y])
  BY <1>1, <1>5
<1> HIDE DEF Bad, m
<1>7. m # 0
  BY <1>3, <1>6, Zenon DEF OnlyAdded
<1>8. m - 1 \in 0..L /\ m - 1 < m /\ m \in 1..L
  BY <1>1, <1>6, <1>7
<1>9. OnlyAdded(slots, f[m - 1]) /\ f[m] = sensor_service_add(f[m - 1], Known[m])
  BY <1>3, <1>6, <1>7, <1>8, Zenon
<1>10. OnlyAdded(f[m - 1], f[m])
  BY <1>1, <1>8, <1>9, AddOnlyAdds DEF OnlyAdded
<1> QED BY <1>6, <1>9, <1>10, AddedTwice, Zenon

-----------------------------------------------------------------------------
\* Nothing is open and nothing sampled before the first call.
LEMMA SensorsStart == SensorsInit => SensorsInv
<1> SUFFICES ASSUME SensorsInit PROVE SensorsInv
  BY Zenon
<1>1. \A i \in SensorSlots : g_slots[i] = Unused
  BY Zenon DEF SensorsInit
<1>2. g_slots \in SlotTable
  BY UnusedIsSlot, Zenon DEF SensorsInit, SlotTable
<1>3. SensorsKept
  BY <1>1, UnusedIsSlot, Zenon DEF SensorsInit, SensorsKept, ReadingsAreFresh, ConvertersAreHeld
<1>4. \A i \in SensorSlots : SlotSound(g_slots[i])
  BY <1>1, UnusedIsSlot, Zenon DEF SlotSound
<1> QED BY <1>2, <1>3, <1>4, Zenon DEF SensorsInit, SensorsInv

\* A table with sensors added is as sound as it was.
LEMMA AddedKeeps ==
    ASSUME SensorsInv, OnlyAdded(g_slots, g_slots'),
           UNCHANGED <<g_temp, g_cpu_ready, adc_open, esp32, sensor_ms, sensor_stale>>
    PROVE  SensorsInv'
<1>1. \A i \in SensorSlots : g_slots'[i].hw = g_slots[i].hw
  BY DEF OnlyAdded, SensorsInv, SlotSound, SlotTable, SlotRecord
<1>2. SensorsKept'
  BY <1>1, Zenon DEF SensorsInv, SensorsKept, ReadingsAreFresh, ConvertersAreHeld
<1>3. \A i \in SensorSlots : SlotSound(g_slots[i])'
  BY Zenon DEF OnlyAdded, SensorsInv, SlotSound
<1> QED BY <1>2, <1>3, Zenon DEF SensorsInv, OnlyAdded

\* What a counter shows as elapsed since it showed y.
LEMMA ElapsedSince ==
    ASSUME NEW n \in Nat \ {0}, NEW x \in Nat, NEW y \in Nat, y <= x, x - y < n
    PROVE  (x - (y % n)) % n = x - y
<1> DEFINE q == y \div n
           t == y % n
           d == x - y
<1>1. y = n * q + t /\ t \in 0..(n - 1) /\ q \in Int
  BY Turns
<1>2. d \in 0..(n - 1)
  OBVIOUS
<1>3. x - t = n * q + d
  BY <1>1
<1>4. (n * q + d) % n = d
  BY <1>1, <1>2, ShownAfterTurns, Zenon
<1> HIDE DEF q, t, d
<1>5. (x - t) % n = d
  BY <1>3, <1>4, Zenon
<1> QED BY <1>5, Zenon DEF t, d

\* A cached sample is within its time: what the counter shows as elapsed is what
\* has elapsed, unless it went all the way round.
LEMMA CachedIsFresh ==
    ASSUME SensorsInv, NEW i \in SensorSlots, Cached(g_slots[i])
    PROVE  ~PastItsTime(g_slots[i])
<1> DEFINE v == g_slots[i].value
           r == g_slots[i].refresh_ms
<1>1. /\ v \in Nat /\ r \in Nat /\ sensor_ms \in Nat /\ MsMod \in Nat \ {0}
      /\ v <= sensor_ms /\ (sensor_ms - (v % MsMod)) % MsMod < r
  BY SensorsAssumption, Zenon DEF SensorsInv, SlotTable, SlotRecord, SlotSound, Cached
<1> HIDE DEF v, r
<1>2. CASE sensor_ms - v < MsMod
  <2>1. (sensor_ms - (v % MsMod)) % MsMod = sensor_ms - v
    BY <1>1, <1>2, ElapsedSince, SMTT(30)
  <2> QED BY <1>1, <2>1 DEF PastItsTime, v, r
<1>3. CASE ~(sensor_ms - v < MsMod)
  BY <1>3, Zenon DEF PastItsTime, v
<1> QED BY <1>2, <1>3, Zenon

\* A read keeps the table sound: it answers from a cached sample that is within
\* its time, or takes a sample of its own and opens no converter but its slot's.
LEMMA GetKeeps ==
    ASSUME SensorsInv, NEW key, NEW ok, sensor_get(key, ok)
    PROVE  SensorsInv'
<1>1. PICK i \in find_slot(g_slots, key) :
        LET at_i == g_slots[i]
            good == CASE at_i.type = "temp" -> TempOk(ok)
                      [] at_i.type = "adc"  -> ok = "all"
                      [] OTHER              -> TRUE
        IN
        /\ IF Cached(at_i)
           THEN /\ sensor_stale' = (sensor_stale \/ PastItsTime(at_i))
                /\ UNCHANGED <<g_slots, g_temp, g_cpu_ready, adc_open>>
           ELSE /\ CASE at_i.type = "temp" -> sample_temp(ok)
                     [] at_i.type = "adc"  -> sample_hw(i, ok)
                     [] OTHER              -> sample_meter(at_i.type)
                /\ g_slots' = [g_slots EXCEPT ![i] =
                     [used |-> TRUE, key |-> at_i.key, type |-> at_i.type,
                      refresh_ms |-> at_i.refresh_ms, hw |-> i \in adc_open',
                      value      |-> IF good THEN sensor_ms ELSE at_i.value,
                      sampled_ms |-> IF good THEN sensor_ms % MsMod ELSE at_i.sampled_ms,
                      has_sample |-> good \/ at_i.has_sample]]
                /\ UNCHANGED sensor_stale
        /\ UNCHANGED <<esp32, sensor_ms>>
  BY Zenon DEF sensor_get
<1>2. i \in SensorSlots /\ g_slots[i].used
  BY Zenon DEF find_slot
<1>3. CASE Cached(g_slots[i])
  <2>1. /\ sensor_stale' = (sensor_stale \/ PastItsTime(g_slots[i]))
        /\ UNCHANGED <<g_slots, adc_open, sensor_ms>>
    BY <1>1, <1>3, Zenon
  <2>2. ~PastItsTime(g_slots[i])
    BY <1>2, <1>3, CachedIsFresh, Zenon
  <2>3. SensorsKept'
    BY <2>1, <2>2, Zenon DEF SensorsInv, SensorsKept, ReadingsAreFresh, ConvertersAreHeld
  <2>4. \A j \in SensorSlots : SlotSound(g_slots[j])'
    BY <2>1, Zenon DEF SensorsInv, SlotSound
  <2> QED BY <2>1, <2>3, <2>4, Zenon DEF SensorsInv
<1>4. CASE ~Cached(g_slots[i])
  <2> DEFINE at_i == g_slots[i]
             good == CASE at_i.type = "temp" -> TempOk(ok)
                       [] at_i.type = "adc"  -> ok = "all"
                       [] OTHER              -> TRUE
             new == [used |-> TRUE, key |-> at_i.key, type |-> at_i.type,
                     refresh_ms |-> at_i.refresh_ms, hw |-> i \in adc_open',
                     value      |-> IF good THEN sensor_ms ELSE at_i.value,
                     sampled_ms |-> IF good THEN sensor_ms % MsMod ELSE at_i.sampled_ms,
                     has_sample |-> good \/ at_i.has_sample]
  <2>1. /\ g_slots' = [g_slots EXCEPT ![i] = new]
        /\ sensor_stale' = sensor_stale /\ sensor_ms' = sensor_ms
        /\ CASE at_i.type = "temp" -> sample_temp(ok)
             [] at_i.type = "adc"  -> sample_hw(i, ok)
             [] OTHER              -> sample_meter(at_i.type)
    BY <1>1, <1>4, Zenon
  <2>2. adc_open' = adc_open \/ adc_open' = adc_open \cup {i}
    BY <2>1, Zenon DEF sample_temp, sample_hw, sample_meter
  <2>3. good \in BOOLEAN
    BY Zenon DEF TempOk
  <2>4. /\ at_i \in SlotRecord /\ at_i.refresh_ms \in Nat /\ at_i.value \in Nat
        /\ at_i.sampled_ms \in Nat /\ at_i.has_sample \in BOOLEAN
        /\ at_i.key \in SensorKeys /\ at_i.type \in SensorTypes
        /\ sensor_ms \in Nat /\ sensor_ms % MsMod \in Nat
        /\ at_i.has_sample => at_i.value <= sensor_ms /\ at_i.sampled_ms = at_i.value % MsMod
    BY <1>2, SensorsAssumption, SMTT(30) DEF SensorsInv, SlotTable, SlotRecord, SlotSound
  <2>5. new \in SlotRecord
    <3> HIDE DEF good, at_i
    <3> QED BY <2>3, <2>4 DEF SlotRecord
  <2>6. /\ new.used /\ new.hw = (i \in adc_open') /\ new.has_sample = (good \/ at_i.has_sample)
        /\ new.value = (IF good THEN sensor_ms ELSE at_i.value)
        /\ new.sampled_ms = (IF good THEN sensor_ms % MsMod ELSE at_i.sampled_ms)
    <3> HIDE DEF good, at_i
    <3> QED BY Zenon
  <2> HIDE DEF new, good
  <2>7. g_slots' \in SlotTable /\ \A j \in SensorSlots : g_slots'[j] = IF j = i THEN new ELSE g_slots[j]
    BY <1>2, <2>1, <2>5, Zenon DEF SensorsInv, SlotTable
  <2>8. ASSUME NEW j \in SensorSlots PROVE SlotSound(g_slots[j])'
    <3>1. CASE j = i
      <4>1. g_slots'[j] = new
        BY <2>7, <3>1, Zenon
      <4>2. new.has_sample => new.value <= sensor_ms /\ new.sampled_ms = new.value % MsMod
        BY <2>3, <2>4, <2>6
      <4> QED BY <2>1, <2>6, <4>1, <4>2, Zenon DEF SlotSound
    <3>2. CASE j # i
      BY <2>1, <2>7, <3>2, Zenon DEF SensorsInv, SlotSound
    <3> QED BY <3>1, <3>2, Zenon
  <2>9. ConvertersAreHeld'
    <3>1. \A j \in SensorSlots : j # i => (g_slots'[j].hw <=> j \in adc_open)
      BY <2>7, Zenon DEF SensorsInv, SensorsKept, ConvertersAreHeld
    <3>2. g_slots'[i].hw <=> i \in adc_open'
      BY <1>2, <2>6, <2>7, Zenon
    <3>3. adc_open \subseteq SensorSlots
      BY Zenon DEF SensorsInv, SensorsKept, ConvertersAreHeld
    <3> QED BY <1>2, <2>2, <3>1, <3>2, <3>3, Zenon DEF ConvertersAreHeld
  <2> QED BY <2>1, <2>4, <2>7, <2>8, <2>9, Zenon DEF SensorsInv, SensorsKept, ReadingsAreFresh
<1> QED BY <1>3, <1>4, Zenon

\* A reset closes the converters of the slots it empties, which are all of them.
LEMMA ResetKeeps == SensorsInv /\ sensor_service_reset => SensorsInv'
<1> SUFFICES ASSUME SensorsInv, sensor_service_reset PROVE SensorsInv'
  BY Zenon
<1>1. \A i \in SensorSlots : g_slots'[i] = Unused
  BY Zenon DEF sensor_service_reset
<1>2. g_slots' \in SlotTable
  BY UnusedIsSlot, Zenon DEF sensor_service_reset, SlotTable
<1>3. adc_open' = {}
  BY Zenon DEF sensor_service_reset, Closed, SensorsInv, SensorsKept, ConvertersAreHeld
<1>4. SensorsKept'
  BY <1>1, <1>3, UnusedIsSlot, Zenon DEF sensor_service_reset, SensorsInv, SensorsKept, ReadingsAreFresh, ConvertersAreHeld
<1>5. \A i \in SensorSlots : SlotSound(g_slots[i])'
  BY <1>1, UnusedIsSlot, Zenon DEF SlotSound
<1> QED BY <1>2, <1>4, <1>5, Zenon DEF sensor_service_reset, SensorsInv

\* Every step of the service keeps its invariant.
LEMMA SensorsStep == SensorsInv /\ [SensorsNext]_sensorVars => SensorsInv'
<1> SUFFICES ASSUME SensorsInv, [SensorsNext]_sensorVars PROVE SensorsInv'
  BY Zenon
<1>1. ASSUME NEW s \in KnownSensors, Add(s) PROVE SensorsInv'
  BY <1>1, AddOnlyAdds, AddedKeeps, Zenon DEF Add, SensorsInv
<1>2. CASE sensor_service_load_builtin
  BY <1>2, LoadOnlyAdds, AddedKeeps, Zenon DEF sensor_service_load_builtin, SensorsInv
<1>3. CASE sensor_service_reset
  BY <1>3, ResetKeeps, Zenon
<1>4. ASSUME NEW key, NEW ok, sensor_get(key, ok) PROVE SensorsInv'
  BY <1>4, GetKeeps, Zenon
<1>5. CASE SensorTick
  <2>1. \A i \in SensorSlots : SlotSound(g_slots[i])'
    BY <1>5, SMTT(30) DEF SensorTick, SensorsInv, SlotSound, SlotTable, SlotRecord
  <2> QED BY <1>5, <2>1 DEF SensorTick, SensorsInv, SensorsKept, ReadingsAreFresh, ConvertersAreHeld
<1>6. CASE UNCHANGED sensorVars
  BY <1>6, Zenon DEF sensorVars, SensorsInv, SensorsKept, ReadingsAreFresh, ConvertersAreHeld, SlotSound
<1> QED BY <1>1, <1>2, <1>3, <1>4, <1>5, <1>6, Zenon DEF SensorsNext

\* For any sensors, slots and width of the millisecond counter: a read never
\* returns a sample past its refresh_ms, and every converter that is open
\* belongs to the slot it was opened for, through failed steps and resets.
THEOREM SensorsStayKept == SensorsSpec => []SensorsKept
<1>1. SensorsInv => SensorsKept
  BY Zenon DEF SensorsInv
<1> QED BY SensorsStart, SensorsStep, <1>1, PTL DEF SensorsSpec

=============================================================================
