---------------------------- MODULE ScreenProofs ----------------------------
(***************************************************************************)
(* Proofs about what a user types and sees. The input events: the ring     *)
(* holds what was posted and not yet taken, in order (InputInv). The       *)
(* terminal: the screen shows the line that was typed (TtyInv). The        *)
(* notifications: a card is shown for the time it was given (NotifyInv).   *)
(* The panel: it shows the picture of the app in front, or a new one has   *)
(* been asked for (FrameInv).                                              *)
(***************************************************************************)
EXTENDS InputEvents, Tty, Notify, AppFrame, ListsProofs

-----------------------------------------------------------------------------
(* The input events.                                                       *)

EventTypes == {"NONE", "KEY_DOWN", "DOUBLE_TAP", "KEY_UP", "TAP", "LONG_TAP", "RELEASE", "TOUCH"}
Event == [type : EventTypes, serial : Nat]
RingRecord == [ring : [0..(QueueSize - 1) -> Event], head : 0..(QueueSize - 1),
               tail : 0..(QueueSize - 1), count : 0..QueueSize]

\* The k-th place behind the head of the ring.
PlaceOf(q, k) == (q.head + k) % QueueSize

\* The ring holds the events kept, oldest first.
Holds(q, kept) ==
    /\ q \in RingRecord
    /\ kept \in Seq(Nat) /\ Len(kept) = q.count
    /\ q.tail = PlaceOf(q, q.count)
    /\ \A i \in 1..Len(kept) : q.ring[PlaceOf(q, i - 1)].serial = kept[i]

\* key_repeat_states is the tick of the last press, which no double tap has used.
RepeatIsPress ==
    key_repeat # 0 => /\ ~in_hist.paired
                      /\ in_hist.press \in 0..in_tick
                      /\ key_repeat = in_hist.press % InTickMod

History == [posts : Nat, pending : Seq(Nat), press : Int, paired : BOOLEAN, odd : BOOLEAN]

InputInv ==
    /\ in_tick \in 0..LastInTick
    /\ in_hist \in History
    /\ Holds(in_queue, in_hist.pending)
    /\ RepeatIsPress
    /\ InputInOrder

-----------------------------------------------------------------------------
(* The ring.                                                                *)

\* The empty ring.
LEMMA EmptyHolds == Holds(EmptyQueue, <<>>)
<1> DEFINE r == [i \in 0..(QueueSize - 1) |-> NoEvent]
<1>1. QueueSize \in Nat \ {0}
  BY InputAssumption, Zenon
<1>2. NoEvent \in Event
  BY Zenon DEF NoEvent, Event, EventTypes
<1>3. r \in [0..(QueueSize - 1) -> Event]
  BY <1>2, Zenon
<1> HIDE DEF r
<1>4. EmptyQueue = [ring |-> r, head |-> 0, tail |-> 0, count |-> 0]
  BY Zenon DEF EmptyQueue, r
<1>5. (0 + 0) % QueueSize = 0
  BY <1>1, SMTT(30)
<1> QED
  BY <1>1, <1>3, <1>4, <1>5 DEF Holds, RingRecord, PlaceOf

\* An event posted goes behind the last one.
LEMMA PostHolds ==
    ASSUME NEW q, NEW kept, Holds(q, kept), q.count < QueueSize, NEW e \in Event, NEW p,
           p = [ring |-> [q.ring EXCEPT ![q.tail] = e], head |-> q.head,
                tail |-> (q.tail + 1) % QueueSize, count |-> q.count + 1]
    PROVE  Holds(p, Append(kept, e.serial))
<1>1. QueueSize \in Nat \ {0}
  BY InputAssumption, Zenon
<1> DEFINE h == q.head
           c == q.count
           r == q.ring
           t == q.tail
<1>2. h \in 0..(QueueSize - 1) /\ c \in 0..(QueueSize - 1) /\ r \in [0..(QueueSize - 1) -> Event] /\ t = (h + c) % QueueSize
  BY <1>1, SMTT(30) DEF Holds, RingRecord, PlaceOf
<1>bounds. h \in 0..(QueueSize - 1) /\ c \in 0..(QueueSize - 1)
  BY <1>2, Zenon
<1>3. kept \in Seq(Nat) /\ Len(kept) = c /\ \A i \in 1..c : r[(h + (i - 1)) % QueueSize].serial = kept[i]
  BY Zenon DEF Holds, PlaceOf
<1>4. p = [ring |-> [r EXCEPT ![t] = e], head |-> h, tail |-> (t + 1) % QueueSize, count |-> c + 1]
  BY Zenon
<1>5. QueueSize \in Nat \ {0}
  BY <1>1, Zenon
<1> HIDE DEF h, c, r, t
<1>6. t \in 0..(QueueSize - 1) /\ (t + 1) % QueueSize \in 0..(QueueSize - 1) /\ (t + 1) % QueueSize = (h + c + 1) % QueueSize
  BY <1>2, <1>5, RingSteps, Zenon
<1> DEFINE s == [r EXCEPT ![t] = e]
           new == Append(kept, e.serial)
<1>7. s \in [0..(QueueSize - 1) -> Event] /\ s[t] = e /\ \A j \in 0..(QueueSize - 1) : j # t => s[j] = r[j]
  BY <1>2, <1>6, Zenon
<1>8. e.serial \in Nat
  BY Zenon DEF Event
<1>9. /\ new \in Seq(Nat) /\ Len(new) = c + 1 /\ new[c + 1] = e.serial
      /\ \A i \in 1..c : new[i] = kept[i]
  BY <1>3, <1>8
<1> HIDE DEF s, new
<1>10. p.ring = s /\ p.head = h /\ p.tail = (t + 1) % QueueSize /\ p.count = c + 1 /\ p \in RingRecord
  <2>1. p = [ring |-> s, head |-> h, tail |-> (t + 1) % QueueSize, count |-> c + 1]
    BY <1>4, Zenon DEF s
  <2>2. c + 1 \in 0..QueueSize
    BY ONLY <1>bounds, <1>5
  <2>3. p.ring = s /\ p.head = h /\ p.tail = (t + 1) % QueueSize /\ p.count = c + 1
    BY ONLY <2>1, Zenon
  <2>4. p \in RingRecord
    <3> DEFINE u == (t + 1) % QueueSize
               v == c + 1
    <3>1. p = [ring |-> s, head |-> h, tail |-> u, count |-> v]
      BY <2>1, Zenon
    <3>2. u \in 0..(QueueSize - 1) /\ v \in 0..QueueSize /\ h \in 0..(QueueSize - 1)
      BY <1>2, <1>6, <2>2, Zenon
    <3> HIDE DEF u, v
    <3> QED
      BY ONLY <1>7, <3>1, <3>2, Zenon DEF RingRecord
  <2> QED
    BY <2>3, <2>4, Zenon
<1>11. ASSUME NEW i \in 1..(c + 1) PROVE s[(h + (i - 1)) % QueueSize].serial = new[i]
  <2>1. CASE i = c + 1
    <3>1. (h + (i - 1)) % QueueSize = t
      BY <1>2, <2>1, SMTT(30)
    <3> QED
      BY <1>7, <1>9, <2>1, <3>1, Zenon
  <2>2. CASE i # c + 1
    <3> DEFINE k == i - 1
    <3>1. i \in 1..c /\ k \in 0..(QueueSize - 1) /\ k < c
      BY ONLY <1>bounds, <1>5, <2>2, i \in 1..(c + 1)
    <3> HIDE DEF k
    <3>2. (h + k) % QueueSize \in 0..(QueueSize - 1) /\ (h + k) % QueueSize # (h + c) % QueueSize
      <4>1. (h + k) % QueueSize \in 0..(QueueSize - 1)
        BY ONLY <1>5, <1>bounds, <3>1, RingSteps, Zenon
      <4>2. (h + k) % QueueSize # (h + c) % QueueSize
        BY ONLY <1>5, <1>bounds, <3>1, RingPlaces, Zenon
      <4> QED
        BY <4>1, <4>2, Zenon
    <3>3. s[(h + k) % QueueSize] = r[(h + k) % QueueSize]
      BY <1>2, <1>7, <3>2, Zenon
    <3> QED
      BY <1>3, <1>9, <3>1, <3>3, Zenon DEF k
  <2> QED
    BY <2>1, <2>2, Zenon
<1>12. PlaceOf(p, c + 1) = (t + 1) % QueueSize
  <2>1. h \in Int /\ c \in Int
    BY ONLY <1>bounds, <1>5
  <2>2. h + (c + 1) = h + c + 1
    BY ONLY <2>1
  <2> QED
    BY <1>6, <1>10, <2>2, Zenon DEF PlaceOf
<1> QED
  BY <1>9, <1>10, <1>11, <1>12, Zenon DEF Holds, PlaceOf, new

\* The place no places behind the head.
LEMMA AtHead ==
    ASSUME NEW h \in 0..(QueueSize - 1)
    PROVE  (h + 0) % QueueSize = h /\ (h + (1 - 1)) % QueueSize = h
<1>1. QueueSize \in Nat \ {0}
  BY InputAssumption, Zenon
<1> QED
  BY <1>1

\* The event at the head is the oldest one kept.
LEMMA TakeHolds ==
    ASSUME NEW q, NEW kept, Holds(q, kept), q.count > 0, NEW e \in Event, NEW p,
           p = [q EXCEPT !.head = (@ + 1) % QueueSize, !.count = @ - 1, !.ring[q.head] = e]
    PROVE  /\ kept # <<>> /\ q.ring[q.head].serial = Head(kept)
           /\ Holds(p, Tail(kept))
<1>1. QueueSize \in Nat \ {0}
  BY InputAssumption, Zenon
<1> DEFINE h == q.head
           c == q.count
           r == q.ring
           t == q.tail
           s == [r EXCEPT ![h] = e]
           g == (h + 1) % QueueSize
<1>2. /\ h \in 0..(QueueSize - 1) /\ c \in 1..QueueSize /\ r \in [0..(QueueSize - 1) -> Event] /\ t = (h + c) % QueueSize
      /\ t \in 0..(QueueSize - 1)
  BY <1>1, SMTT(30) DEF Holds, RingRecord, PlaceOf
<1>3. kept \in Seq(Nat) /\ Len(kept) = c /\ \A i \in 1..c : r[(h + (i - 1)) % QueueSize].serial = kept[i]
  BY Zenon DEF Holds, PlaceOf
<1>4. p.ring = s /\ p.head = g /\ p.tail = t /\ p.count = c - 1
      /\ p = [ring |-> s, head |-> g, tail |-> t, count |-> c - 1]
  BY Zenon DEF Holds, RingRecord
<1>5. QueueSize \in Nat \ {0}
  BY <1>1, Zenon
<1> HIDE DEF h, c, r, t
<1>6. g \in 0..(QueueSize - 1)
  BY <1>2, <1>5, SMTT(30)
<1>7. s \in [0..(QueueSize - 1) -> Event] /\ \A j \in 0..(QueueSize - 1) : j # h => s[j] = r[j]
  BY <1>2, Zenon
<1> HIDE DEF s
<1>8. p \in RingRecord
  <2>1. c - 1 \in 0..QueueSize
    BY <1>2, <1>5
  <2> QED
    BY <1>2, <1>4, <1>6, <1>7, <2>1, Zenon DEF RingRecord
<1>9. /\ kept # <<>> /\ Head(kept) = kept[1] /\ Tail(kept) \in Seq(Nat) /\ Len(Tail(kept)) = c - 1
      /\ \A i \in 1..(c - 1) : Tail(kept)[i] = kept[i + 1]
  BY <1>2, <1>3
<1>10. r[h].serial = kept[1]
  <2>1. (h + (1 - 1)) % QueueSize = h
    BY <1>2, <1>5, AtHead, Zenon
  <2> QED
    BY <1>2, <1>3, <2>1, SMTT(30)
<1>11. ASSUME NEW i \in 0..(c - 1) PROVE (g + i) % QueueSize = (h + (i + 1)) % QueueSize
  <2>1. i \in 0..(QueueSize - 1) /\ h + (i + 1) = h + i + 1
    BY <1>2, <1>5, SMTT(30)
  <2> QED
    BY <1>2, <1>5, <2>1, RingSteps, SMTT(30)
<1> HIDE DEF g
<1>12. ASSUME NEW i \in 1..(c - 1) PROVE s[(g + (i - 1)) % QueueSize].serial = Tail(kept)[i]
  <2>1. (g + (i - 1)) % QueueSize = (h + i) % QueueSize
    BY <1>2, <1>11, SMTT(30)
  <2>2. i \in 0..(QueueSize - 1) /\ 0 < i /\ (h + 0) % QueueSize = h
    <3>1. (h + 0) % QueueSize = h
      BY <1>2, AtHead, Zenon
    <3>2. i \in 0..(QueueSize - 1) /\ 0 < i
      BY <1>2, <1>5, SMTT(30)
    <3> QED
      BY <3>1, <3>2, Zenon
  <2>3. (h + i) % QueueSize \in 0..(QueueSize - 1) /\ (h + i) % QueueSize # h
    <3>1. 0 \in 0..(QueueSize - 1)
      BY <1>5
    <3> QED
      <4>1. h \in 0..(QueueSize - 1)
        BY <1>2, Zenon
      <4>2. (h + i) % QueueSize \in 0..(QueueSize - 1)
        BY ONLY <1>5, <2>2, <4>1, RingSteps, Zenon
      <4>3. (h + 0) % QueueSize # (h + i) % QueueSize
        BY ONLY <1>5, <2>2, <3>1, <4>1, RingPlaces, Zenon
      <4> QED
        BY <2>2, <4>2, <4>3, Zenon
  <2>4. r[(h + i) % QueueSize].serial = kept[i + 1]
    <3>1. i + 1 \in 1..c /\ (i + 1) - 1 = i
      BY <1>2
    <3> QED
      BY <1>3, <3>1, Zenon
  <2> QED
    BY <1>7, <1>9, <2>1, <2>3, <2>4, SMTT(30)
<1>13. PlaceOf(p, c - 1) = t
  <2>1. (g + (c - 1)) % QueueSize = (h + ((c - 1) + 1)) % QueueSize /\ (c - 1) + 1 = c
    BY <1>2, <1>11, SMTT(30)
  <2> QED
    BY <1>2, <1>4, <2>1, Zenon DEF PlaceOf
<1>14. Holds(p, Tail(kept))
  BY <1>4, <1>8, <1>9, <1>12, <1>13, Zenon DEF Holds, PlaceOf
<1> QED
  BY <1>9, <1>10, <1>14, Zenon DEF r, h

-----------------------------------------------------------------------------
(* The steps.                                                               *)

\* The queue starts empty and no key is down.
LEMMA InputInitInv == InputInit => InputInv
<1> SUFFICES ASSUME InputInit PROVE InputInv
  BY Zenon
<1>1. InTickMod \in Nat /\ LastInTick \in Nat
  BY InputAssumption, Zenon
<1>2. <<>> \in Seq(Nat)
  OBVIOUS
<1>3. /\ in_hist \in History /\ in_hist.pending = <<>> /\ ~in_hist.odd
  BY <1>1, <1>2 DEF InputInit, History
<1>4. in_tick \in 0..LastInTick /\ key_repeat = 0 /\ in_queue = EmptyQueue
  BY <1>1 DEF InputInit
<1> QED
  BY <1>3, <1>4, EmptyHolds, Zenon DEF InputInv, RepeatIsPress, InputInOrder

\* An event posted is kept behind the others, or the ring is full.
LEMMA QueueEvent ==
    ASSUME InputInv, NEW type \in EventTypes, input_queue_event(type)
    PROVE  /\ Posted(in_hist) \in History /\ Holds(in_queue', Posted(in_hist).pending)
           /\ Posted(in_hist).press = in_hist.press /\ Posted(in_hist).paired = in_hist.paired
           /\ Posted(in_hist).odd = in_hist.odd
<1> DEFINE e == [type |-> type, serial |-> in_hist.posts + 1]
           n == in_hist.posts
           kept == in_hist.pending
           now == IF in_queue' = in_queue THEN kept ELSE Append(kept, n + 1)
<1>1. in_hist \in History /\ n \in Nat /\ kept \in Seq(Nat) /\ Holds(in_queue, kept)
  BY Zenon DEF InputInv, History
<1>2. e \in Event /\ e.serial = n + 1
  BY <1>1 DEF Event
<1>3. now \in Seq(Nat)
  BY <1>1
<1>4. /\ Posted(in_hist) = [in_hist EXCEPT !.posts = n + 1, !.pending = now]
  BY Zenon DEF Posted
<1>5. Holds(in_queue', now)
  <2>1. CASE QueueFull(in_queue)
    <3>1. in_queue' = in_queue
      BY <2>1, Zenon DEF input_queue_event
    <3> QED
      BY <1>1, <3>1, Zenon
  <2>2. CASE ~QueueFull(in_queue)
    <3>1. in_queue' = [ring |-> [in_queue.ring EXCEPT ![in_queue.tail] = e], head |-> in_queue.head,
                       tail |-> (in_queue.tail + 1) % QueueSize, count |-> in_queue.count + 1]
      BY <2>2, Zenon DEF input_queue_event
    <3>2. in_queue.count \in Nat /\ QueueSize \in Nat /\ in_queue.count < QueueSize
      <4>1. QueueSize \in Nat
        BY InputAssumption, Zenon
      <4>2. in_queue.count \in 0..QueueSize
        BY <1>1, Zenon DEF Holds, RingRecord
      <4> QED
        BY <2>2, <4>1, <4>2 DEF QueueFull
    <3>3. in_queue' # in_queue
      <4>1. in_queue'.count = in_queue.count + 1
        BY <3>1, Zenon
      <4> QED
        BY <3>2, <4>1
    <3> HIDE DEF e, kept
    <3>4. Holds(in_queue', Append(kept, e.serial))
      BY <1>1, <1>2, <3>1, <3>2, PostHolds, Zenon
    <3> QED
      BY <1>2, <3>3, <3>4, Zenon
  <2> QED
    BY <2>1, <2>2, Zenon
<1> HIDE DEF now, n
<1>6. /\ Posted(in_hist).pending = now /\ Posted(in_hist).press = in_hist.press
      /\ Posted(in_hist).paired = in_hist.paired /\ Posted(in_hist).odd = in_hist.odd
      /\ Posted(in_hist) \in History
  <2> DEFINE m == n + 1
             h == Posted(in_hist)
  <2>1. m \in Nat /\ h = [in_hist EXCEPT !.posts = m, !.pending = now]
    BY <1>1, <1>4
  <2> HIDE DEF m, h
  <2>2. h \in History
    BY ONLY <1>1, <1>3, <2>1, Zenon DEF History
  <2>3. /\ h.pending = now /\ h.press = in_hist.press /\ h.paired = in_hist.paired /\ h.odd = in_hist.odd
    BY ONLY <1>1, <2>1, Zenon DEF History
  <2> QED
    BY <2>2, <2>3, Zenon DEF h
<1> QED
  BY <1>5, <1>6, Zenon

\* Releases, and the events that are not keys.
LEMMA PostKeeps ==
    ASSUME InputInv, KeyUp \/ input_post_event
    PROVE  InputInv'
<1>1. PICK type \in EventTypes : input_queue_event(type)
  <2>1. Release \in EventTypes /\ "TOUCH" \in EventTypes
    BY Zenon DEF Release, EventTypes
  <2> QED
    BY <2>1, Zenon DEF KeyUp, input_post_event
<1>2. in_hist' = Posted(in_hist) /\ key_repeat' = key_repeat /\ in_tick' = in_tick
  BY Zenon DEF KeyUp, input_post_event
<1>3. /\ Posted(in_hist) \in History /\ Holds(in_queue', Posted(in_hist).pending)
      /\ Posted(in_hist).press = in_hist.press /\ Posted(in_hist).paired = in_hist.paired
      /\ Posted(in_hist).odd = in_hist.odd
  BY <1>1, QueueEvent, Zenon
<1> QED
  BY <1>2, <1>3, Zenon DEF InputInv, RepeatIsPress, InputInOrder

\* A press: a double tap ends the pair its first press began.
LEMMA DownKeeps ==
    ASSUME InputInv, KeyDown
    PROVE  InputInv'
<1>1. PICK type \in EventTypes : input_queue_event(type)
  <2>1. "DOUBLE_TAP" \in EventTypes /\ "KEY_DOWN" \in EventTypes
    BY Zenon DEF EventTypes
  <2> QED
    BY <2>1, Zenon DEF KeyDown
<1> DEFINE h == Posted(in_hist)
           odd == in_hist.odd \/ (IsDoubleTap /\
                        (in_hist.paired \/ in_tick - in_hist.press \notin
                            (0..(DoubleTicks - 1)) \cup (InTickMod..LastInTick)))
<1>2. /\ h \in History /\ Holds(in_queue', h.pending)
      /\ h.press = in_hist.press /\ h.paired = in_hist.paired /\ h.odd = in_hist.odd
  BY <1>1, QueueEvent, Zenon
<1>3. in_hist' = [h EXCEPT !.press = in_tick, !.paired = IsDoubleTap,
                  !.odd = @ \/ (IsDoubleTap /\
                        (in_hist.paired \/ in_tick - in_hist.press \notin
                            (0..(DoubleTicks - 1)) \cup (InTickMod..LastInTick)))]
  BY Zenon DEF KeyDown
<1> HIDE DEF h
<1>4. in_hist' = [h EXCEPT !.press = in_tick, !.paired = IsDoubleTap, !.odd = odd]
  BY <1>2, <1>3, Zenon
<1>5. in_tick \in 0..LastInTick /\ LastInTick \in Nat /\ InTickMod \in Nat \ {0} /\ DoubleTicks \in Nat
  BY InputAssumption, Zenon DEF InputInv
<1>6. ASSUME IsDoubleTap
      PROVE  /\ ~in_hist.paired
             /\ in_tick - in_hist.press \in (0..(DoubleTicks - 1)) \cup (InTickMod..LastInTick)
  <2>1. /\ key_repeat # 0 /\ ((in_tick % InTickMod) - key_repeat) % InTickMod < DoubleTicks
    BY <1>6 DEF IsDoubleTap, scheduler_get_tick_count
  <2>2. ~in_hist.paired /\ in_hist.press \in 0..in_tick /\ key_repeat = in_hist.press % InTickMod
    BY <2>1, Zenon DEF InputInv, RepeatIsPress
  <2> DEFINE d == in_tick - in_hist.press
  <2>3. d \in 0..LastInTick
    BY <1>5, <2>2
  <2>4. CASE d < InTickMod
    <3>1. ((in_tick % InTickMod) - (in_hist.press % InTickMod)) % InTickMod = d
      <4> DEFINE y == in_hist.press
      <4>1. in_tick \in Nat /\ y \in 0..in_tick /\ in_tick - y < InTickMod
        BY <1>5, <2>2, <2>4
      <4> HIDE DEF y
      <4>2. ((in_tick % InTickMod) - (y % InTickMod)) % InTickMod = in_tick - y
        BY ONLY <1>5, <4>1, ElapsedOnCounter, Zenon
      <4> QED
        BY <4>2, Zenon DEF y
    <3>2. d < DoubleTicks
      BY <2>1, <2>2, <3>1, Zenon
    <3> HIDE DEF d
    <3>3. d \in 0..(DoubleTicks - 1)
      BY <1>5, <2>3, <3>2
    <3> QED
      BY <2>2, <3>3, Zenon DEF d
  <2>5. CASE ~(d < InTickMod)
    <3> HIDE DEF d
    <3>1. d \in InTickMod..LastInTick
      BY <1>5, <2>3, <2>5
    <3> QED
      BY <2>2, <3>1, Zenon DEF d
  <2> QED
    BY <2>4, <2>5, Zenon
<1>7. odd = FALSE
  BY <1>6, Zenon DEF InputInv, InputInOrder, History
<1> HIDE DEF odd
<1>8. IsDoubleTap \in BOOLEAN
  BY Zenon DEF IsDoubleTap
<1>9. /\ in_hist' \in History /\ in_hist'.pending = h.pending /\ in_hist'.press = in_tick
      /\ in_hist'.paired = IsDoubleTap /\ ~in_hist'.odd
  <2> DEFINE b == IsDoubleTap
  <2>1. in_hist' = [h EXCEPT !.press = in_tick, !.paired = b, !.odd = odd] /\ b \in BOOLEAN
        /\ in_tick \in Int /\ odd \in BOOLEAN
    <3>1. in_tick \in Int
      BY <1>5
    <3>2. odd \in BOOLEAN
      BY ONLY <1>7, Zenon
    <3> QED
      BY <1>4, <1>8, <3>1, <3>2, Zenon
  <2> HIDE DEF b
  <2>2. in_hist' \in History
    <3>1. h \in History
      BY <1>2, Zenon
    <3> QED
      BY ONLY <2>1, <3>1, Zenon DEF History
  <2>3. /\ in_hist'.pending = h.pending /\ in_hist'.press = in_tick
        /\ in_hist'.paired = b /\ in_hist'.odd = odd
    BY ONLY <1>2, <2>1, Zenon DEF History
  <2> QED
    BY <1>7, <2>2, <2>3, Zenon DEF b
<1>10. in_tick' = in_tick /\ key_repeat' = IF IsDoubleTap THEN 0 ELSE in_tick % InTickMod
  BY Zenon DEF KeyDown, RepeatAfter, scheduler_get_tick_count
<1>11. RepeatIsPress'
  BY <1>5, <1>9, <1>10, SMTT(30) DEF RepeatIsPress
<1> QED
  BY <1>2, <1>9, <1>10, <1>11, Zenon DEF InputInv, InputInOrder

\* The event handed out is the oldest one kept.
LEMMA TakeKeeps ==
    ASSUME InputInv, TakeEvent
    PROVE  InputInv'
<1> DEFINE kept == in_hist.pending
           e == NoEvent
<1>1. in_hist \in History /\ Holds(in_queue, kept) /\ in_queue.count > 0 /\ ~in_hist.odd
  BY Zenon DEF InputInv, InputInOrder, TakeEvent
<1>2. e \in Event
  BY Zenon DEF NoEvent, Event, EventTypes
<1>3. in_queue' = [in_queue EXCEPT !.head = (@ + 1) % QueueSize, !.count = @ - 1,
                                   !.ring[in_queue.head] = e]
  BY Zenon DEF TakeEvent
<1>4. in_hist' = [in_hist EXCEPT
                     !.pending = IF @ = <<>> THEN @ ELSE Tail(@),
                     !.odd = @ \/ kept = <<>> \/ in_queue.ring[in_queue.head].serial # Head(kept)]
  BY Zenon DEF TakeEvent
<1> HIDE DEF e, kept
<1>5. /\ kept # <<>> /\ in_queue.ring[in_queue.head].serial = Head(kept)
      /\ Holds(in_queue', Tail(kept))
  BY <1>1, <1>2, <1>3, TakeHolds, Zenon
<1>6. Tail(kept) \in Seq(Nat) /\ kept = in_hist.pending
  BY <1>5, Zenon DEF Holds, kept
<1>7. in_hist' = [in_hist EXCEPT !.pending = Tail(kept), !.odd = FALSE]
  BY <1>1, <1>4, <1>5, <1>6, Zenon DEF History
<1> DEFINE t == Tail(kept)
<1> HIDE DEF t
<1>8. /\ in_hist' \in History /\ in_hist'.pending = t /\ ~in_hist'.odd
      /\ in_hist'.press = in_hist.press /\ in_hist'.paired = in_hist.paired
  BY <1>1, <1>6, <1>7, Zenon DEF History, t
<1>9. key_repeat' = key_repeat /\ in_tick' = in_tick
  BY Zenon DEF TakeEvent
<1> QED
  BY <1>5, <1>8, <1>9, Zenon DEF InputInv, RepeatIsPress, InputInOrder, t

\* input_deinit empties the ring and forgets the presses.
LEMMA DeinitKeeps ==
    ASSUME InputInv, input_deinit
    PROVE  InputInv'
<1>1. in_hist \in History /\ InTickMod \in Nat /\ <<>> \in Seq(Nat)
  BY InputAssumption DEF InputInv
<1>2. /\ in_hist' \in History /\ in_hist'.pending = <<>> /\ in_hist'.odd = in_hist.odd
  <2> DEFINE m == -InTickMod
             none == <<>>
  <2>1. m \in Int /\ none \in Seq(Nat)
        /\ in_hist' = [in_hist EXCEPT !.pending = none, !.press = m, !.paired = TRUE]
    BY <1>1 DEF input_deinit
  <2> HIDE DEF m, none
  <2>2. in_hist' \in History
    BY ONLY <1>1, <2>1, Zenon DEF History
  <2>3. in_hist'.pending = none /\ in_hist'.odd = in_hist.odd
    BY ONLY <1>1, <2>1, Zenon DEF History
  <2> QED
    BY <2>2, <2>3, Zenon DEF none
<1>3. in_queue' = EmptyQueue /\ key_repeat' = 0 /\ in_tick' = in_tick
  BY Zenon DEF input_deinit
<1> QED
  BY <1>2, <1>3, EmptyHolds, Zenon DEF InputInv, RepeatIsPress, InputInOrder

\* Every step keeps the invariant.
LEMMA InputNextInv == InputInv /\ [InputNext]_inVars => InputInv'
<1> SUFFICES ASSUME InputInv, [InputNext]_inVars PROVE InputInv'
  BY Zenon
<1>1. CASE KeyDown
  BY <1>1, DownKeeps, Zenon
<1>2. CASE KeyUp \/ input_post_event
  BY <1>2, PostKeeps, Zenon
<1>3. CASE input_deinit
  BY <1>3, DeinitKeeps, Zenon
<1>4. CASE TakeEvent
  BY <1>4, TakeKeeps, Zenon
<1>5. CASE UNCHANGED <<in_queue, key_repeat, in_tick, in_hist>>
  BY <1>5, Zenon DEF InputInv, RepeatIsPress, InputInOrder
<1>6. CASE scheduler_tick
  <2>1. /\ in_tick' \in 0..LastInTick /\ in_tick \in Nat /\ in_tick' = in_tick + 1
        /\ UNCHANGED <<in_queue, key_repeat, in_hist>>
    BY <1>6, InputAssumption DEF scheduler_tick, InputInv
  <2>2. in_hist.press \in 0..in_tick => in_hist.press \in 0..(in_tick + 1)
    BY <2>1
  <2> QED
    BY <2>1, <2>2, Zenon DEF InputInv, RepeatIsPress, InputInOrder
<1> QED
  <2>1. (\E d \in InDevices : input_device_register(d) \/ input_device_unregister(d)) =>
            UNCHANGED <<in_queue, key_repeat, in_tick, in_hist>>
    BY Zenon DEF input_device_register, input_device_unregister
  <2>2. Deliver => UNCHANGED <<in_queue, key_repeat, in_tick, in_hist>>
    BY Zenon DEF Deliver
  <2>3. Delivered => TakeEvent \/ UNCHANGED <<in_queue, key_repeat, in_tick, in_hist>>
    BY Zenon DEF Delivered
  <2>4. input_process_events => TakeEvent
    BY Zenon DEF input_process_events
  <2>5. UNCHANGED inVars => UNCHANGED <<in_queue, key_repeat, in_tick, in_hist>>
    BY Zenon DEF inVars
  <2> QED
    BY <1>1, <1>2, <1>3, <1>4, <1>5, <1>6, <2>1, <2>2, <2>3, <2>4, <2>5, Zenon DEF InputNext

\* For every number of devices and places, all thresholds and every counter:
\* input_process_events hands out what was posted and kept, oldest first, and
\* process_key_event uses no press for two double taps.
THEOREM InputStaysInOrder == InputSpec => []InputInOrder
<1>1. InputInv => InputInOrder
  BY Zenon DEF InputInv
<1> QED
  BY InputInitInv, InputNextInv, <1>1, PTL DEF InputSpec

-----------------------------------------------------------------------------
(* The terminal.                                                           *)

ShellRecord ==
    [line : Seq(Printable), out : Nat, mode : {"line", "attach", "htop"},
     esc : {"normal", "esc", "csi"}, armed : BOOLEAN, closed : BOOLEAN, ms : Int,
     screen : Seq(Printable \cup {"$"}), lost : BOOLEAN]

\* The bounds of the buffers, and the prompt and the line on the screen.
Mirrors(t) ==
    /\ t.out < OutCap /\ Len(t.line) < LineCap
    /\ (t.mode = "line" /\ ~t.closed /\ ~t.lost) => t.screen = <<"$">> \o t.line

\* The type and the property, of a shell.
Sound(t) == t \in ShellRecord /\ Mirrors(t)

TtyInv == Sound(tty) /\ tty_now \in Int

\* The last cell of a line that is not empty comes off.
LEMMA ButLastType ==
    ASSUME NEW S, NEW s \in Seq(S), s # <<>>
    PROVE  /\ ButLast(s) \in Seq(S) /\ Len(ButLast(s)) = Len(s) - 1
           /\ \A i \in 1..(Len(s) - 1) : ButLast(s)[i] = s[i]
<1>1. Len(s) \in Nat /\ Len(s) # 0
  BY EmptySeq, Zenon
<1> DEFINE n == Len(s) - 1
<1>2. n \in Nat /\ n <= Len(s)
  BY <1>1
<1>3. \A i \in 1..n : s[i] \in S
  BY <1>1
<1> HIDE DEF n
<1>4. SubSeq(s, 1, n) \in Seq(S)
  BY <1>2, <1>3, SubSeqProperties
<1>5. Len(SubSeq(s, 1, n)) = n /\ \A i \in 1..n : SubSeq(s, 1, n)[i] = s[i]
  BY <1>2, <1>3, SubSeqProperties
<1> QED
  BY <1>4, <1>5, Zenon DEF ButLast, n

\* A prompt and a line: how long it is and what it holds.
LEMMA PromptAndLine ==
    ASSUME NEW line \in Seq(Printable)
    PROVE  /\ <<"$">> \o line \in Seq(Printable \cup {"$"})
           /\ Len(<<"$">> \o line) = Len(line) + 1
           /\ \A i \in 1..(Len(line) + 1) :
                (<<"$">> \o line)[i] = IF i = 1 THEN "$" ELSE line[i - 1]
  OBVIOUS

\* One more character behind the prompt, and one less.
LEMMA TypedAndErased ==
    ASSUME NEW line \in Seq(Printable)
    PROVE  /\ \A b \in Printable : Append(<<"$">> \o line, b) = <<"$">> \o Append(line, b)
           /\ line # <<>> => ButLast(<<"$">> \o line) = <<"$">> \o ButLast(line)
           /\ <<"$">> \o line # <<>>
<1> DEFINE S == Printable \cup {"$"}
           p == <<"$">> \o line
<1>1. p \in Seq(S) /\ Len(p) = Len(line) + 1 /\ Len(line) \in Nat
  BY PromptAndLine
<1>2. \A i \in 1..(Len(line) + 1) : p[i] = IF i = 1 THEN "$" ELSE line[i - 1]
  BY PromptAndLine, Zenon
<1>3. p # <<>>
  BY <1>1, EmptySeq
<1> HIDE DEF p
<1>4. ASSUME NEW b \in Printable
      PROVE  Append(p, b) = <<"$">> \o Append(line, b)
  <2> DEFINE q == Append(line, b)
             r == <<"$">> \o q
  <2>1. q \in Seq(Printable) /\ Len(q) = Len(line) + 1
        /\ (\A i \in 1..Len(line) : q[i] = line[i]) /\ q[Len(line) + 1] = b
    BY AppendProperties
  <2>2. r \in Seq(S) /\ Len(r) = Len(q) + 1
        /\ \A i \in 1..(Len(q) + 1) : r[i] = IF i = 1 THEN "$" ELSE q[i - 1]
    BY <2>1, PromptAndLine, Zenon
  <2> HIDE DEF q, r
  <2>3. /\ Append(p, b) \in Seq(S) /\ Len(Append(p, b)) = Len(p) + 1
        /\ \A i \in 1..Len(p) : Append(p, b)[i] = p[i]
        /\ Append(p, b)[Len(p) + 1] = b
    BY <1>1, AppendProperties
  <2>4. ASSUME NEW i \in 1..(Len(line) + 2)
        PROVE  Append(p, b)[i] = r[i]
    <3>1. CASE i = Len(line) + 2
      BY <1>1, <2>1, <2>2, <2>3, <3>1
    <3>2. CASE i # Len(line) + 2
      <4>1. i \in 1..(Len(line) + 1) /\ Append(p, b)[i] = p[i]
        BY <1>1, <2>3, <3>2
      <4>2. r[i] = IF i = 1 THEN "$" ELSE q[i - 1]
        BY <2>1, <2>2, <1>1
      <4>3. i # 1 => q[i - 1] = line[i - 1]
        BY <2>1, <4>1, <1>1, SMTT(30)
      <4> QED
        BY <1>2, <4>1, <4>2, <4>3, Zenon
    <3> QED
      BY <3>1, <3>2, Zenon
  <2>5. Append(p, b) = r
    <3>1. Len(Append(p, b)) = Len(r) /\ Len(r) = Len(line) + 2
      BY <1>1, <2>1, <2>2, <2>3
    <3> QED
      BY ONLY <2>2, <2>3, <2>4, <3>1, SeqEqual
  <2> QED
    BY <2>5, Zenon DEF q, r
<1>5. ASSUME line # <<>>
      PROVE  ButLast(p) = <<"$">> \o ButLast(line)
  <2> DEFINE q == ButLast(line)
             r == <<"$">> \o q
  <2>1. q \in Seq(Printable) /\ Len(q) = Len(line) - 1 /\ Len(line) >= 1
        /\ (\A i \in 1..(Len(line) - 1) : q[i] = line[i])
    BY <1>5, <1>1, ButLastType, EmptySeq
  <2>2. r \in Seq(S) /\ Len(r) = Len(q) + 1
        /\ \A i \in 1..(Len(q) + 1) : r[i] = IF i = 1 THEN "$" ELSE q[i - 1]
    BY <2>1, PromptAndLine, Zenon
  <2> HIDE DEF q, r
  <2>3. /\ ButLast(p) \in Seq(S) /\ Len(ButLast(p)) = Len(p) - 1
        /\ \A i \in 1..(Len(p) - 1) : ButLast(p)[i] = p[i]
    BY <1>1, <1>3, ButLastType, Zenon
  <2>4. \A i \in 1..Len(line) : ButLast(p)[i] = r[i]
    BY <1>1, <1>2, <2>1, <2>2, <2>3
  <2>5. ButLast(p) = r
    <3>1. Len(ButLast(p)) = Len(r) /\ Len(r) = Len(line)
      BY <1>1, <2>1, <2>2, <2>3
    <3> QED
      BY ONLY <2>2, <2>3, <2>4, <3>1, SeqEqual, SMTT(30)
  <2> QED
    BY <2>5, Zenon DEF q, r
<1> QED
  BY <1>3, <1>4, <1>5, Zenon DEF p

\* A cell shown leaves cells.
LEMMA ShownType ==
    ASSUME NEW s \in Seq(Printable \cup {"$"}), NEW c
    PROVE  Shown(s, c) \in Seq(Printable \cup {"$"})
<1>1. CASE c = "$"
  <2>1. c \notin Printable /\ c # "del"
    BY <1>1, Zenon DEF Printable
  <2>2. Shown(s, c) = <<"$">>
    BY <1>1, <2>1, Zenon DEF Shown
  <2> QED
    BY <2>2
<1>2. CASE c = "del"
  <2>1. c \notin Printable /\ c # "$"
    BY <1>2, Zenon DEF Printable
  <2>2. Shown(s, c) = IF s = <<>> THEN s ELSE ButLast(s)
    BY <1>2, <2>1, Zenon DEF Shown
  <2> QED
    BY <2>2, ButLastType, Zenon
<1>3. CASE c \in Printable
  <2>1. c # "$" /\ c # "del"
    BY <1>3, Zenon DEF Printable
  <2>2. Shown(s, c) = IF s = <<>> THEN s ELSE Append(s, c)
    BY <1>3, <2>1, Zenon DEF Shown
  <2>3. Append(s, c) \in Seq(Printable \cup {"$"})
    BY <1>3
  <2> QED
    BY <2>2, <2>3, Zenon
<1>4. CASE c # "$" /\ c # "del" /\ c \notin Printable
  BY <1>4 DEF Shown
<1> QED
  BY <1>1, <1>2, <1>3, <1>4, Zenon

\* What a cell of output does to the shell.
LEMMA PutsKeeps ==
    ASSUME NEW t \in ShellRecord, t.out < OutCap, NEW c
    PROVE  LET p == tty_puts(t, c)
           IN  /\ p \in ShellRecord /\ p.out < OutCap
               /\ p.line = t.line /\ p.mode = t.mode /\ p.esc = t.esc /\ p.closed = t.closed
               /\ ~p.lost => (~t.lost /\ p.screen = Shown(t.screen, c))
               /\ p.out > t.out \/ p.lost
<1> DEFINE room == t.out < OutCap - 1
           out == IF room THEN t.out + 1 ELSE t.out
           lost == t.lost \/ ~room
           screen == IF t.lost \/ ~room THEN <<>> ELSE Shown(t.screen, c)
<1>1. OutCap \in Nat /\ t.out \in Nat
  BY TtyAssumption, Zenon DEF ShellRecord
<1>2. out \in Nat /\ out < OutCap /\ (out > t.out \/ ~room)
  BY <1>1
<1>3. t.screen \in Seq(Printable \cup {"$"})
  BY Zenon DEF ShellRecord
<1>10. Shown(t.screen, c) \in Seq(Printable \cup {"$"}) /\ <<>> \in Seq(Printable \cup {"$"})
  BY <1>3, ShownType, SMTT(30)
<1>4. screen \in Seq(Printable \cup {"$"})
  BY <1>10, Zenon
<1>5. lost \in BOOLEAN
  BY Zenon DEF ShellRecord
<1>6. ~lost => ~t.lost /\ screen = Shown(t.screen, c)
  BY Zenon
<1>7. out > t.out \/ lost
  BY <1>2, Zenon
<1>8. tty_puts(t, c) = [t EXCEPT !.out = out, !.lost = lost, !.screen = screen]
  BY Zenon DEF tty_puts, ShellRecord
<1> HIDE DEF out, lost, screen
<1> DEFINE p == [t EXCEPT !.out = out, !.lost = lost, !.screen = screen]
<1>9. /\ p \in ShellRecord /\ p.out = out /\ p.lost = lost /\ p.screen = screen
      /\ p.line = t.line /\ p.mode = t.mode /\ p.esc = t.esc /\ p.closed = t.closed
  BY <1>2, <1>4, <1>5, Zenon DEF ShellRecord
<1> HIDE DEF p
<1> QED
  BY <1>2, <1>6, <1>7, <1>8, <1>9, Zenon DEF p

\* A line of text leaves the line and the mode.
LEMMA TextKeeps ==
    ASSUME NEW t \in ShellRecord, t.out < OutCap
    PROVE  LET p == TextLine(t)
           IN  /\ p \in ShellRecord /\ p.out < OutCap
               /\ p.line = t.line /\ p.mode = t.mode /\ p.esc = t.esc /\ p.closed = t.closed
<1> DEFINE q == tty_puts(t, "text")
<1>1. /\ q \in ShellRecord /\ q.out < OutCap
      /\ q.line = t.line /\ q.mode = t.mode /\ q.esc = t.esc /\ q.closed = t.closed
  BY PutsKeeps, Zenon
<1> HIDE DEF q
<1> DEFINE p == tty_puts(q, "nl")
<1>2. /\ p \in ShellRecord /\ p.out < OutCap
      /\ p.line = q.line /\ p.mode = q.mode /\ p.esc = q.esc /\ p.closed = q.closed
  BY <1>1, PutsKeeps, Zenon
<1>3. TextLine(t) = p
  BY Zenon DEF TextLine, p, q
<1> HIDE DEF p
<1> QED
  BY <1>1, <1>2, <1>3, Zenon

\* A prompt behind an empty line shows the line, and so does one nobody reads.
LEMMA PromptKeeps ==
    ASSUME NEW t \in ShellRecord, t.out < OutCap, Len(t.line) < LineCap,
           t.line = <<>> \/ t.lost
    PROVE  Sound(tty_prompt(t))
<1> DEFINE p == tty_puts(t, "$")
<1>1. /\ p \in ShellRecord /\ p.out < OutCap
      /\ p.line = t.line /\ p.mode = t.mode /\ p.closed = t.closed
      /\ ~p.lost => ~t.lost
      /\ p.out > t.out \/ p.lost
  BY PutsKeeps, Zenon
<1>2. tty_prompt(t) = IF p.out > t.out /\ t.line = <<>>
                      THEN [p EXCEPT !.lost = FALSE, !.screen = <<"$">>] ELSE p
  BY Zenon DEF tty_prompt
<1> HIDE DEF p
<1>3. CASE p.out > t.out /\ t.line = <<>>
  <2> DEFINE r == [p EXCEPT !.lost = FALSE, !.screen = <<"$">>]
  <2>1. <<"$">> \in Seq(Printable \cup {"$"}) /\ <<"$">> = <<"$">> \o <<>>
    OBVIOUS
  <2>2. /\ r \in ShellRecord /\ r.out = p.out /\ r.line = p.line /\ r.screen = <<"$">>
    BY <1>1, <2>1, Zenon DEF ShellRecord
  <2>3. tty_prompt(t) = r
    BY <1>2, <1>3, Zenon
  <2> HIDE DEF r
  <2> QED
    BY <1>1, <1>3, <2>1, <2>2, <2>3, Zenon DEF Sound, Mirrors
<1>4. CASE ~(p.out > t.out /\ t.line = <<>>)
  <2>1. p.lost
    BY <1>1, <1>4, Zenon
  <2> QED
    BY <1>1, <1>2, <1>4, <2>1, Zenon DEF Sound, Mirrors
<1> QED
  BY <1>3, <1>4, Zenon

\* A change of the mode, the sequence or the line that leaves the output alone.
LEMMA Changed ==
    ASSUME NEW t \in ShellRecord
    PROVE  /\ \A e \in {"normal", "esc", "csi"} :
                LET r == [t EXCEPT !.esc = e]
                IN  /\ r \in ShellRecord /\ r.line = t.line /\ r.out = t.out /\ r.mode = t.mode
                    /\ r.closed = t.closed /\ r.lost = t.lost /\ r.screen = t.screen
           /\ \A l \in Seq(Printable) :
                LET r == [t EXCEPT !.line = l]
                IN  /\ r \in ShellRecord /\ r.line = l /\ r.out = t.out /\ r.mode = t.mode
                    /\ r.closed = t.closed /\ r.lost = t.lost /\ r.screen = t.screen
           /\ \A m \in {"line", "attach", "htop"}, e \in {"normal", "esc", "csi"} :
                LET r == [t EXCEPT !.mode = m, !.esc = e]
                IN  /\ r \in ShellRecord /\ r.line = t.line /\ r.out = t.out /\ r.mode = m
           /\ LET r == [t EXCEPT !.mode = "line", !.esc = "normal", !.line = <<>>]
              IN  r \in ShellRecord /\ r.line = <<>> /\ r.out = t.out
           /\ LET r == [t EXCEPT !.mode = "htop", !.armed = FALSE, !.ms = 0]
              IN  r \in ShellRecord /\ r.line = t.line /\ r.out = t.out /\ r.mode = "htop"
<1>1. <<>> \in Seq(Printable) /\ 0 \in Int
  OBVIOUS
<1>2. ASSUME NEW e \in {"normal", "esc", "csi"}
      PROVE  LET r == [t EXCEPT !.esc = e]
             IN  /\ r \in ShellRecord /\ r.line = t.line /\ r.out = t.out /\ r.mode = t.mode
                 /\ r.closed = t.closed /\ r.lost = t.lost /\ r.screen = t.screen
  BY Zenon DEF ShellRecord
<1>3. ASSUME NEW l \in Seq(Printable)
      PROVE  LET r == [t EXCEPT !.line = l]
             IN  /\ r \in ShellRecord /\ r.line = l /\ r.out = t.out /\ r.mode = t.mode
                 /\ r.closed = t.closed /\ r.lost = t.lost /\ r.screen = t.screen
  BY Zenon DEF ShellRecord
<1>4. ASSUME NEW m \in {"line", "attach", "htop"}, NEW e \in {"normal", "esc", "csi"}
      PROVE  LET r == [t EXCEPT !.mode = m, !.esc = e]
             IN  /\ r \in ShellRecord /\ r.line = t.line /\ r.out = t.out /\ r.mode = m
  BY Zenon DEF ShellRecord
<1>5. LET r == [t EXCEPT !.mode = "line", !.esc = "normal", !.line = <<>>]
      IN  r \in ShellRecord /\ r.line = <<>> /\ r.out = t.out
  BY <1>1, Zenon DEF ShellRecord
<1>6. LET r == [t EXCEPT !.mode = "htop", !.armed = FALSE, !.ms = 0]
      IN  r \in ShellRecord /\ r.line = t.line /\ r.out = t.out /\ r.mode = "htop"
  BY <1>1, Zenon DEF ShellRecord
<1> QED
  BY <1>2, <1>3, <1>4, <1>5, <1>6, Zenon

\* Leaving the other modes shows an empty line.
LEMMA LeaveKeeps ==
    ASSUME NEW t, Sound(t)
    PROVE  Sound(leave_mode(t))
<1> DEFINE r == [t EXCEPT !.mode = "line", !.esc = "normal", !.line = <<>>]
           p == tty_puts(r, "nl")
<1>1. t \in ShellRecord /\ t.out < OutCap
  BY Zenon DEF Sound, Mirrors
<1>2. r \in ShellRecord /\ r.line = <<>> /\ r.out = t.out
  BY <1>1, Changed, Zenon
<1>3. leave_mode(t) = tty_prompt(p)
  BY Zenon DEF leave_mode
<1> HIDE DEF r
<1>4. p \in ShellRecord /\ p.out < OutCap /\ p.line = <<>>
  BY <1>1, <1>2, PutsKeeps, Zenon
<1> HIDE DEF p
<1>5. Len(p.line) < LineCap
  BY <1>4, TtyAssumption
<1> QED
  BY <1>3, <1>4, <1>5, PromptKeeps, Zenon

\* A command runs with its line taken off the buffer.
LEMMA ExecKeeps ==
    ASSUME NEW t \in ShellRecord, t.out < OutCap, NEW env \in BOOLEAN
    PROVE  LET r == exec_line(t, env)
           IN  r \in ShellRecord /\ r.out < OutCap /\ r.line = <<>>
<1> DEFINE e == [t EXCEPT !.line = <<>>]
           Ran(r) == r \in ShellRecord /\ r.out < OutCap /\ r.line = <<>>
<1>1. <<>> \in Seq(Printable)
  OBVIOUS
<1>2. Ran(e)
  <2>1. e \in ShellRecord /\ e.line = <<>> /\ e.out = t.out
    BY <1>1, Zenon DEF ShellRecord
  <2> HIDE DEF e
  <2> QED
    BY <2>1, Zenon
<1>3. exec_line(t, env) \in {e, focus_app(e, env), cmd_htop(e), cmd_exit(e), Reports(e, env),
                            TextLine(e)}
  <2>1. exec_line(t, env) =
          CASE t.line = <<>> -> e
            [] t.line = <<"f">> -> focus_app(e, env)
            [] t.line = <<"h">> -> cmd_htop(e)
            [] t.line = <<"x">> -> cmd_exit(e)
            [] t.line = <<"A">> -> Reports(e, env)
            [] OTHER -> TextLine(e)
    BY Zenon DEF exec_line
  <2> HIDE DEF e
  <2> QED
    BY <2>1, Zenon
<1> HIDE DEF e
<1>4. Ran(TextLine(e))
  BY <1>2, TextKeeps, Zenon
<1>5. Ran(focus_app(e, env))
  <2> DEFINE f == [e EXCEPT !.mode = "attach", !.esc = "normal"]
  <2>1. Ran(f)
    BY <1>2, Changed, ZenonT(40)
  <2> HIDE DEF f
  <2>2. Ran(TextLine(f))
    BY <2>1, TextKeeps, Zenon
  <2>3. focus_app(e, env) \in {TextLine(f), TextLine(e)}
    BY Zenon DEF focus_app, f
  <2> QED
    BY <1>4, <2>2, <2>3, Zenon
<1>6. Ran(cmd_htop(e))
  <2> DEFINE f == [e EXCEPT !.mode = "htop", !.armed = FALSE, !.ms = 0]
  <2>1. Ran(f)
    BY <1>2, Changed, ZenonT(40)
  <2>2. cmd_htop(e) = TextLine(f)
    BY Zenon DEF cmd_htop
  <2> HIDE DEF f
  <2> QED
    BY <2>1, <2>2, TextKeeps, Zenon
<1>7. Ran(cmd_exit(e))
  <2> DEFINE f == TextLine(e)
             g == tty_puts(f, "eot")
  <2>1. cmd_exit(e) = [g EXCEPT !.closed = TRUE]
    BY Zenon DEF cmd_exit
  <2> HIDE DEF f
  <2>2. Ran(f)
    BY <1>4, Zenon DEF f
  <2>3. Ran(g)
    BY <2>2, PutsKeeps, Zenon
  <2> HIDE DEF g
  <2>4. Ran([g EXCEPT !.closed = TRUE])
    BY <2>3, Zenon DEF ShellRecord
  <2> QED
    BY <2>1, <2>4, Zenon
<1>8. Ran(Reports(e, env))
  <2>1. Ran(tty_puts(e, "text"))
    BY <1>2, PutsKeeps, Zenon
  <2> QED
    BY <1>4, <2>1, Zenon DEF Reports
<1> HIDE DEF Ran
<1>9. Ran(exec_line(t, env))
  BY <1>2, <1>3, <1>4, <1>5, <1>6, <1>7, <1>8, Zenon
<1> QED
  BY <1>9, Zenon DEF Ran

\* A byte in line mode: a command is run or given up behind a fresh prompt, a
\* character goes to the line and the screen or to neither.
LEMMA LineKeeps ==
    ASSUME NEW t, Sound(t), t.mode = "line", NEW b \in InputBytes \ {"ESC"}, NEW env \in BOOLEAN
    PROVE  Sound(line_byte(t, b, env))
<1>1. t \in ShellRecord /\ t.out < OutCap /\ Len(t.line) < LineCap
  BY Zenon DEF Sound, Mirrors
<1>2. t.line \in Seq(Printable) /\ Len(t.line) \in Nat /\ LineCap \in Nat \ {0} /\ <<>> \in Seq(Printable)
  BY <1>1, TtyAssumption DEF ShellRecord
<1>3. (~t.closed /\ ~t.lost) => t.screen = <<"$">> \o t.line
  BY Zenon DEF Sound, Mirrors
<1>4. CASE b = "^C"
  <2> DEFINE r == [t EXCEPT !.line = <<>>]
             p == tty_puts(r, "^")
             q == tty_puts(p, "nl")
  <2>1. r \in ShellRecord /\ r.line = <<>> /\ r.out = t.out
    BY <1>1, <1>2, Zenon DEF ShellRecord
  <2>2. line_byte(t, b, env) = tty_prompt(q)
    BY <1>4, Zenon DEF line_byte
  <2> HIDE DEF r
  <2>3. p \in ShellRecord /\ p.out < OutCap /\ p.line = <<>>
    BY <1>1, <2>1, PutsKeeps, Zenon
  <2> HIDE DEF p
  <2>4. q \in ShellRecord /\ q.out < OutCap /\ q.line = <<>>
    BY <2>3, PutsKeeps, Zenon
  <2> HIDE DEF q
  <2>5. Len(q.line) < LineCap
    BY <1>2, <2>4
  <2> QED
    BY <2>2, <2>4, <2>5, PromptKeeps, Zenon
<1>5. CASE b = "CR"
  <2> DEFINE p == tty_puts(t, "nl")
             ran == exec_line(p, env)
  <2>1. line_byte(t, b, env) = IF ran.mode = "line" /\ ~ran.closed THEN tty_prompt(ran) ELSE ran
    BY <1>5, Zenon DEF line_byte
  <2>2. p \in ShellRecord /\ p.out < OutCap
    BY <1>1, PutsKeeps, Zenon
  <2> HIDE DEF p
  <2>3. ran \in ShellRecord /\ ran.out < OutCap /\ ran.line = <<>>
    BY <2>2, ExecKeeps, Zenon
  <2> HIDE DEF ran
  <2>4. Len(ran.line) < LineCap
    BY <1>2, <2>3
  <2>5. CASE ran.mode = "line" /\ ~ran.closed
    BY <2>1, <2>3, <2>4, <2>5, PromptKeeps, Zenon
  <2>6. CASE ~(ran.mode = "line" /\ ~ran.closed)
    BY <2>1, <2>3, <2>4, <2>6, Zenon DEF Sound, Mirrors
  <2> QED
    BY <2>5, <2>6, Zenon
<1>6. CASE b = "BS"
  <2>1. line_byte(t, b, env) = IF t.line = <<>> THEN t
                               ELSE tty_puts([t EXCEPT !.line = ButLast(@)], "del")
    BY <1>6, Zenon DEF line_byte
  <2>2. CASE t.line = <<>>
    BY <2>1, <2>2, Zenon
  <2>3. CASE t.line # <<>>
    <3> DEFINE l == ButLast(t.line)
               r == [t EXCEPT !.line = l]
               p == tty_puts(r, "del")
    <3>1. l \in Seq(Printable) /\ Len(l) < LineCap
      BY <1>1, <1>2, <2>3, ButLastType
    <3>2. line_byte(t, b, env) = p
      BY <1>1, <2>1, <2>3, Zenon DEF ShellRecord
    <3>3. t.screen = <<"$">> \o t.line => Shown(t.screen, "del") = <<"$">> \o l
      <4>1. "del" \notin Printable /\ "del" # "$"
        BY Zenon DEF Printable
      <4> QED
        BY <1>2, <2>3, <4>1, TypedAndErased, Zenon DEF Shown
    <3> HIDE DEF l
    <3>4. /\ r \in ShellRecord /\ r.line = l /\ r.out = t.out /\ r.mode = t.mode
          /\ r.closed = t.closed /\ r.lost = t.lost /\ r.screen = t.screen
      BY <1>1, <3>1, Zenon DEF ShellRecord
    <3> HIDE DEF r
    <3>5. /\ p \in ShellRecord /\ p.out < OutCap /\ p.line = l /\ p.closed = t.closed
          /\ ~p.lost => (~t.lost /\ p.screen = Shown(t.screen, "del"))
      BY <1>1, <3>4, PutsKeeps
    <3> HIDE DEF p
    <3>6. (~p.closed /\ ~p.lost) => p.screen = <<"$">> \o p.line
      BY <1>3, <3>3, <3>5, Zenon
    <3> QED
      BY <3>1, <3>2, <3>5, <3>6, Zenon DEF Sound, Mirrors
  <2> QED
    BY <2>2, <2>3, Zenon
<1>7. CASE b = "^Z"
  BY <1>7, Zenon DEF line_byte
<1>8. CASE b \in Printable
  <2>1. line_byte(t, b, env) = IF Len(t.line) + 1 >= LineCap THEN t
                               ELSE tty_puts([t EXCEPT !.line = Append(@, b)], b)
    BY <1>8, Zenon DEF line_byte, Printable
  <2>2. CASE Len(t.line) + 1 >= LineCap
    BY <2>1, <2>2, Zenon
  <2>3. CASE ~(Len(t.line) + 1 >= LineCap)
    <3> DEFINE l == Append(t.line, b)
               r == [t EXCEPT !.line = l]
               p == tty_puts(r, b)
    <3>1. l \in Seq(Printable) /\ Len(l) < LineCap
      BY <1>1, <1>2, <1>8, <2>3
    <3>2. line_byte(t, b, env) = p
      BY <1>1, <2>1, <2>3, Zenon DEF ShellRecord
    <3>3. t.screen = <<"$">> \o t.line => Shown(t.screen, b) = <<"$">> \o l
      <4>1. b # "del" /\ b # "$"
        BY <1>8, Zenon DEF Printable
      <4> QED
        BY <1>2, <1>8, <4>1, TypedAndErased, ZenonT(40) DEF Shown
    <3> HIDE DEF l
    <3>4. /\ r \in ShellRecord /\ r.line = l /\ r.out = t.out /\ r.mode = t.mode
          /\ r.closed = t.closed /\ r.lost = t.lost /\ r.screen = t.screen
      BY <1>1, <3>1, Zenon DEF ShellRecord
    <3> HIDE DEF r
    <3>5. /\ p \in ShellRecord /\ p.out < OutCap /\ p.line = l /\ p.closed = t.closed
          /\ ~p.lost => (~t.lost /\ p.screen = Shown(t.screen, b))
      BY <1>1, <3>4, PutsKeeps
    <3> HIDE DEF p
    <3>6. (~p.closed /\ ~p.lost) => p.screen = <<"$">> \o p.line
      BY <1>3, <3>3, <3>5, Zenon
    <3> QED
      BY <3>1, <3>2, <3>5, <3>6, Zenon DEF Sound, Mirrors
  <2> QED
    BY <2>2, <2>3, Zenon
<1> QED
  BY <1>4, <1>5, <1>6, <1>7, <1>8, Zenon DEF InputBytes

\* A byte in attach mode: it leaves the mode or shows nothing behind a prompt.
LEMMA AttachKeeps ==
    ASSUME NEW t, Sound(t), t.mode = "attach", NEW b
    PROVE  Sound(attach_byte(t, b))
<1> DEFINE Attached(r) == r \in ShellRecord /\ r.out < OutCap /\ r.line = t.line /\ r.mode = "attach"
<1>1. Attached(t) /\ Len(t.line) < LineCap
  BY Zenon DEF Sound, Mirrors
<1>2. ASSUME NEW e \in {"normal", "esc", "csi"}
      PROVE  Attached([t EXCEPT !.esc = e])
  <2> DEFINE r == [t EXCEPT !.esc = e]
  <2>1. r \in ShellRecord /\ r.line = t.line /\ r.out = t.out /\ r.mode = t.mode
    BY <1>1, Zenon DEF ShellRecord
  <2> HIDE DEF r
  <2>2. Attached(r)
    BY <1>1, <2>1, Zenon
  <2> QED
    BY <2>2, Zenon DEF r
<1>3. ASSUME NEW r, Attached(r)
      PROVE  Attached(attach_key(r))
  BY <1>3, TextKeeps, Zenon DEF attach_key
<1>4. ASSUME NEW r, Attached(r)
      PROVE  Sound(r)
  BY <1>1, <1>4, Zenon DEF Sound, Mirrors
<1>5. \/ attach_byte(t, b) = leave_mode(t)
      \/ \E r : /\ r = t \/ \E e \in {"normal", "esc", "csi"} : r = [t EXCEPT !.esc = e]
              /\ attach_byte(t, b) \in {r, attach_key(r)}
  <2>1. CASE b \in {"^C", "^Z"}
    BY <2>1, Zenon DEF attach_byte
  <2>2. CASE b \notin {"^C", "^Z"} /\ t.esc = "esc"
    <3> DEFINE r == AfterEsc(t, b)
    <3>1. \E e \in {"normal", "esc", "csi"} : r = [t EXCEPT !.esc = e]
      BY Zenon DEF AfterEsc
    <3>2. attach_byte(t, b) = IF b = "[" THEN r ELSE attach_key(r)
      BY <2>2, Zenon DEF attach_byte
    <3> HIDE DEF r
    <3> QED
      BY <3>1, <3>2, Zenon
  <2>3. CASE b \notin {"^C", "^Z"} /\ t.esc = "csi"
    <3> DEFINE r == [t EXCEPT !.esc = "normal"]
    <3>1. \E e \in {"normal", "esc", "csi"} : r = [t EXCEPT !.esc = e]
      BY Zenon
    <3>2. attach_byte(t, b) = IF b = "A" THEN attach_key(r) ELSE r
      BY <2>3, Zenon DEF attach_byte
    <3> HIDE DEF r
    <3> QED
      BY <3>1, <3>2, Zenon
  <2>4. CASE b \notin {"^C", "^Z"} /\ t.esc # "esc" /\ t.esc # "csi"
    <3> DEFINE r == [t EXCEPT !.esc = "esc"]
    <3>1. \E e \in {"normal", "esc", "csi"} : r = [t EXCEPT !.esc = e]
      BY Zenon
    <3>2. attach_byte(t, b) = IF b = "ESC" THEN r
                              ELSE IF b \in KeyBytes THEN attach_key(t) ELSE t
      BY <2>4, Zenon DEF attach_byte
    <3> HIDE DEF r
    <3> QED
      BY <3>1, <3>2, Zenon
  <2> QED
    BY <2>1, <2>2, <2>3, <2>4, Zenon
<1> HIDE DEF Attached
<1> QED
  BY <1>1, <1>2, <1>3, <1>4, <1>5, LeaveKeeps, Zenon

\* A byte in any mode.
LEMMA ByteKeeps ==
    ASSUME NEW t, Sound(t), NEW b \in InputBytes, NEW env \in BOOLEAN
    PROVE  Sound(tty_service_input(t, b, env))
<1>1. ASSUME NEW e \in {"normal", "esc", "csi"}
      PROVE  Sound([t EXCEPT !.esc = e])
  <2> DEFINE r == [t EXCEPT !.esc = e]
  <2>1. t \in ShellRecord
    BY Zenon DEF Sound
  <2>2. /\ r \in ShellRecord /\ r.line = t.line /\ r.out = t.out /\ r.mode = t.mode
        /\ r.closed = t.closed /\ r.lost = t.lost /\ r.screen = t.screen
    BY <2>1, Zenon DEF ShellRecord
  <2> HIDE DEF r
  <2>3. Sound(r)
    BY <2>2, Zenon DEF Sound, Mirrors
  <2> QED
    BY <2>3, Zenon DEF r
<1>2. CASE t.mode = "htop"
  BY <1>2, LeaveKeeps, Zenon DEF tty_service_input
<1>3. CASE t.mode = "attach"
  BY <1>3, AttachKeeps, Zenon DEF tty_service_input
<1>4. CASE t.mode = "line" /\ t.esc = "esc"
  <2>1. tty_service_input(t, b, env) = [t EXCEPT !.esc = IF b = "[" THEN "csi" ELSE "normal"]
    BY <1>4, Zenon DEF tty_service_input, AfterEsc
  <2> QED
    BY <1>1, <2>1, Zenon
<1>5. CASE t.mode = "line" /\ t.esc = "csi"
  <2>1. tty_service_input(t, b, env) = [t EXCEPT !.esc = "normal"]
    BY <1>5, Zenon DEF tty_service_input
  <2> QED
    BY <1>1, <2>1, Zenon
<1>6. CASE t.mode = "line" /\ t.esc # "esc" /\ t.esc # "csi"
  <2>1. tty_service_input(t, b, env) =
          IF b = "ESC" THEN [t EXCEPT !.esc = "esc"] ELSE line_byte(t, b, env)
    BY <1>6, Zenon DEF tty_service_input
  <2> QED
    BY <1>1, <1>6, <2>1, LineKeeps
<1>7. t.mode \in {"line", "attach", "htop"}
  BY Zenon DEF Sound, ShellRecord
<1> QED
  BY <1>2, <1>3, <1>4, <1>5, <1>6, <1>7, Zenon

\* A hello opens the shell behind a prompt of its own.
LEMMA HelloKeeps ==
    ASSUME NEW t \in ShellRecord, t.out < OutCap, Len(t.line) < LineCap
    PROVE  Sound(tty_service_open(t))
<1> DEFINE lost == t.lost \/ t.line # <<>>
           r == [t EXCEPT !.closed = FALSE, !.mode = "line", !.lost = lost]
<1>1. lost \in BOOLEAN
  BY Zenon DEF ShellRecord
<1>2. t.line = <<>> \/ lost
  BY Zenon
<1>3. tty_service_open(t) = tty_prompt(r)
  BY Zenon DEF tty_service_open, ShellRecord
<1> HIDE DEF lost
<1>4. r \in ShellRecord /\ r.line = t.line /\ r.out = t.out /\ r.lost = lost
  BY <1>1, Zenon DEF ShellRecord
<1> HIDE DEF r
<1> QED
  BY <1>2, <1>3, <1>4, PromptKeeps, Zenon

\* A poll shows nothing behind a prompt.
LEMMA PollKeeps ==
    ASSUME NEW t, Sound(t), NEW now \in Int
    PROVE  Sound(tty_service_poll(t, now))
<1>1. t \in ShellRecord /\ t.out < OutCap /\ Len(t.line) < LineCap
  BY Zenon DEF Sound, Mirrors
<1>2. CASE t.mode # "htop"
  BY <1>2, Zenon DEF tty_service_poll
<1>3. CASE t.mode = "htop"
  <2> DEFINE Shows(r) == r \in ShellRecord /\ r.out < OutCap /\ r.line = t.line /\ r.mode = "htop"
             a == [t EXCEPT !.armed = TRUE, !.ms = now]
             r == [t EXCEPT !.ms = now]
  <2>1. a \in ShellRecord /\ a.line = t.line /\ a.out = t.out /\ a.mode = t.mode
    BY <1>1, Zenon DEF ShellRecord
  <2>2. r \in ShellRecord /\ r.line = t.line /\ r.out = t.out /\ r.mode = t.mode
    BY <1>1, Zenon DEF ShellRecord
  <2>3. tty_service_poll(t, now) \in {a, t, TextLine(r)}
    BY <1>3, Zenon DEF tty_service_poll
  <2> HIDE DEF a, r
  <2>4. Shows(a) /\ Shows(t) /\ Shows(r)
    BY <1>1, <1>3, <2>1, <2>2, Zenon
  <2>5. Shows(TextLine(r))
    BY <2>4, TextKeeps, Zenon
  <2>6. Shows(tty_service_poll(t, now))
    BY <2>3, <2>4, <2>5, Zenon
  <2> QED
    BY <1>1, <2>6, Zenon DEF Sound, Mirrors
<1> QED
  BY <1>2, <1>3, Zenon

\* The shell is opened by the first hello behind a prompt.
LEMMA TtyInitInv == TtyInit => TtyInv
<1> SUFFICES ASSUME TtyInit PROVE TtyInv
  BY Zenon
<1>1. LineCap \in Nat \ {0} /\ OutCap \in Nat \ {0} /\ TimeMod \in Nat
  BY TtyAssumption, Zenon
<1> DEFINE r == tty_service_reset
<1>2. r \in ShellRecord /\ r.out = 0 /\ r.line = <<>>
  BY DEF tty_service_reset, ShellRecord
<1>3. tty = tty_service_open(r) /\ tty_now = TimeMod - 1
  BY Zenon DEF TtyInit
<1> HIDE DEF r
<1>4. r.out < OutCap /\ Len(r.line) < LineCap
  BY <1>1, <1>2
<1>5. Sound(tty)
  BY <1>2, <1>3, <1>4, HelloKeeps, Zenon
<1> QED
  BY <1>1, <1>3, <1>5 DEF TtyInv

\* Every step of the shell keeps the line and the screen together.
LEMMA TtyNextInv == TtyInv /\ [TtyNext]_ttyVars => TtyInv'
<1> SUFFICES ASSUME TtyInv, [TtyNext]_ttyVars PROVE TtyInv'
  BY Zenon
<1>1. Sound(tty) /\ tty_now \in Int /\ TimeMod \in Nat \ {0}
  BY TtyAssumption, Zenon DEF TtyInv
<1>2. tty \in ShellRecord /\ tty.out < OutCap /\ Len(tty.line) < LineCap
  BY <1>1, Zenon DEF Sound, Mirrors
<1>3. CASE \E b \in InputBytes, env \in BOOLEAN : Input(b, env)
  BY <1>1, <1>3, ByteKeeps, Zenon DEF Input, TtyInv
<1>4. CASE Open
  BY <1>1, <1>2, <1>4, HelloKeeps, Zenon DEF Open, TtyInv
<1>5. CASE Read
  <2>1. PICK n \in 1..tty.out : tty' = [tty EXCEPT !.out = tty.out - n] /\ tty_now' = tty_now
    BY <1>2, <1>5, Zenon DEF Read, tty_service_read, ShellRecord
  <2> DEFINE out == tty.out - n
             r == [tty EXCEPT !.out = out]
  <2>2. out \in Nat /\ out < OutCap
    BY <1>2, TtyAssumption, SMTT(30) DEF ShellRecord
  <2> HIDE DEF out
  <2>3. /\ r \in ShellRecord /\ r.line = tty.line /\ r.out = out /\ r.mode = tty.mode
        /\ r.closed = tty.closed /\ r.lost = tty.lost /\ r.screen = tty.screen
    BY <1>2, <2>2, Zenon DEF ShellRecord
  <2>4. tty' = r
    BY <2>1, Zenon DEF out
  <2> HIDE DEF r
  <2>5. Sound(r)
    BY <1>1, <2>2, <2>3, Zenon DEF Sound, Mirrors
  <2> QED
    BY <1>1, <2>1, <2>4, <2>5, Zenon DEF TtyInv
<1>6. CASE Poll
  <2>1. tty_now' = (tty_now + 1) % TimeMod /\ tty' = tty_service_poll(tty, tty_now')
    BY <1>6, Zenon DEF Poll
  <2>2. tty_now' \in Int
    BY <1>1, <2>1
  <2> QED
    BY <1>1, <2>1, <2>2, PollKeeps, Zenon DEF TtyInv
<1>7. CASE UNCHANGED ttyVars
  BY <1>1, <1>7, Zenon DEF ttyVars, TtyInv
<1> QED
  BY <1>3, <1>4, <1>5, <1>6, <1>7, Zenon DEF TtyNext

\* The shell of tty_service.c runs the line its user sees, for every size of its
\* buffers: in line mode the prompt on the terminal is followed by the line and
\* no more, unless output was cut or the line is left from an earlier session.
THEOREM LineOnTheScreen == TtySpec => []ShownIsTyped
<1>1. TtyInv => ShownIsTyped
  BY Zenon DEF TtyInv, Sound, Mirrors, ShownIsTyped
<1> QED
  BY <1>1, TtyInitInv, TtyNextInv, PTL DEF TtySpec

-----------------------------------------------------------------------------
(* The cards.                                                              *)

Moment == 0..(NoteMod - 1)
Offset == (-CardHeight)..0
Card == [duration_ms : Durations, show_at : Moment, exit_at : Moment, exit_from : Offset,
         dismissed : BOOLEAN]

\* The clock shows the age of the card on the screen, until its life is over.
AgeShows ==
    g_q # <<>> /\ ~g_q[1].dismissed /\ note_hist.age < Life(g_q[1]) =>
        Elapsed(note_now, g_q[1].show_at) = note_hist.age

NotifyInv ==
    /\ g_q \in Seq(Card) /\ note_now \in Moment
    /\ note_hist \in [age : Nat, short : {FALSE}]
    /\ AgeShows

-----------------------------------------------------------------------------
(* The clock.                                                               *)

\* The time between two moments.
LEMMA ElapsedIs ==
    ASSUME NEW n \in Moment, NEW t \in Moment
    PROVE  /\ Elapsed(n, t) \in Moment
           /\ n >= t => Elapsed(n, t) = n - t
           /\ Elapsed(t, t) = 0
<1> DEFINE M == NoteMod
<1>1. M \in Nat \ {0} /\ n \in 0..(M - 1) /\ t \in 0..(M - 1)
  BY NotifyAssumption DEF Moment
<1> HIDE DEF M
<1>2. /\ (n - t) % M \in 0..(M - 1) /\ (n >= t => (n - t) % M = n - t) /\ (t - t) % M = 0
  BY <1>1
<1> QED
  BY <1>2, Zenon DEF Elapsed, Moment, M

\* A tick later the time between them is one more, while it fits the clock.
LEMMA ElapsedTicks ==
    ASSUME NEW n \in Moment, NEW t \in Moment, Elapsed(n, t) + 1 < NoteMod
    PROVE  Elapsed((n + 1) % NoteMod, t) = Elapsed(n, t) + 1
<1> DEFINE M == NoteMod
<1>1. M \in Nat \ {0} /\ n \in 0..(M - 1) /\ t \in 0..(M - 1) /\ ((n - t) % M) + 1 < M
  BY NotifyAssumption DEF Moment, Elapsed
<1> HIDE DEF M
<1>2. (((n + 1) % M) - t) % M = ((n - t) % M) + 1
  <2>1. CASE n >= t
    <3>1. (n - t) % M = n - t
      BY <1>1, <2>1
    <3>2. CASE n + 1 < M
      <4>1. (n + 1) % M = n + 1
        BY <1>1, <3>2
      <4> QED
        BY <1>1, <2>1, <3>1, <4>1
    <3>3. CASE n + 1 = M
      <4>1. (n + 1) % M = 0
        BY <1>1, <3>3
      <4>2. t > 0
        BY <1>1, <3>1, <3>3
      <4>3. (0 - t) % M = M - t
        BY <1>1, <4>2
      <4> QED
        BY <1>1, <3>1, <3>3, <4>1, <4>3
    <3> QED
      BY <1>1, <3>2, <3>3
  <2>2. CASE n < t
    <3>1. (n - t) % M = n - t + M
      BY <1>1, <2>2
    <3>2. (n + 1) % M = n + 1
      BY <1>1, <2>2
    <3>3. (n + 1 - t) % M = n + 1 - t + M
      BY <1>1, <2>2, <3>1
    <3> QED
      BY <3>1, <3>2, <3>3, <1>1
  <2> QED
    BY <1>1, <2>1, <2>2
<1> QED
  BY <1>2, Zenon DEF Elapsed, M

\* A share of the rows of a card is no more than all of them.
LEMMA ScaledInRange ==
    ASSUME NEW h \in Nat, NEW e \in Nat, e <= AnimMs
    PROVE  Scaled(h, e) \in 0..h
<1> DEFINE A == AnimMs
           q == (h * e) \div A
<1>1. A \in Nat \ {0} /\ e \in 0..A
  BY NotifyAssumption
<1> HIDE DEF A
<1>2. h * e <= h * A /\ h * e \in Nat /\ h * A \in Nat
  BY <1>1
<1>3. q \in Nat /\ q * A <= h * e
  <2>1. \A x \in Nat : x \div A \in Nat /\ (x \div A) * A <= x
    BY <1>1
  <2> QED
    BY <1>2, <2>1, Zenon
<1> HIDE DEF q
<1>4. q <= h
  <2>1. SUFFICES ASSUME q >= h + 1 PROVE FALSE
    BY <1>3
  <2>2. q * A >= (h + 1) * A
    BY <1>1, <1>3, <2>1
  <2>3. (h + 1) * A = h * A + A
    BY <1>1
  <2> QED
    BY <1>1, <1>2, <1>3, <2>2, <2>3
<1> QED
  BY <1>3, <1>4 DEF Scaled, q, A

-----------------------------------------------------------------------------
(* The card on the screen.                                                  *)

\* What the invariant says of the first card.
LEMMA FirstCard ==
    ASSUME NotifyInv, g_q # <<>>
    PROVE  /\ g_q[1] \in Card /\ g_q[1].duration_ms \in Durations
           /\ g_q[1].show_at \in Moment /\ g_q[1].exit_at \in Moment
           /\ g_q[1].exit_from \in Offset /\ g_q[1].dismissed \in BOOLEAN
<1>1. g_q[1] \in Card
  BY DEF NotifyInv
<1> QED
  BY <1>1, Zenon DEF Card

\* The life of a card fits the clock.
LEMMA LifeFits ==
    ASSUME NEW c \in Card
    PROVE  hold_ms(c) \in Nat /\ Life(c) \in Nat /\ Life(c) <= NoteMod /\ AnimMs <= NoteMod
<1>1. c.duration_ms \in Durations
  BY Zenon DEF Card
<1>2. hold_ms(c) \in Durations \cup {HoldMs}
  BY <1>1, Zenon DEF hold_ms
<1>3. hold_ms(c) \in Nat /\ AnimMs \in Nat /\ NoteMod \in Nat
  BY <1>2, NotifyAssumption, Zenon
<1>4. AnimMs + hold_ms(c) + AnimMs <= NoteMod
  BY <1>2, NotifyAssumption, Zenon
<1> QED
  BY <1>3, <1>4 DEF Life

\* A moment after another is a moment.
LEMMA AfterIs ==
    ASSUME NEW t \in Moment, NEW ms \in Nat, ms <= NoteMod
    PROVE  /\ NoteAfter(t, ms) \in Moment
           /\ NoteAfter(t, ms) = IF t + ms < NoteMod THEN t + ms ELSE t + ms - NoteMod
<1> DEFINE M == NoteMod
<1>1. M \in Nat \ {0} /\ t \in 0..(M - 1) /\ ms \in 0..M
  BY NotifyAssumption DEF Moment
<1> HIDE DEF M
<1>2. (t + ms) % M = IF t + ms < M THEN t + ms ELSE t + ms - M
  BY <1>1
<1> QED
  BY <1>1, <1>2 DEF NoteAfter, Moment, M

\* A card is between hidden and fully shown.
LEMMA OffsetInRange ==
    ASSUME NotifyInv, g_q # <<>>
    PROVE  notify_service_slide_offset \in Offset
<1> DEFINE c == g_q[1]
           h == CardHeight
           enter == NoteAfter(c.show_at, AnimMs)
           hold == NoteAfter(enter, hold_ms(c))
<1>1. /\ c \in Card /\ c.show_at \in Moment /\ c.exit_at \in Moment
      /\ c.exit_from \in Offset /\ c.dismissed \in BOOLEAN
  BY FirstCard, Zenon
<1>2. hold_ms(c) \in Nat /\ hold_ms(c) <= NoteMod /\ AnimMs <= NoteMod /\ AnimMs \in Nat /\ NoteMod \in Nat
  <2>1. hold_ms(c) \in Nat /\ AnimMs + hold_ms(c) + AnimMs <= NoteMod
    BY <1>1, LifeFits, Zenon DEF Life
  <2>2. AnimMs \in Nat /\ NoteMod \in Nat
    BY NotifyAssumption, Zenon
  <2> QED
    BY <2>1, <2>2
<1>3. note_now \in Moment /\ h \in Nat
  BY NotifyAssumption, Zenon DEF NotifyInv
<1>4. enter \in Moment /\ enter = IF c.show_at + AnimMs < NoteMod THEN c.show_at + AnimMs
                                  ELSE c.show_at + AnimMs - NoteMod
  BY <1>1, <1>2, AfterIs, Zenon
<1>5. hold \in Moment
  BY <1>2, <1>4, AfterIs, Zenon
<1>6. notify_service_slide_offset =
        IF c.dismissed
        THEN IF note_now < c.exit_at THEN c.exit_from
             ELSE IF Elapsed(note_now, c.exit_at) >= AnimMs THEN -h
             ELSE c.exit_from - Scaled(h + c.exit_from, Elapsed(note_now, c.exit_at))
        ELSE IF note_now < c.show_at THEN -h
             ELSE IF note_now < enter THEN Scaled(h, Elapsed(note_now, c.show_at)) - h
             ELSE IF note_now < hold THEN 0
             ELSE IF Elapsed(note_now, hold) >= AnimMs THEN -h
             ELSE -Scaled(h, Elapsed(note_now, hold))
  BY Zenon DEF notify_service_slide_offset
<1>7. /\ Elapsed(note_now, c.exit_at) \in Nat /\ Elapsed(note_now, hold) \in Nat
      /\ Elapsed(note_now, c.show_at) \in Nat
      /\ note_now >= c.show_at => Elapsed(note_now, c.show_at) = note_now - c.show_at
  <2>1. Moment \subseteq Nat
    BY <1>2 DEF Moment
  <2> QED
    BY <1>1, <1>3, <1>5, <2>1, ElapsedIs, Zenon
<1> HIDE DEF c, h, enter, hold
<1>8. ASSUME NEW e \in Nat, e <= AnimMs, NEW g \in 0..h PROVE Scaled(g, e) \in 0..g
  BY <1>3, <1>8, ScaledInRange
<1>9. CASE c.dismissed
  <2>1. c.exit_from \in (-h)..0 /\ h + c.exit_from \in 0..h
    BY <1>1, <1>3 DEF Offset, h
  <2>2. CASE note_now < c.exit_at
    BY <1>1, <1>6, <1>9, <2>2, Zenon
  <2>3. CASE ~(note_now < c.exit_at) /\ Elapsed(note_now, c.exit_at) >= AnimMs
    <3>1. notify_service_slide_offset = -h
      BY <1>6, <1>9, <2>3, Zenon
    <3> QED
      BY <1>3, <3>1 DEF Offset, h
  <2>4. CASE ~(note_now < c.exit_at) /\ ~(Elapsed(note_now, c.exit_at) >= AnimMs)
    <3> DEFINE s == Scaled(h + c.exit_from, Elapsed(note_now, c.exit_at))
    <3>1. notify_service_slide_offset = c.exit_from - s
      BY <1>6, <1>9, <2>4, Zenon
    <3>2. Elapsed(note_now, c.exit_at) <= AnimMs
      BY <1>2, <1>7, <2>4
    <3>3. s \in 0..(h + c.exit_from)
      BY <1>7, <1>8, <2>1, <3>2, Zenon
    <3> HIDE DEF s
    <3>4. c.exit_from - s \in (-h)..0
      BY <1>3, <2>1, <3>3
    <3> QED
      BY <3>1, <3>4, Zenon DEF Offset, h
  <2> QED
    BY <2>2, <2>3, <2>4, Zenon
<1>10. CASE ~c.dismissed
  <2>1. CASE note_now < c.show_at
    <3>1. notify_service_slide_offset = -h
      BY <1>6, <1>10, <2>1, Zenon
    <3> QED
      BY <1>3, <3>1 DEF Offset, h
  <2>2. CASE ~(note_now < c.show_at) /\ note_now < enter
    <3> DEFINE s == Scaled(h, Elapsed(note_now, c.show_at))
    <3>1. notify_service_slide_offset = s - h
      BY <1>6, <1>10, <2>2, Zenon
    <3>2. Elapsed(note_now, c.show_at) = note_now - c.show_at /\ note_now - c.show_at <= AnimMs
      BY <1>1, <1>2, <1>3, <1>4, <1>7, <2>2, SMTT(30) DEF Moment
    <3>3. s \in 0..h
      BY <1>3, <1>7, <1>8, <3>2
    <3> HIDE DEF s
    <3>4. s - h \in (-h)..0
      BY <1>3, <3>3
    <3> QED
      BY <3>1, <3>4, Zenon DEF Offset, h
  <2>3. CASE ~(note_now < c.show_at) /\ ~(note_now < enter) /\ note_now < hold
    <3>1. notify_service_slide_offset = 0
      BY <1>6, <1>10, <2>3, Zenon
    <3> QED
      BY <1>3, <3>1 DEF Offset, h
  <2>4. CASE /\ ~(note_now < c.show_at) /\ ~(note_now < enter) /\ ~(note_now < hold)
             /\ Elapsed(note_now, hold) >= AnimMs
    <3>1. notify_service_slide_offset = -h
      BY <1>6, <1>10, <2>4, Zenon
    <3> QED
      BY <1>3, <3>1 DEF Offset, h
  <2>5. CASE /\ ~(note_now < c.show_at) /\ ~(note_now < enter) /\ ~(note_now < hold)
             /\ ~(Elapsed(note_now, hold) >= AnimMs)
    <3> DEFINE s == Scaled(h, Elapsed(note_now, hold))
    <3>1. notify_service_slide_offset = -s
      BY <1>6, <1>10, <2>5, Zenon
    <3>2. Elapsed(note_now, hold) <= AnimMs
      BY <1>2, <1>7, <2>5
    <3>3. s \in 0..h
      BY <1>3, <1>7, <1>8, <3>2
    <3> HIDE DEF s
    <3>4. -s \in (-h)..0
      BY <1>3, <3>3
    <3> QED
      BY <3>1, <3>4, Zenon DEF Offset, h
  <2> QED
    BY <2>1, <2>2, <2>3, <2>4, <2>5, Zenon
<1> QED
  BY <1>9, <1>10, Zenon

-----------------------------------------------------------------------------
(* The steps.                                                               *)

\* No card at boot.
LEMMA NotifyInitInv == NotifyInit => NotifyInv
<1> SUFFICES ASSUME NotifyInit PROVE NotifyInv
  BY Zenon
<1>1. g_q = <<>> /\ note_now \in Moment /\ note_hist = [age |-> 0, short |-> FALSE]
  BY Zenon DEF NotifyInit, Moment
<1> QED
  BY <1>1 DEF NotifyInv, AgeShows

\* notify_post: the first card of an empty queue is of age 0, one behind others
\* changes nothing for the card on the screen.
LEMMA CardPostKeeps ==
    ASSUME NotifyInv, NEW d \in Durations, notify_post(d)
    PROVE  NotifyInv'
<1> DEFINE c == [duration_ms |-> d, show_at |-> IF g_q = <<>> THEN note_now ELSE 0,
                 exit_at |-> 0, exit_from |-> 0, dismissed |-> FALSE]
<1>1. /\ g_q' = Append(g_q, c) /\ note_now' = note_now
      /\ note_hist' = [note_hist EXCEPT !.age = IF g_q = <<>> THEN 0 ELSE @]
  BY Zenon DEF notify_post
<1>2. g_q \in Seq(Card) /\ note_now \in Moment /\ note_hist \in [age : Nat, short : {FALSE}]
  BY Zenon DEF NotifyInv
<1>3. 0 \in Moment /\ 0 \in Offset
  BY NotifyAssumption DEF Moment, Offset
<1>4. c \in Card /\ (g_q = <<>> => c.show_at = note_now)
  BY <1>2, <1>3, Zenon DEF Card
<1> HIDE DEF c
<1>5. g_q' \in Seq(Card) /\ g_q' # <<>> /\ g_q'[1] = IF g_q = <<>> THEN c ELSE g_q[1]
  BY <1>1, <1>2, <1>4
<1>6. /\ note_hist' \in [age : Nat, short : {FALSE}]
      /\ note_hist'.age = IF g_q = <<>> THEN 0 ELSE note_hist.age
  BY <1>1, <1>2, Zenon
<1>7. CASE g_q = <<>>
  <2>1. Elapsed(note_now', g_q'[1].show_at) = note_hist'.age
    BY <1>1, <1>2, <1>4, <1>5, <1>6, <1>7, ElapsedIs
  <2> QED
    BY <1>1, <1>2, <1>5, <1>6, <2>1, Zenon DEF NotifyInv, AgeShows
<1>8. CASE g_q # <<>>
  <2>1. g_q'[1] = g_q[1] /\ note_hist'.age = note_hist.age
    BY <1>5, <1>6, <1>8, Zenon
  <2> QED
    BY <1>1, <1>2, <1>5, <1>6, <1>8, <2>1, Zenon DEF NotifyInv, AgeShows
<1> QED
  BY <1>7, <1>8, Zenon

\* The card behind the one that leaves starts its life now.
LEMMA PopStarts ==
    ASSUME NotifyInv, g_q # <<>>
    PROVE  /\ pop_card(g_q) \in Seq(Card)
           /\ pop_card(g_q) # <<>> => pop_card(g_q)[1].show_at = note_now
<1>1. g_q \in Seq(Card) /\ note_now \in Moment /\ Len(g_q) \in Nat \ {0}
  BY DEF NotifyInv
<1>2. 0 \in Moment /\ 0 \in Offset
  <2>1. NoteMod \in Nat /\ CardHeight \in Nat
    BY NotifyAssumption, Zenon
  <2> QED
    BY ONLY <1>1, <2>1 DEF Moment, Offset
<1>3. Len(g_q) = 1 \/ Len(g_q) >= 2
  <2> DEFINE n == Len(g_q)
  <2>1. n \in Nat \ {0}
    BY <1>1, Zenon
  <2> HIDE DEF n
  <2>2. n = 1 \/ n >= 2
    BY ONLY <2>1
  <2> QED
    BY <2>2, Zenon DEF n
<1>4. CASE Len(g_q) = 1
  BY <1>4 DEF pop_card
<1>5. CASE Len(g_q) # 1
  <2> DEFINE rest == Tail(g_q)
             c == [rest[1] EXCEPT !.show_at = note_now, !.dismissed = FALSE,
                                  !.exit_at = 0, !.exit_from = 0]
  <2>1. rest \in Seq(Card) /\ Len(rest) = Len(g_q) - 1 /\ 1 \in 1..Len(rest)
    <3>1. Len(g_q) >= 2
      BY <1>3, <1>5, Zenon
    <3> QED
      BY <1>1, <3>1
  <2>2. pop_card(g_q) = [rest EXCEPT ![1] = c]
    BY <1>5, Zenon DEF pop_card
  <2>3. rest[1] \in Card
    BY <2>1
  <2>4. c \in Card
    BY <1>1, <1>2, <2>3, Zenon DEF Card
  <2>5. c.show_at = note_now
    BY <2>3, Zenon DEF Card
  <2> HIDE DEF rest, c
  <2>6. [rest EXCEPT ![1] = c] \in Seq(Card) /\ [rest EXCEPT ![1] = c][1] = c
    BY <2>1, <2>4
  <2> QED
    BY <2>2, <2>5, <2>6, Zenon
<1> QED
  BY <1>4, <1>5, Zenon

\* A frame: the card on the screen leaves only when its time is over.
LEMMA CardFrameKeeps ==
    ASSUME NotifyInv, NEW by_app \in BOOLEAN, Frame(by_app)
    PROVE  NotifyInv'
<1>1. g_q \in Seq(Card) /\ note_now \in Moment /\ note_hist \in [age : Nat, short : {FALSE}]
      /\ note_now' = note_now
  BY Zenon DEF NotifyInv, Frame
<1>2. CASE ~(g_q # <<>> /\ card_finished(g_q[1], note_now))
  <2>1. g_q' = g_q /\ note_hist' = note_hist
    BY <1>2, Zenon DEF Frame
  <2> QED
    BY <1>1, <2>1, Zenon DEF NotifyInv, AgeShows
<1>3. CASE g_q # <<>> /\ card_finished(g_q[1], note_now)
  <2> DEFINE early == ~g_q[1].dismissed /\ note_hist.age < Life(g_q[1])
  <2>1. /\ g_q' = pop_card(g_q)
        /\ note_hist' = [note_hist EXCEPT !.age = 0, !.short = @ \/ early]
    BY <1>3, Zenon DEF Frame
  <2>2. ~early
    <3>1. SUFFICES ASSUME ~g_q[1].dismissed, note_hist.age < Life(g_q[1]) PROVE FALSE
      BY Zenon
    <3>2. Elapsed(note_now, g_q[1].show_at) = note_hist.age
      BY <1>3, <3>1, Zenon DEF NotifyInv, AgeShows
    <3>3. Elapsed(note_now, g_q[1].show_at) >= Life(g_q[1])
      BY <1>3, <3>1, Zenon DEF card_finished
    <3>4. note_hist.age \in Nat /\ Life(g_q[1]) \in Nat
      BY <1>1, <1>3, FirstCard, LifeFits, Zenon
    <3> QED
      BY <3>1, <3>2, <3>3, <3>4
  <2> HIDE DEF early
  <2>3. note_hist' = [age |-> 0, short |-> FALSE]
    BY <1>1, <2>1, <2>2, Zenon
  <2>4. /\ g_q' \in Seq(Card)
        /\ g_q' # <<>> => Elapsed(note_now', g_q'[1].show_at) = 0
    BY <1>1, <1>3, <2>1, PopStarts, ElapsedIs, Zenon
  <2>5. note_hist' \in [age : Nat, short : {FALSE}] /\ note_hist'.age = 0
    BY <2>3, Zenon
  <2> QED
    BY <1>1, <2>4, <2>5, Zenon DEF NotifyInv, AgeShows
<1> QED
  BY <1>2, <1>3, Zenon

\* A key dismisses the card at the place where it is.
LEMMA KeyKeeps ==
    ASSUME NotifyInv, KeyPressed
    PROVE  NotifyInv'
<1>1. g_q \in Seq(Card) /\ note_now \in Moment /\ note_now' = note_now /\ note_hist' = note_hist
  BY Zenon DEF NotifyInv, KeyPressed
<1>2. CASE g_q' = g_q
  BY <1>1, <1>2, Zenon DEF NotifyInv, AgeShows
<1>3. CASE g_q' # g_q
  <2> DEFINE c == [g_q[1] EXCEPT !.exit_from = notify_service_slide_offset,
                                 !.exit_at = note_now, !.dismissed = TRUE]
  <2>1. OnCard /\ g_q' = Dismissed(g_q)
    BY <1>3, Zenon DEF KeyPressed
  <2>2. g_q # <<>>
    BY <2>1, Zenon DEF OnCard, notify_service_phase
  <2>3. g_q' = [g_q EXCEPT ![1] = c]
    BY <1>3, <2>1, Zenon DEF Dismissed
  <2>4. g_q[1] \in Card /\ notify_service_slide_offset \in Offset
    BY <2>2, FirstCard, OffsetInRange, Zenon
  <2>5. c \in Card
    BY <1>1, <2>4, Zenon DEF Card
  <2>6. c.dismissed
    BY <2>4, Zenon DEF Card
  <2> HIDE DEF c
  <2>7. g_q' \in Seq(Card) /\ g_q'[1] = c
    BY <1>1, <2>2, <2>3, <2>5
  <2> QED
    BY <1>1, <2>6, <2>7, Zenon DEF NotifyInv, AgeShows
<1> QED
  BY <1>2, <1>3, Zenon

\* The clock and the age go on together.
LEMMA TickKeeps ==
    ASSUME NotifyInv, NoteTick
    PROVE  NotifyInv'
<1>1. g_q \in Seq(Card) /\ note_now \in Moment /\ note_hist \in [age : Nat, short : {FALSE}]
      /\ note_now' = (note_now + 1) % NoteMod /\ g_q' = g_q
  BY Zenon DEF NotifyInv, NoteTick
<1>2. note_now' \in Moment
  <2> DEFINE M == NoteMod
  <2>1. M \in Nat /\ note_now \in 0..(M - 1)
    BY <1>1, NotifyAssumption, Zenon DEF Moment
  <2> HIDE DEF M
  <2>2. (note_now + 1) % M \in 0..(M - 1)
    BY <2>1
  <2> QED
    BY <1>1, <2>2, Zenon DEF Moment, M
<1>3. CASE g_q # <<>> /\ note_hist.age < Life(g_q[1])
  <2>1. note_hist' = [note_hist EXCEPT !.age = note_hist.age + 1]
    BY <1>3, Zenon DEF NoteTick
  <2>2. note_hist' \in [age : Nat, short : {FALSE}] /\ note_hist'.age = note_hist.age + 1
    <3> DEFINE a == note_hist.age + 1
    <3>1. a \in Nat
      BY <1>1
    <3> HIDE DEF a
    <3>2. note_hist' = [note_hist EXCEPT !.age = a]
      BY <2>1, Zenon DEF a
    <3>3. note_hist' \in [age : Nat, short : {FALSE}] /\ note_hist'.age = a
      BY <1>1, <3>1, <3>2, Zenon
    <3> QED
      BY <3>3, Zenon DEF a
  <2>3. ASSUME ~g_q[1].dismissed, note_hist'.age < Life(g_q[1])
        PROVE  Elapsed(note_now', g_q[1].show_at) = note_hist'.age
    <3>1. Elapsed(note_now, g_q[1].show_at) = note_hist.age
      BY <1>3, <2>3, Zenon DEF NotifyInv, AgeShows
    <3>2. g_q[1] \in Card /\ g_q[1].show_at \in Moment
      BY <1>3, FirstCard, Zenon
    <3>3. Life(g_q[1]) \in Nat /\ Life(g_q[1]) <= NoteMod
      BY <3>2, LifeFits, Zenon
    <3>4. Elapsed(note_now, g_q[1].show_at) + 1 < NoteMod
      <4>1. note_hist.age \in Nat /\ NoteMod \in Nat
        BY <1>1, NotifyAssumption, Zenon
      <4> QED
        BY <2>2, <2>3, <3>1, <3>3, <4>1
    <3>5. Elapsed((note_now + 1) % NoteMod, g_q[1].show_at) = Elapsed(note_now, g_q[1].show_at) + 1
      BY <1>1, <3>2, <3>4, ElapsedTicks, Zenon
    <3> QED
      BY <1>1, <2>2, <3>1, <3>5, Zenon
  <2> QED
    BY <1>1, <1>2, <2>2, <2>3, Zenon DEF NotifyInv, AgeShows
<1>4. CASE ~(g_q # <<>> /\ note_hist.age < Life(g_q[1]))
  <2>1. note_hist' = note_hist
    BY <1>1, <1>4, Zenon DEF NoteTick
  <2> QED
    BY <1>1, <1>2, <1>4, <2>1, Zenon DEF NotifyInv, AgeShows
<1> QED
  BY <1>3, <1>4, Zenon

\* A card of apps/notify_service.c that nobody dismisses is on the screen for its
\* whole life, and no card is drawn outside its range, for any durations that fit
\* the clock and any place where the clock wraps.
THEOREM CardsKeepTheirTime == NotifySpec => []CardsGetTheirTime
<1>1. NotifyInv /\ [NotifyNext]_noteVars => NotifyInv'
  <2> SUFFICES ASSUME NotifyInv, [NotifyNext]_noteVars PROVE NotifyInv'
    BY Zenon
  <2>1. CASE KeyReleased \/ UNCHANGED noteVars
    <3>1. g_q' = g_q /\ note_now' = note_now /\ note_hist' = note_hist
      BY <2>1, Zenon DEF KeyReleased, noteVars
    <3> QED
      BY <3>1, Zenon DEF NotifyInv, AgeShows
  <2> QED
    BY <2>1, CardPostKeeps, CardFrameKeeps, KeyKeeps, TickKeeps, Zenon DEF NotifyNext
<1>2. NotifyInv => CardsGetTheirTime
  <2> SUFFICES ASSUME NotifyInv PROVE CardsGetTheirTime
    BY Zenon
  <2>1. ~note_hist.short
    BY Zenon DEF NotifyInv
  <2> QED
    BY <2>1, OffsetInRange, Zenon DEF CardsGetTheirTime, Offset
<1> QED
  BY <1>1, <1>2, NotifyInitInv, PTL DEF NotifySpec

-----------------------------------------------------------------------------
(* The picture on the panel.                                               *)

Helper == [needs : BOOLEAN, saw : BOOLEAN, painted : Nat, ticked : Nat]

FrameTypes ==
    /\ fr_now \in Nat /\ fr_band \in BOOLEAN /\ fr_header \in BOOLEAN
    /\ fr_task \in [Screens -> {"none", "ready", "asleep", "suspended"}]
    /\ fr_left \in [Screens -> Nat]
    /\ fr_app \in [Screens -> Helper]
    /\ \E S : fr_panel \in [app : S, fresh : BOOLEAN]

\* Only the app in front sleeps or runs, and a sleep has an end.
FrontRuns ==
    /\ \A a \in Screens : a # fr_front => fr_task[a] \in {"none", "suspended"}
    /\ \A a \in Screens : a = fr_front => fr_task[a] # "none"
    /\ \A a \in Screens : fr_task[a] = "asleep" => fr_left[a] >= 1

\* An app whose picture on the panel is old has asked for a new one.
OldPictureAsked ==
    \A a \in Screens : fr_task[a] # "none" /\ fr_panel.app = a /\ ~fr_panel.fresh => fr_app[a].needs

FrameInv == FrameTypes /\ FrontRuns /\ OldPictureAsked /\ PanelIsFresh

\* Before the first frame.
LEMMA FramesInitInv == FramesInit => FrameInv
<1> SUFFICES ASSUME FramesInit PROVE FrameInv
  BY Zenon
<1>1. FrameTypes
  <2>1. fr_panel \in [app : {NoApp}, fresh : BOOLEAN]
    BY Zenon DEF FramesInit
  <2>2. Stopped \in Helper
    BY Zenon DEF Stopped, Helper
  <2> QED
    BY <2>1, <2>2, Zenon DEF FramesInit, FrameTypes
<1>2. \A a \in Screens : fr_task[a] = "none"
  BY Zenon DEF FramesInit
<1>3. \A a \in Screens : a # fr_front
  <2>1. fr_front.name = "none"
    BY Zenon DEF FramesInit, NoApp
  <2> QED
    BY <2>1, FrameAssumption, Zenon
<1> QED
  BY <1>1, <1>2, <1>3, Zenon DEF FrameInv, FrontRuns, OldPictureAsked, PanelIsFresh

\* The invariant, said of one app: nothing a step does to an app disturbs another.
LEMMA OpenKeeps ==
    ASSUME FrameInv, NEW a \in Screens, app_open(a)
    PROVE  FrameInv'
<1>1. FrameTypes
  BY Zenon DEF FrameInv
<1>2. fr_panel' = fr_panel /\ fr_now' = fr_now /\ fr_band' = fr_band /\ fr_header' = fr_header /\ fr_front' = a
  BY Zenon DEF app_open
<1>3. /\ fr_task' \in [Screens -> {"none", "ready", "asleep", "suspended"}]
      /\ fr_task'[a] = "ready"
      /\ \A b \in Screens : b # a => fr_task'[b] = IF b = fr_front THEN "suspended" ELSE fr_task[b]
  BY <1>1, Zenon DEF app_open, FrameTypes
<1>4. \A b \in Screens : b # a => fr_task'[b] \in {"none", "suspended"}
  BY <1>3, Zenon DEF FrameInv, FrontRuns
<1>5. fr_left' \in [Screens -> Nat]
  BY <1>1, Zenon DEF app_open, FrameTypes
<1>6. /\ fr_app' \in [Screens -> Helper]
      /\ \A b \in Screens : b # a => fr_app'[b] = fr_app[b]
      /\ fr_task[a] # "none" => fr_app'[a] = fr_app[a]
      /\ fr_task[a] = "none" => fr_app'[a].needs
  <2> DEFINE new == [Stopped EXCEPT !.needs = TRUE]
  <2>1. new \in Helper /\ new.needs
    BY Zenon DEF Stopped, Helper
  <2>2. fr_app' = [fr_app EXCEPT ![a] = IF fr_task[a] = "none" THEN new ELSE fr_app[a]]
    BY Zenon DEF app_open
  <2> HIDE DEF new
  <2> QED
    BY <1>1, <2>1, <2>2, Zenon DEF FrameTypes
<1>7. FrameTypes'
  BY <1>1, <1>2, <1>3, <1>5, <1>6, Zenon DEF FrameTypes
<1>8. FrontRuns'
  BY <1>2, <1>3, <1>4, Zenon DEF FrontRuns
<1>9. OldPictureAsked'
  <2> SUFFICES ASSUME NEW b \in Screens, fr_task'[b] # "none", fr_panel'.app = b, ~fr_panel'.fresh
               PROVE  fr_app'[b].needs
    BY Zenon DEF OldPictureAsked
  <2>1. CASE b = a
    BY <1>2, <1>6, <2>1, Zenon DEF FrameInv, OldPictureAsked
  <2>2. CASE b # a /\ b = fr_front
    <3>1. fr_task[b] # "none"
      BY <2>2, Zenon DEF FrameInv, FrontRuns
    <3> QED
      BY <1>2, <1>3, <1>6, <2>2, <3>1, Zenon DEF FrameInv, OldPictureAsked
  <2>3. CASE b # a /\ b # fr_front
    BY <1>2, <1>3, <1>6, <2>3, Zenon DEF FrameInv, OldPictureAsked
  <2> QED
    BY <2>1, <2>2, <2>3, Zenon
<1>10. PanelIsFresh'
  BY <1>2, <1>3, Zenon DEF PanelIsFresh
<1> QED
  BY <1>7, <1>8, <1>9, <1>10, Zenon DEF FrameInv

\* app_helper_emit: the old picture is asked for, and the app in front wakes.
LEMMA EmitKeeps ==
    ASSUME FrameInv, NEW a \in Screens, app_helper_emit(a)
    PROVE  FrameInv'
<1>1. FrameTypes
  BY Zenon DEF FrameInv
<1>2. /\ fr_now' = fr_now /\ fr_band' = fr_band /\ fr_header' = fr_header /\ fr_front' = fr_front
      /\ fr_left' = fr_left
  BY Zenon DEF app_helper_emit
<1>3. PICK S : fr_panel \in [app : S, fresh : BOOLEAN]
  BY <1>1, Zenon DEF FrameTypes
<1>4. /\ fr_panel' \in [app : S, fresh : BOOLEAN] /\ fr_panel'.app = fr_panel.app
      /\ fr_panel.app # a => fr_panel' = fr_panel
  BY <1>3, Zenon DEF app_helper_emit
<1>5. /\ fr_app' \in [Screens -> Helper] /\ fr_app'[a].needs
      /\ \A b \in Screens : b # a => fr_app'[b] = fr_app[b]
  <2> DEFINE new == [fr_app[a] EXCEPT !.needs = TRUE]
  <2>1. fr_app[a] \in Helper
    BY <1>1, Zenon DEF FrameTypes
  <2>2. new \in Helper /\ new.needs
    BY <2>1, Zenon DEF Helper
  <2>3. fr_app' = [fr_app EXCEPT ![a] = new]
    BY Zenon DEF app_helper_emit
  <2> HIDE DEF new
  <2> QED
    BY <1>1, <2>2, <2>3, Zenon DEF FrameTypes
<1>6. /\ fr_task' \in [Screens -> {"none", "ready", "asleep", "suspended"}]
      /\ fr_task'[a] = IF fr_task[a] = "asleep" THEN "ready" ELSE fr_task[a]
      /\ \A b \in Screens : b # a => fr_task'[b] = fr_task[b]
  BY <1>1, Zenon DEF app_helper_emit, Woken, FrameTypes
<1>7. FrameTypes'
  BY <1>1, <1>2, <1>4, <1>5, <1>6, Zenon DEF FrameTypes
<1>8. FrontRuns'
  BY <1>2, <1>6, Zenon DEF FrameInv, FrontRuns
<1>9. OldPictureAsked'
  <2> SUFFICES ASSUME NEW b \in Screens, fr_task'[b] # "none", fr_panel'.app = b, ~fr_panel'.fresh
               PROVE  fr_app'[b].needs
    BY Zenon DEF OldPictureAsked
  <2>1. CASE b = a
    BY <1>5, <2>1, Zenon
  <2>2. CASE b # a
    BY <1>4, <1>5, <1>6, <2>2, Zenon DEF FrameInv, OldPictureAsked
  <2> QED
    BY <2>1, <2>2, Zenon
<1>10. PanelIsFresh'
  <2> SUFFICES ASSUME NEW b \in Screens, b = fr_front', fr_task'[b] = "asleep"
               PROVE  \/ fr_panel' = [app |-> b, fresh |-> TRUE]
                      \/ /\ fr_panel'.app # b /\ ~b.live /\ ~fr_app'[b].needs
                         /\ b.band /\ fr_header' /\ fr_band' => fr_left'[b] <= Second
    BY Zenon DEF PanelIsFresh
  <2>1. b # a
    BY <1>6, Zenon
  <2>2. fr_task[b] = "asleep" /\ b = fr_front
    BY <1>2, <1>6, <2>1, Zenon
  <2>3. CASE fr_panel = [app |-> b, fresh |-> TRUE]
    <3>1. fr_panel.app # a
      BY <2>1, <2>3, Zenon
    <3> QED
      BY <1>4, <2>3, <3>1, Zenon
  <2>4. CASE /\ fr_panel.app # b /\ ~b.live /\ ~fr_app[b].needs
             /\ b.band /\ fr_header /\ fr_band => fr_left[b] <= Second
    BY <1>2, <1>4, <1>5, <2>1, <2>4, Zenon
  <2> QED
    BY <2>2, <2>3, <2>4, Zenon DEF FrameInv, PanelIsFresh
<1> QED
  BY <1>7, <1>8, <1>9, <1>10, Zenon DEF FrameInv

\* The sleeps go on; the picture stays.
LEMMA TickKeepsPanel ==
    ASSUME FrameInv, FrameTick
    PROVE  FrameInv'
<1>1. FrameTypes
  BY Zenon DEF FrameInv
<1>2. /\ fr_now' \in Nat /\ fr_band' = fr_band /\ fr_header' = fr_header /\ fr_front' = fr_front
      /\ fr_app' = fr_app /\ fr_panel' = fr_panel
  <2>1. fr_now' = (fr_now + 1) % TickMod /\ fr_now \in Nat /\ TickMod \in Nat \ {0}
    BY <1>1, FrameAssumption, Zenon DEF FrameTick, FrameTypes
  <2> QED
    BY <2>1 DEF FrameTick
<1>3. \A a \in Screens : fr_task[a] = "asleep" => fr_left[a] \in Nat /\ fr_left[a] >= 1
  BY <1>1, Zenon DEF FrameTypes, FrameInv, FrontRuns
<1>4. /\ fr_left' \in [Screens -> Nat]
      /\ \A a \in Screens : fr_task[a] = "asleep" => fr_left'[a] = fr_left[a] - 1
  BY <1>1, <1>3 DEF FrameTick, FrameTypes
<1>5. /\ fr_task' \in [Screens -> {"none", "ready", "asleep", "suspended"}]
      /\ \A a \in Screens : fr_task'[a] = IF fr_task[a] = "asleep" /\ fr_left[a] = 1
                                         THEN "ready" ELSE fr_task[a]
  BY <1>1, Zenon DEF FrameTick, FrameTypes
<1>6. FrameTypes'
  BY <1>1, <1>2, <1>4, <1>5, Zenon DEF FrameTypes
<1>7. \A a \in Screens : fr_task'[a] = "asleep" =>
          fr_task[a] = "asleep" /\ fr_left'[a] >= 1 /\ fr_left'[a] <= fr_left[a]
  BY <1>3, <1>4, <1>5
<1>8. \A a \in Screens : fr_task'[a] \in {"none", "suspended"} <=> fr_task[a] \in {"none", "suspended"}
  BY <1>5, Zenon
<1>9. \A a \in Screens : fr_task'[a] = "none" <=> fr_task[a] = "none"
  BY <1>5, Zenon
<1>10. FrontRuns'
  BY <1>2, <1>7, <1>8, <1>9, Zenon DEF FrameInv, FrontRuns
<1>11. OldPictureAsked'
  BY <1>2, <1>9, Zenon DEF FrameInv, OldPictureAsked
<1>12. PanelIsFresh'
  <2> SUFFICES ASSUME NEW b \in Screens, b = fr_front', fr_task'[b] = "asleep"
               PROVE  \/ fr_panel' = [app |-> b, fresh |-> TRUE]
                      \/ /\ fr_panel'.app # b /\ ~b.live /\ ~fr_app'[b].needs
                         /\ b.band /\ fr_header' /\ fr_band' => fr_left'[b] <= Second
    BY Zenon DEF PanelIsFresh
  <2>1. fr_left[b] <= Second => fr_left'[b] <= Second
    <3>1. fr_left[b] \in Nat /\ fr_left'[b] \in Nat /\ Second \in Nat
      BY <1>1, <1>4, FrameAssumption, Zenon DEF FrameTypes
    <3>2. fr_left'[b] <= fr_left[b]
      BY <1>7, Zenon
    <3> QED
      BY <3>1, <3>2
  <2>2. fr_task[b] = "asleep" /\ b = fr_front
    BY <1>2, <1>7, Zenon
  <2> QED
    BY <1>2, <2>1, <2>2, Zenon DEF FrameInv, PanelIsFresh
<1> QED
  BY <1>6, <1>10, <1>11, <1>12, Zenon DEF FrameInv

\* app_kit_next_sleep_ms never says not to sleep, and with the header on the
\* panel it says a second at most.
LEMMA NextSleep ==
    ASSUME NEW a \in Screens, NEW band \in BOOLEAN
    PROVE  /\ app_kit_next_sleep_ms(a, band) \in Nat
           /\ app_kit_next_sleep_ms(a, band) >= 1
           /\ band /\ fr_header /\ a.band => app_kit_next_sleep_ms(a, band) <= Second
<1>1. /\ Second \in Nat /\ Pace \in Nat /\ LongSleep \in Nat /\ Second >= 1 /\ Pace >= 1 /\ LongSleep >= 1
      /\ Pace <= Second
  BY FrameAssumption
<1>2. a.every \in Nat
  BY FrameAssumption
<1> QED
  BY <1>1, <1>2 DEF app_kit_next_sleep_ms, MinOf

\* A frame: the picture is painted, or it is new and nothing asked for another.
LEMMA FrameKeeps ==
    ASSUME FrameInv, NEW a \in Screens, app_helper_frame(a)
    PROVE  FrameInv'
<1>1. FrameTypes
  BY Zenon DEF FrameInv
<1> DEFINE tick == TickDue(a)
           first == a.every > 0 /\ ~fr_app[a].saw
           paint == fr_app[a].needs \/ tick \/ SecondPassed(a) \/ a.live
           band == IF paint THEN a.band ELSE fr_band
           new == [needs   |-> FALSE, saw |-> TRUE,
                   painted |-> IF paint /\ a.band THEN fr_now \div Second ELSE fr_app[a].painted,
                   ticked  |-> IF tick \/ first THEN fr_now ELSE fr_app[a].ticked]
<1>2. /\ fr_task[a] = "ready" /\ fr_task' = [fr_task EXCEPT ![a] = "asleep"]
      /\ fr_now' = fr_now /\ fr_header' = fr_header /\ fr_front' = fr_front
      /\ fr_app' = [fr_app EXCEPT ![a] = new]
      /\ fr_panel' = IF paint THEN [app |-> a, fresh |-> TRUE] ELSE fr_panel
      /\ fr_band' = band
      /\ fr_left' = [fr_left EXCEPT ![a] = app_kit_next_sleep_ms(a, band)]
  BY <1>1, Zenon DEF app_helper_frame, FrameTypes
<1>3. new \in Helper /\ new.needs = FALSE
  <2>1. fr_app[a].painted \in Nat /\ fr_app[a].ticked \in Nat /\ fr_now \in Nat
    BY <1>1, Zenon DEF FrameTypes, Helper
  <2>2. fr_now \div Second \in Nat
    BY <2>1, FrameAssumption
  <2> QED
    BY <2>1, <2>2, Zenon DEF Helper
<1>4. band \in BOOLEAN /\ a.live \in BOOLEAN
  BY <1>1, FrameAssumption, Zenon DEF FrameTypes
<1>5. ~paint => ~fr_app[a].needs /\ ~a.live
  BY Zenon
<1>6. PICK S : fr_panel \in [app : S, fresh : BOOLEAN]
  BY <1>1, Zenon DEF FrameTypes
<1> HIDE DEF new, band, paint, tick, first
<1>7. /\ fr_app' \in [Screens -> Helper] /\ fr_app'[a].needs = FALSE
      /\ \A b \in Screens : b # a => fr_app'[b] = fr_app[b]
  BY <1>1, <1>2, <1>3, Zenon DEF FrameTypes
<1>8. /\ fr_task' \in [Screens -> {"none", "ready", "asleep", "suspended"}]
      /\ fr_task'[a] = "asleep"
      /\ \A b \in Screens : b # a => fr_task'[b] = fr_task[b]
  BY <1>1, <1>2, Zenon DEF FrameTypes
<1> DEFINE sleep == app_kit_next_sleep_ms(a, band)
<1>9. sleep \in Nat /\ sleep >= 1 /\ (band /\ fr_header /\ a.band => sleep <= Second)
  BY <1>4, NextSleep, Zenon
<1> HIDE DEF sleep
<1>10. /\ fr_left' \in [Screens -> Nat] /\ fr_left'[a] = sleep
       /\ \A b \in Screens : b # a => fr_left'[b] = fr_left[b]
  BY <1>1, <1>2, <1>9, Zenon DEF FrameTypes, sleep
<1>11. FrameTypes'
  <2>1. \E T : fr_panel' \in [app : T, fresh : BOOLEAN]
    <3>1. fr_panel' \in [app : S \cup {a}, fresh : BOOLEAN]
      BY <1>2, <1>6, Zenon
    <3> QED
      BY <3>1, Zenon
  <2> QED
    BY <1>1, <1>2, <1>4, <1>7, <1>8, <1>10, <2>1, Zenon DEF FrameTypes
<1>12. a = fr_front
  BY <1>2, Zenon DEF FrameInv, FrontRuns
<1>13. FrontRuns'
  BY <1>2, <1>8, <1>9, <1>10, <1>12, Zenon DEF FrameInv, FrontRuns
<1>14. OldPictureAsked'
  <2> SUFFICES ASSUME NEW b \in Screens, fr_task'[b] # "none", fr_panel'.app = b, ~fr_panel'.fresh
               PROVE  fr_app'[b].needs
    BY Zenon DEF OldPictureAsked
  <2>1. ~paint /\ fr_panel' = fr_panel
    BY <1>2, Zenon
  <2>2. b # a
    <3>1. fr_panel.app = a /\ fr_task[a] # "none" => fr_panel.fresh
      BY <1>5, <2>1, Zenon DEF FrameInv, OldPictureAsked
    <3> QED
      BY <1>2, <2>1, <3>1, Zenon
  <2> QED
    BY <1>7, <1>8, <2>1, <2>2, Zenon DEF FrameInv, OldPictureAsked
<1>15. PanelIsFresh'
  <2> SUFFICES ASSUME NEW b \in Screens, b = fr_front', fr_task'[b] = "asleep"
               PROVE  \/ fr_panel' = [app |-> b, fresh |-> TRUE]
                      \/ /\ fr_panel'.app # b /\ ~b.live /\ ~fr_app'[b].needs
                         /\ b.band /\ fr_header' /\ fr_band' => fr_left'[b] <= Second
    BY Zenon DEF PanelIsFresh
  <2>1. b = a
    BY <1>2, <1>12, Zenon
  <2>2. CASE paint
    BY <1>2, <2>1, <2>2, Zenon
  <2>3. CASE ~paint /\ fr_panel.app = a
    <3>1. fr_panel' = fr_panel
      BY <1>2, <2>3, Zenon
    <3>2. fr_panel.fresh
      BY <1>2, <1>5, <2>3, Zenon DEF FrameInv, OldPictureAsked
    <3>3. fr_panel = [app |-> a, fresh |-> TRUE]
      BY <1>6, <2>3, <3>2, Zenon
    <3> QED
      BY <2>1, <3>1, <3>3, Zenon
  <2>4. CASE ~paint /\ fr_panel.app # a
    BY <1>2, <1>5, <1>7, <1>9, <1>10, <2>1, <2>4, Zenon
  <2> QED
    BY <2>2, <2>3, <2>4, Zenon
<1> QED
  BY <1>11, <1>13, <1>14, <1>15, Zenon DEF FrameInv

\* Every step keeps the invariant.
LEMMA FramesNextInv == FrameInv /\ [FramesNext]_fr_vars => FrameInv'
<1> SUFFICES ASSUME FrameInv, [FramesNext]_fr_vars PROVE FrameInv'
  BY Zenon
<1>1. CASE FrameTick
  BY <1>1, TickKeepsPanel, Zenon
<1>2. CASE \E a \in Screens : app_open(a)
  BY <1>2, OpenKeeps, Zenon
<1>3. CASE \E a \in Screens : app_helper_emit(a)
  BY <1>3, EmitKeeps, Zenon
<1>4. CASE \E a \in Screens : app_helper_frame(a)
  BY <1>4, FrameKeeps, Zenon
<1>5. CASE UNCHANGED fr_vars
  BY <1>5, Zenon DEF fr_vars, FrameInv, FrameTypes, FrontRuns, OldPictureAsked, PanelIsFresh
<1> QED
  BY <1>1, <1>2, <1>3, <1>4, <1>5, Zenon DEF FramesNext

\* The panel shows the app in front, up to date, whenever that app goes to
\* sleep (app_kit_run, app_helper_frame): for every set of apps, every pace and
\* every length of the sleeps.
THEOREM PanelStaysFresh == FramesSpec => []PanelIsFresh
<1>1. FrameInv => PanelIsFresh
  BY Zenon DEF FrameInv
<1> QED
  BY FramesInitInv, FramesNextInv, <1>1, PTL DEF FramesSpec

=============================================================================
