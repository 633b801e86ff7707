------------------------------ MODULE EventBus ------------------------------
(***************************************************************************)
(* kernel/event.c: topics with subscriptions ordered by priority, a ring of *)
(* queued events, and the delivery of one event to the subscribers of its   *)
(* topic, callback by callback.                                             *)
(*                                                                          *)
(* event_publish_sync holds the lock while it calls back, so nothing else   *)
(* happens to the bus in between.  event_process_queue drops the lock for   *)
(* each event it delivers: a callback, or a task that runs while a callback *)
(* waits, may use the bus between two callbacks.                            *)
(*                                                                          *)
(* An event is its topic and a number; payloads, types and time stamps are  *)
(* left out, as are payloads that are refused for their size.               *)
(***************************************************************************)
EXTENDS Lists

CONSTANTS
    Clients,     \* app_ids
    Topics,      \* topic names
    Truncated,   \* what strncpy keeps of each: EVENT_TOPIC_MAX - 1 characters
    Priorities,
    MaxTopics,   \* 32 in the code
    MaxSubs,     \* EVENT_MAX_SUBSCRIBERS
    QueueSize,   \* EVENT_QUEUE_SIZE
    Dispatchers  \* the tasks that publish synchronously or process the queue

ASSUME TruncatedAssumption ==
    /\ Truncated \in [Topics -> Topics]
    /\ \A t \in Topics : Truncated[Truncated[t]] = Truncated[t]
ASSUME BusBoundsAssumption ==
    /\ Priorities \subseteq Nat
    /\ {MaxTopics, MaxSubs, QueueSize} \subseteq Nat \ {0}

NoEvent == [topic |-> "none", id |-> 0]
NoDelivery == [topic |-> 0]

VARIABLES
    topics,      \* the topics in use: a name and its subscriptions in order
    queue,       \* the ring
    queue_head, queue_tail, queue_count,
    delivery,    \* what each dispatcher delivers: topic, place in its list, lock
    pending      \* history: the events accepted and not yet taken off the ring

ring == <<queue, queue_head, queue_tail, queue_count>>
busVars == <<topics, ring, delivery, pending>>

Delivering(d) == delivery[d] # NoDelivery
Unlocked == \A d \in Dispatchers : Delivering(d) => ~delivery[d].sync

\* The stored name, cut, is compared with the whole name asked for.
Matches(name) == {i \in 1..Len(topics) : topics[i].name = name}

\* history: the place p of the list of topic i, one a dispatcher has passed or
\* stands at, came or went, and those behind it moved.
Shifted(i, p) ==
    [d \in Dispatchers |->
      IF delivery[d].topic = i /\ p < delivery[d].place
      THEN [delivery[d] EXCEPT !.shifted = TRUE, !.called = <<>>] ELSE delivery[d]]

Place_first(subs, prio) == 1  \* mutant: the sort goes on to the front

\* Where the sort leaves a new subscription: behind the first run of those it
\* does not outrank, seen from the end.
Place(subs, prio) ==
    First({p \in 1..(Len(subs) + 1) :
             \A j \in p..Len(subs) : subs[j].prio < prio})

event_subscribe(c, name, prio) ==
    LET found == Matches(name)
        i     == First(found)
        p     == Place(topics[i].subs, prio)
        s     == [client |-> c, prio |-> prio, active |-> TRUE]
    IN  /\ Unlocked
        /\ \/ /\ found = {}
              /\ Len(topics) < MaxTopics
              /\ topics' = Append(topics, [name |-> Truncated[name], subs |-> <<s>>])
              /\ UNCHANGED delivery
           \/ /\ found # {}
              /\ Len(topics[i].subs) < MaxSubs
              /\ topics' = [topics EXCEPT ![i].subs = Inserted(@, p, s)]
              /\ delivery' = Shifted(i, p)
        /\ UNCHANGED <<ring, pending>>

\* Only the first subscription of the client goes, and the name of a topic
\* stays when its last subscription goes.
event_unsubscribe(c, name) ==
    LET i    == First(Matches(name))
        mine == {j \in 1..Len(topics[i].subs) : topics[i].subs[j].client = c}
    IN  /\ Unlocked
        /\ Matches(name) # {}
        /\ mine # {}
        /\ topics' = [topics EXCEPT ![i].subs = Without(@, First(mine))]
        /\ delivery' = Shifted(i, First(mine))
        /\ UNCHANGED <<ring, pending>>

event_cleanup_app_removes(c) ==  \* mutant: the slots are reclaimed
    /\ Unlocked
    /\ topics' = [i \in 1..Len(topics) |->
         [topics[i] EXCEPT !.subs = SelectSeq(@, LAMBDA s : s.client # c)]]
    /\ UNCHANGED <<ring, delivery, pending>>

\* The subscriptions of a client stay in their places, switched off.
event_cleanup_app(c) ==
    LET off(s) == IF s.client = c THEN [s EXCEPT !.active = FALSE] ELSE s
    IN  /\ Unlocked
        /\ topics' = [i \in 1..Len(topics) |->
             [topics[i] EXCEPT !.subs = [j \in 1..Len(@) |-> off(@[j])]]]
        /\ UNCHANGED <<ring, delivery, pending>>

Room_for_one_more == queue_count <= QueueSize  \* mutant: one event too many
Room == queue_count < QueueSize

Following(i) == (i + 1) % QueueSize

\* history: a number no event that waits has
NewId == First(0..QueueSize \ {pending[i].id : i \in DOMAIN pending})

event_publish(name) ==
    LET e == [topic |-> Truncated[name], id |-> NewId]
    IN  /\ Unlocked
        /\ Room
        /\ queue' = [queue EXCEPT ![queue_tail] = e]
        /\ queue_tail' = Following(queue_tail)
        /\ queue_count' = queue_count + 1
        /\ pending' = Append(pending, e)
        /\ UNCHANGED <<topics, queue_head, delivery>>

\* event_deliver looks the topic up once, and goes down its list.
Deliver(d, name, sync) ==
    delivery' = [delivery EXCEPT ![d] =
      IF Matches(name) = {} THEN NoDelivery
      ELSE [topic |-> First(Matches(name)), place |-> 1, sync |-> sync,
            called |-> <<>>, shifted |-> FALSE]]

event_publish_sync(d, name) ==
    /\ ~Delivering(d) /\ Unlocked
    /\ Deliver(d, Truncated[name], TRUE)
    /\ UNCHANGED <<topics, ring, pending>>

\* event_process_queue takes the oldest event off the ring and lets go of the lock.
\* What its place holds until the next event is written there is never read.
event_process_queue(d) ==
    /\ ~Delivering(d) /\ Unlocked
    /\ queue_count > 0
    /\ Deliver(d, queue[queue_head].topic, FALSE)
    /\ queue' = [queue EXCEPT ![queue_head] = NoEvent]
    /\ queue_head' = Following(queue_head)
    /\ queue_count' = queue_count - 1
    /\ pending' = Tail(pending)
    /\ UNCHANGED <<topics, queue_tail>>

ListOf(d) == topics[delivery[d].topic].subs

\* The subscription at the place, in the list as it is now, if it is active.
\* history: called, the calls made so far, is kept until the list shifts.
Callback(d) ==
    /\ Delivering(d)
    /\ delivery[d].place <= Len(ListOf(d))
    /\ LET s == ListOf(d)[delivery[d].place]
       IN  delivery' = [delivery EXCEPT
             ![d].place = @ + 1,
             ![d].called = IF delivery[d].shifted THEN <<>>
                           ELSE Append(@, IF s.active THEN {s.client} ELSE {})]
    /\ UNCHANGED <<topics, ring, pending>>

Delivered(d) ==
    /\ Delivering(d)
    /\ delivery[d].place > Len(ListOf(d))
    /\ delivery' = [delivery EXCEPT ![d] = NoDelivery]
    /\ UNCHANGED <<topics, ring, pending>>

\* event_system_init
BusInit ==
    /\ topics = <<>>
    /\ queue = [i \in 0..(QueueSize - 1) |-> NoEvent]
    /\ queue_head = 0 /\ queue_tail = 0 /\ queue_count = 0
    /\ delivery = [d \in Dispatchers |-> NoDelivery]
    /\ pending = <<>>

BusNext ==
    \/ \E c \in Clients, t \in Topics, p \in Priorities : event_subscribe(c, t, p)
    \/ \E c \in Clients, t \in Topics : event_unsubscribe(c, t)
    \/ \E c \in Clients : event_cleanup_app(c)
    \/ \E t \in Topics : event_publish(t)
    \/ \E d \in Dispatchers :
         \/ \E t \in Topics : event_publish_sync(d, t)
         \/ event_process_queue(d) \/ Callback(d) \/ Delivered(d)

BusSpec == BusInit /\ [][BusNext]_busVars

-----------------------------------------------------------------------------
(* Properties. *)

\* test_higher_priority_subscribers_are_delivered_first: every list is ordered by
\* priority, whatever subscriptions came, went or were switched off before, so the
\* one step of insertion sort in event_subscribe is enough.
OrderedByPriority ==
    \A i \in 1..Len(topics) : \A j, k \in 1..Len(topics[i].subs) :
      j < k => topics[i].subs[j].prio >= topics[i].subs[k].prio

\* No event that event_publish accepted is lost, doubled or overtaken: read from
\* its head, the ring holds the accepted events that were not taken off, in order.
QueueIsFifo ==
    /\ queue_count = Len(pending)
    /\ \A i \in 1..Len(pending) :
         pending[i] = queue[(queue_head + i - 1) % QueueSize]

\* event_process_queue delivers without the lock, while lists change under it.
\* Whoever is active in the part of the list it has passed was called from there,
\* once, even when apps were cleaned up or subscribed behind that part meanwhile;
\* only a subscription that came or went within that part disturbs it.
PassedWereCalled ==
    \A d \in Dispatchers : Delivering(d) /\ ~delivery[d].shifted =>
      /\ delivery[d].place <= Len(ListOf(d)) + 1
      /\ \A j \in 1..(delivery[d].place - 1) :
           ListOf(d)[j].active => delivery[d].called[j] = {ListOf(d)[j].client}
=============================================================================
