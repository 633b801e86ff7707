---------------------------- MODULE InputEvents ----------------------------
(***************************************************************************)
(* apps/input.c: the ring of input events, the classification of key       *)
(* presses by the tick they come at, and input_process_events, which takes *)
(* the lock off while it calls the devices' callbacks.  A callback may     *)
(* register and unregister devices, post events and take the input system  *)
(* down, so a delivery is modelled one callback at a time.                 *)
(*                                                                         *)
(* Thresholds are in ticks; the tick counter wraps at InTickMod.  Event    *)
(* payloads are left out: an event is its type and a serial number, a      *)
(* history by which the properties tell events apart.                      *)
(***************************************************************************)
EXTENDS Lists

CONSTANTS InDevices,      \* names devices register under
          MaxInDevices,   \* INPUT_MAX_DEVICES
          QueueSize,      \* INPUT_EVENT_QUEUE_SIZE
          TapTicks, LongTicks, HoldTicks,   \* thresholds of a release
          DoubleTicks,    \* double_tap_threshold_ms
          InTickMod,      \* range of the tick counter
          LastInTick,     \* bound: ticks that pass
          MaxPosts        \* bound: events posted

ASSUME InputAssumption ==
    /\ {QueueSize, InTickMod} \subseteq Nat \ {0}
    /\ {MaxInDevices, TapTicks, LongTicks, HoldTicks, DoubleTicks, LastInTick, MaxPosts} \subseteq Nat

VARIABLES in_devices,     \* g_input.devices[0..device_count-1], by name
          in_queue,       \* event_queue, queue_head, queue_tail, queue_count
          last_key,       \* last_key_states of the key
          key_repeat,     \* key_repeat_states of the key
          in_run,         \* input_process_events: event in hand, device index
          in_tick,        \* ticks since boot
          in_hist         \* history: events posted, presses classified, deliveries

inVars == <<in_devices, in_queue, last_key, key_repeat, in_run, in_tick, in_hist>>

scheduler_get_tick_count == in_tick % InTickMod

NoEvent == [type |-> "NONE", serial |-> 0]
EmptyQueue == [ring |-> [i \in 0..(QueueSize - 1) |-> NoEvent], head |-> 0, tail |-> 0, count |-> 0]
NotRunning == [on |-> FALSE, event |-> NoEvent, i |-> 0]

\* input_init: everything is zero
InputInit ==
    /\ in_devices = <<>>
    /\ in_queue = EmptyQueue
    /\ last_key = 0 /\ key_repeat = 0
    /\ in_run = NotRunning
    /\ in_tick = 0
    /\ in_hist = [posts |-> 0, pending |-> <<>>, press |-> -InTickMod, paired |-> TRUE,
                  odd |-> FALSE]

\* a task, or the callback that is running
InCaller == in_run.on => in_run.i > 0

(***************************************************************************)
(* The ring.                                                               *)
(***************************************************************************)
QueueFull(q) == q.count >= QueueSize

\* a full ring drops the event; whoever posted a key event is not told
input_queue_event(type) ==
    LET event == [type |-> type, serial |-> in_hist.posts + 1] IN
    IF QueueFull(in_queue)
    THEN UNCHANGED in_queue
    ELSE in_queue' = [ring |-> [in_queue.ring EXCEPT ![in_queue.tail] = event],
                      head |-> in_queue.head,
                      tail |-> (in_queue.tail + 1) % QueueSize,
                      count |-> in_queue.count + 1]

Posted(h) == [h EXCEPT !.posts = @ + 1,
                       !.pending = IF in_queue' = in_queue THEN @ ELSE Append(@, h.posts + 1)]

(***************************************************************************)
(* process_key_event.                                                      *)
(***************************************************************************)
\* mutant: the first press of a double tap is not used up by it
RepeatAfter_kept(double) == scheduler_get_tick_count

RepeatAfter(double) == IF double THEN 0 ELSE scheduler_get_tick_count

\* key_repeat_states = 0 also means "never pressed"
IsDoubleTap ==
    /\ key_repeat > 0
    /\ (scheduler_get_tick_count - key_repeat) % InTickMod < DoubleTicks

\* history: a double tap is odd unless the press before it was a plain one,
\* less than the threshold ago (or a whole turn of the counter ago)
KeyDown ==
    /\ InCaller /\ in_hist.posts < MaxPosts
    /\ last_key' = scheduler_get_tick_count
    /\ key_repeat' = RepeatAfter(IsDoubleTap)
    /\ input_queue_event(IF IsDoubleTap THEN "DOUBLE_TAP" ELSE "KEY_DOWN")
    /\ in_hist' = [Posted(in_hist) EXCEPT
                     !.press = in_tick, !.paired = IsDoubleTap,
                     !.odd = @ \/ (IsDoubleTap /\
                        (in_hist.paired \/ in_tick - in_hist.press \notin
                            (0..(DoubleTicks - 1)) \cup (InTickMod..LastInTick)))]
    /\ UNCHANGED <<in_devices, in_run, in_tick>>

Release ==
    LET duration == (scheduler_get_tick_count - last_key) % InTickMod IN
    CASE duration >= HoldTicks -> "RELEASE"
      [] duration >= LongTicks /\ duration < HoldTicks -> "LONG_TAP"
      [] duration >= TapTicks /\ duration < LongTicks -> "TAP"
      [] OTHER -> "KEY_UP"

KeyUp ==
    /\ InCaller /\ in_hist.posts < MaxPosts
    /\ input_queue_event(Release)
    /\ in_hist' = Posted(in_hist)
    /\ UNCHANGED <<in_devices, last_key, key_repeat, in_run, in_tick>>

\* input_post_event of anything but a raw key event
input_post_event ==
    /\ InCaller /\ in_hist.posts < MaxPosts
    /\ input_queue_event("TOUCH")
    /\ in_hist' = Posted(in_hist)
    /\ UNCHANGED <<in_devices, last_key, key_repeat, in_run, in_tick>>

(***************************************************************************)
(* Devices.                                                                *)
(***************************************************************************)
\* the places of the table that hold a device of this name
Named(d) == {i \in 1..Len(in_devices) : in_devices[i] = d}

input_device_register(d) ==
    /\ InCaller
    /\ Len(in_devices) < MaxInDevices
    /\ Named(d) = {}
    /\ in_devices' = Append(in_devices, d)
    /\ UNCHANGED <<in_queue, last_key, key_repeat, in_run, in_tick, in_hist>>

\* the devices behind it move down one place, also under a delivery in progress
input_device_unregister(d) ==
    /\ InCaller
    /\ Named(d) # {}
    /\ in_devices' = Without(in_devices, First(Named(d)))
    /\ UNCHANGED <<in_queue, last_key, key_repeat, in_run, in_tick, in_hist>>

input_deinit ==
    /\ InCaller
    /\ in_devices' = <<>>
    /\ in_queue' = EmptyQueue
    /\ last_key' = 0 /\ key_repeat' = 0
    /\ in_hist' = [in_hist EXCEPT !.pending = <<>>, !.press = -InTickMod, !.paired = TRUE]
    /\ UNCHANGED <<in_run, in_tick>>

(***************************************************************************)
(* input_process_events.                                                   *)
(***************************************************************************)
\* a place taken is blanked: nobody reads it before it is written again.
\* history: the event taken off the ring is the oldest one kept
TakeEvent ==
    /\ in_queue.count > 0
    /\ in_run' = [on |-> TRUE, event |-> in_queue.ring[in_queue.head], i |-> 0]
    /\ in_queue' = [in_queue EXCEPT !.head = (@ + 1) % QueueSize, !.count = @ - 1,
                                    !.ring[in_queue.head] = NoEvent]
    /\ in_hist' = [in_hist EXCEPT
                     !.pending = IF @ = <<>> THEN @ ELSE Tail(@),
                     !.odd = @ \/ in_hist.pending = <<>>
                               \/ in_queue.ring[in_queue.head].serial # Head(in_hist.pending)]
    /\ UNCHANGED <<in_devices, last_key, key_repeat, in_tick>>

input_process_events == ~in_run.on /\ TakeEvent

\* the next device's callback runs
Deliver ==
    /\ in_run.on /\ in_run.i < Len(in_devices)
    /\ in_run' = [in_run EXCEPT !.i = @ + 1]
    /\ UNCHANGED <<in_devices, in_queue, last_key, key_repeat, in_tick, in_hist>>

\* every device has the event: the next one, or the end
Delivered ==
    /\ in_run.on /\ in_run.i >= Len(in_devices)
    /\ \/ TakeEvent
       \/ /\ in_queue.count = 0
          /\ in_run' = NotRunning
          /\ UNCHANGED <<in_devices, in_queue, last_key, key_repeat, in_tick, in_hist>>

scheduler_tick ==
    /\ in_tick < LastInTick
    /\ in_tick' = in_tick + 1
    /\ UNCHANGED <<in_devices, in_queue, last_key, key_repeat, in_run, in_hist>>

InputNext ==
    \/ KeyDown \/ KeyUp \/ input_post_event
    \/ \E d \in InDevices : input_device_register(d) \/ input_device_unregister(d)
    \/ input_deinit
    \/ input_process_events \/ Deliver \/ Delivered
    \/ scheduler_tick

InputSpec == InputInit /\ [][InputNext]_inVars

(***************************************************************************)
(* Property.                                                               *)
(***************************************************************************)
\* What input_process_events hands out is exactly what was posted and not
\* dropped, oldest first and once each, also when callbacks post, unregister
\* and reset in the middle of a delivery; and a DOUBLE_TAP closes a pair: the
\* press before it was a plain KEY_DOWN less than the threshold ago, so that no
\* press counts for two double taps (unless the tick counter went all the way
\* round in between)
InputInOrder == ~in_hist.odd
=============================================================================
