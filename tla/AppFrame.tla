------------------------------ MODULE AppFrame ------------------------------
(***************************************************************************)
(* When an app paints: the run loop of apps/app_kit.c, the frame of        *)
(* apps/app_helper.c and the length of the sleep between two frames.  The  *)
(* apps share one panel; a frame paints only when something asked for it,  *)
(* and a task that has nothing to do sleeps up to a minute, so what is on  *)
(* the panel when the task goes to sleep stays there.                      *)
(*                                                                         *)
(* The tasks are cooperative (kernel/scheduler.c): a frame and the sleep   *)
(* after it are one step, and keys and worker tasks come in between.       *)
(* Which app may open which is AppKit's business; here any app opens any.  *)
(* Left out: the widgets of a picture, and notifications (module Notify).  *)
(***************************************************************************)
EXTENDS Integers, FiniteSets

CONSTANTS Screens,    \* apps: [name, live, every, band] records; band: APP_UI_MODE_UI
          Second,     \* ticks of a second
          Pace,       \* ticks between the frames of a live app
          LongSleep,  \* ticks of the 60000 ms default
          TickMod     \* the tick count is modulo this, 2^32 in the code

ASSUME FrameAssumption ==
    /\ {Second, Pace, LongSleep, TickMod} \subseteq Nat \ {0}
    /\ Pace <= Second /\ Second <= LongSleep /\ LongSleep < TickMod
    /\ \A a \in Screens : /\ a.name # "none" /\ a.every \in 0 .. LongSleep
                          /\ a.live \in BOOLEAN /\ a.band \in BOOLEAN

VARIABLES
    fr_header,   \* the panel has room for the header: app_header_height() > 0
    fr_now,      \* scheduler_get_tick_count
    fr_front,    \* g_fg
    fr_band,     \* header_app.c's g_visible
    fr_task,     \* "none", "ready", "asleep" or "suspended"
    fr_left,     \* ticks an app asleep has to go
    fr_app,      \* app_helper_t: [needs, saw, painted, ticked]
    fr_panel     \* the app the panel shows, and whether its data is still the same

fr_vars == <<fr_header, fr_now, fr_front, fr_band, fr_task, fr_left, fr_app, fr_panel>>

NoApp == [name |-> "none", live |-> FALSE, every |-> 0, band |-> FALSE]
Stopped == [needs |-> FALSE, saw |-> FALSE, painted |-> 0, ticked |-> 0]

FramesInit ==
    /\ fr_header \in BOOLEAN
    /\ fr_now = 0
    /\ fr_front = NoApp
    /\ fr_band = FALSE
    /\ fr_task = [a \in Screens |-> "none"]
    /\ fr_left = [a \in Screens |-> 0]
    /\ fr_app = [a \in Screens |-> Stopped]
    /\ fr_panel = [app |-> NoApp, fresh |-> FALSE]

----------------------------------------------------------------------------
\* Opening an app from the one in front: a new task starts with a request to
\* draw, a suspended one goes on, and the app left is suspended.
app_open(a) ==
    /\ fr_front # a
    /\ fr_task' = [b \in Screens |-> CASE b = a -> "ready"
                                       [] b = fr_front -> "suspended"
                                       [] OTHER -> fr_task[b]]
    /\ fr_front' = a
    /\ fr_app' = [fr_app EXCEPT ![a] = IF fr_task[a] = "none" THEN [Stopped EXCEPT !.needs = TRUE] ELSE @]
    /\ fr_left' = [b \in Screens |-> IF b \in {a, fr_front} THEN 0 ELSE fr_left[b]]
    /\ UNCHANGED <<fr_header, fr_now, fr_band, fr_panel>>

\* mutant: app_helper_invalidate without app_kit_wake
Woken_asleep(a) == fr_task

\* app_kit_wake: the sleep is over for a task that is asleep.
Woken(a) == [fr_task EXCEPT ![a] = IF @ = "asleep" THEN "ready" ELSE @]

\* A key of the app in front, or a worker task of any app that runs: the
\* data changes and app_helper_invalidate asks for a frame.
app_helper_emit(a) ==
    /\ fr_task[a] # "none"
    /\ fr_panel' = IF fr_panel.app = a THEN [fr_panel EXCEPT !.fresh = FALSE] ELSE fr_panel
    /\ fr_app' = [fr_app EXCEPT ![a].needs = TRUE]
    /\ fr_task' = Woken(a)
    /\ UNCHANGED <<fr_header, fr_now, fr_front, fr_band, fr_left>>

\* on_tick of a timed app is due: never in its first frame.
TickDue(a) ==
    /\ a.every > 0
    /\ fr_app[a].saw
    /\ (fr_now - fr_app[a].ticked) % TickMod >= a.every

\* The header shows the next second.
SecondPassed(a) == a.band /\ fr_header /\ fr_now \div Second # fr_app[a].painted

MinOf(m, n) == IF m < n THEN m ELSE n

\* band is header_app_visible() after the frame.
app_kit_next_sleep_ms(a, band) ==
    CASE a.live -> Pace
      [] ~a.live /\ a.every > 0 -> IF band /\ fr_header /\ a.band THEN MinOf(a.every, Second) ELSE a.every
      [] OTHER -> IF band /\ fr_header /\ a.band THEN Second ELSE LongSleep

\* One turn of app_kit_run's loop: on_tick, the paint when something asks
\* for it, and the sleep.
app_helper_frame(a) ==
    /\ fr_task[a] = "ready"
    /\ \E tick \in {TickDue(a)}, first \in {a.every > 0 /\ ~fr_app[a].saw} :
       \E paint \in {fr_app[a].needs \/ tick \/ SecondPassed(a) \/ a.live} :
          /\ fr_app' = [fr_app EXCEPT ![a] =
                [needs   |-> FALSE, saw |-> TRUE,
                 painted |-> IF paint /\ a.band THEN fr_now \div Second ELSE @.painted,
                 ticked  |-> IF tick \/ first THEN fr_now ELSE @.ticked]]
          /\ fr_panel' = IF paint THEN [app |-> a, fresh |-> TRUE] ELSE fr_panel
          /\ fr_band' = IF paint THEN a.band ELSE fr_band
          /\ fr_left' = [fr_left EXCEPT ![a] =
                app_kit_next_sleep_ms(a, IF paint THEN a.band ELSE fr_band)]
    /\ fr_task' = [fr_task EXCEPT ![a] = "asleep"]
    /\ UNCHANGED <<fr_header, fr_now, fr_front>>

\* A tick; a sleep that is over makes its task ready.
FrameTick ==
    /\ fr_now' = (fr_now + 1) % TickMod
    /\ fr_left' = [a \in Screens |-> IF fr_task[a] = "asleep" THEN fr_left[a] - 1 ELSE 0]
    /\ fr_task' = [a \in Screens |-> IF fr_task[a] = "asleep" /\ fr_left[a] = 1 THEN "ready" ELSE fr_task[a]]
    /\ UNCHANGED <<fr_header, fr_front, fr_band, fr_app, fr_panel>>

FramesNext ==
    \/ FrameTick
    \/ \E a \in Screens : app_open(a) \/ app_helper_emit(a) \/ app_helper_frame(a)

FramesSpec == FramesInit /\ [][FramesNext]_fr_vars

----------------------------------------------------------------------------
\* The panel is right when the app in front goes to sleep: it shows the
\* newest version of that app's data, whatever keys, workers and ticks did
\* while the app was in front or behind another.  The one exception is an
\* app that repaints on request only and came back to the front within the
\* second of its last picture, or on a panel without header: coming back
\* requests no picture (app_kit_focus marks ctx->dirty, which the frame does
\* not read), and the panel still shows the other app.
PanelIsFresh ==
    \A a \in Screens :
        a = fr_front /\ fr_task[a] = "asleep" =>
            \/ fr_panel = [app |-> a, fresh |-> TRUE]
            \/ /\ fr_panel.app # a
               /\ ~a.live
               /\ ~fr_app[a].needs
               /\ a.band /\ fr_header /\ fr_band => fr_left[a] <= Second
=============================================================================
