------------------------------- MODULE AppKit -------------------------------
(***************************************************************************)
(* apps/app.c and apps/app_kit.c over the tasks of kernel/scheduler.c: the  *)
(* life of the installed apps, the focus, the key presses the main loop     *)
(* hands to the apps, and the switch and kill commands of the terminal.     *)
(*                                                                          *)
(* Everything runs on one thread.  Key handlers and terminal commands run   *)
(* in the main loop; an app's task runs app_kit_run between two sleeps.     *)
(* A context (app_ctx_t) lives on the stack of the task that runs           *)
(* app_kit_run, so it is named by the slot of that task.                    *)
(*                                                                          *)
(* The functions of the source are operators from a world (the data they    *)
(* touch) to the world they leave; a call that fails returns its argument.  *)
(* Left out: drawing, the saved app state, app_uninstall and                *)
(* os_app_switch_next (nothing calls them), a display that fails to open,   *)
(* and the limit of the context registry, which has a place for each slot.  *)
(***************************************************************************)
EXTENDS Tasks, Sequences, FiniteSets, Integers

CONSTANTS
    Apps,     \* the installed apps
    Home,     \* APP_KIT_HOME_NAME, the launcher
    Hinted,   \* the apps that set a power demand other than NORMAL
    SelfSwitching,  \* the apps whose on_frame may itself open or leave an app
    MaxPins,  \* the pins keys can be bound to: MAX_GPIO_PINS - APP_KIT_PIN_BASE
    Nil       \* a null pointer

ASSUME HomeAssumption == Home \in Apps
ASSUME HintedAssumption == Hinted \subseteq Apps
ASSUME SelfSwitchingAssumption == SelfSwitching \subseteq Apps
ASSUME MaxPinsAssumption == MaxPins \in Nat
ASSUME NilAssumption == Nil \notin TaskSlots \cup Apps

VARIABLES
    app_state,  \* the state of each app_t
    app_task,   \* its task, or Nil
    pc,         \* where the task of each slot is in app_kit_run
    owner,      \* the app a slot was last created for: desc of its context
    running,    \* the contexts whose running flag is set
    retired,    \* the contexts whose retired flag is set
    g_ctx_reg,  \* the context registered under each app's name, or Nil
    g_fg,       \* the foreground context, or Nil
    g_home,     \* the launcher's context, or Nil
    demand,     \* the slots whose task asks for more than NORMAL power
    fg_demand,  \* whether the governor's foreground demand is such a demand
    pins,       \* the pins bound to keys, in pin order
    press       \* the key press main is handing out: the pins still to visit

kitVars == <<app_state, app_task, pc, owner, running, retired, g_ctx_reg, g_fg,
             g_home, demand, fg_demand>>
appVars == <<st, cur, kitVars, pins, press>>

Keys == {"ENTER", "ESCAPE"}
AppStates == {"INSTALLED", "RUNNING", "SUSPENDED", "STOPPED"}
NoPress == [key |-> Nil, todo |-> <<>>, reached |-> {}]

World ==
    [st |-> st, app |-> app_state, task |-> app_task, pc |-> pc,
     owner |-> owner, running |-> running, retired |-> retired,
     reg |-> g_ctx_reg, fg |-> g_fg, home |-> g_home, demand |-> demand, fgd |-> fg_demand]

\* The step leaves the world w, the tasks' states excepted.
KitBecomes(w) ==
    /\ app_state' = w.app
    /\ app_task' = w.task
    /\ pc' = w.pc
    /\ owner' = w.owner
    /\ running' = w.running
    /\ retired' = w.retired
    /\ g_ctx_reg' = w.reg
    /\ g_fg' = w.fg
    /\ g_home' = w.home
    /\ demand' = w.demand
    /\ fg_demand' = w.fgd

-----------------------------------------------------------------------------
(* apps/app.c *)

FreeSlots(w) == {t \in TaskSlots : w.st[t] = "FREE"}

\* app_start returns 0.
CanStart(w, a) == w.app[a] \in {"INSTALLED", "STOPPED"} /\ FreeSlots(w) # {}

app_start(w, a) ==
    IF ~CanStart(w, a) THEN w
    ELSE LET t == CHOOSE s \in FreeSlots(w) : TRUE
         IN  [w EXCEPT !.st[t] = "READY", !.owner[t] = a, !.pc[t] = "entry",
                       !.task[a] = t, !.app[a] = "RUNNING"]

\* task_delete refuses the running task; every other slot becomes free.
app_stop(w, a) ==
    IF w.app[a] # "RUNNING" THEN w
    ELSE LET t == w.task[a]
         IN  [w EXCEPT !.st = IF t \in {Nil, cur} THEN @
                              ELSE [@ EXCEPT ![t] = "FREE"],
                       !.task[a] = Nil, !.app[a] = "STOPPED"]

\* Mutant: a sleeping task is not parked.
app_suspend_ready_only(w, a) ==
    IF w.app[a] # "RUNNING" THEN w
    ELSE LET t == w.task[a]
         IN  [w EXCEPT !.app[a] = "SUSPENDED",
                       !.st = IF t # Nil /\ w.st[t] = "READY"
                              THEN [@ EXCEPT ![t] = "SUSPENDED"] ELSE @]

\* A task that suspends itself keeps running up to the switch: its slot changes
\* state when the action gives up the CPU.
app_suspend(w, a) ==
    IF w.app[a] # "RUNNING" THEN w
    ELSE LET t == w.task[a]
         IN  [w EXCEPT !.app[a] = "SUSPENDED",
                       !.st = IF t # Nil /\ w.st[t] \in {"READY", "BLOCKED"}
                              THEN [@ EXCEPT ![t] = "SUSPENDED"] ELSE @]

app_resume(w, a) ==
    IF w.app[a] # "SUSPENDED" THEN w
    ELSE LET t == w.task[a]
         IN  [w EXCEPT !.app[a] = "RUNNING",
                       !.st = IF t # Nil /\ w.st[t] = "SUSPENDED"
                              THEN [@ EXCEPT ![t] = "READY"] ELSE @]

\* What the kit does to an app it is about to show: resume it if suspended,
\* start it if not running, and leave it alone if running.
ResumeOrStart(w, a) ==
    IF w.app[a] = "SUSPENDED" THEN app_resume(w, a) ELSE app_start(w, a)

-----------------------------------------------------------------------------
(* apps/app_kit.c *)

\* Whether the context c has set a demand: its on_init bound every key first.
HasDemand(c) ==
    /\ c # Nil
    /\ pc[c] # "entry"
    /\ owner[c] \in Hinted
    /\ \E i \in 1..Len(pins) : pins[i] = [ctx |-> c, key |-> "ESCAPE"]

\* Mutant: the context that loses the focus keeps its demand.
app_kit_focus_keeps(w, c) ==
    [w EXCEPT !.fg = c,
              !.demand = @ \cup (IF HasDemand(c) THEN {c} ELSE {}),
              !.fgd = HasDemand(c)]

\* Leaving the foreground takes the demand of the old context back.
app_kit_focus(w, c) ==
    [w EXCEPT !.fg = c,
              !.demand = (@ \ {w.fg}) \cup (IF HasDemand(c) THEN {c} ELSE {}),
              !.fgd = HasDemand(c)]

\* g_fg = NULL and the demands back to NORMAL, if c is in the foreground.
DropFocus(w, c) ==
    IF w.fg # c THEN w
    ELSE [w EXCEPT !.fg = Nil, !.demand = @ \ {c}, !.fgd = FALSE]

FocusHome(w) == IF w.home = Nil THEN w ELSE app_kit_focus(w, w.home)

app_kit_return_home(w, leaving) ==
    IF leaving = Home THEN w ELSE FocusHome(ResumeOrStart(w, Home))

\* The bindings of a dead context still match the app's descriptor.
app_kit_is_foreground(c) == g_fg # Nil /\ owner[c] = owner[g_fg]

app_request_exit(w, c) ==
    LET a  == w.owner[c]
        w1 == FocusHome(ResumeOrStart(w, Home))
    IN  IF a = Home THEN FocusHome(w)
        ELSE IF w1.app[a] = "RUNNING" THEN app_suspend(w1, a)
        ELSE [w1 EXCEPT !.running = @ \ {c}]

FocusRegistered(w, a) == IF w.reg[a] = Nil THEN w ELSE app_kit_focus(w, w.reg[a])

app_open(w, c, a) ==
    LET from == w.owner[c]
    IN  IF from = a \/ (w.app[a] \notin {"SUSPENDED", "RUNNING"} /\ ~CanStart(w, a))
        THEN w
        ELSE app_suspend(FocusRegistered(ResumeOrStart(w, a), a), from)

app_kit_switch(w, a) ==
    LET w1 == FocusRegistered(ResumeOrStart(w, a), a)
    IN  IF w.app[a] \notin {"SUSPENDED", "RUNNING"} /\ ~CanStart(w, a) THEN w
        ELSE IF w.fg = Nil \/ w.owner[w.fg] = a THEN w1
        ELSE app_suspend(w1, w.owner[w.fg])

\* The context asked to stop is resumed so that its loop can leave.
CanRequestStop(w, a) ==
    w.reg[a] # Nil /\ w.app[a] \in {"RUNNING", "SUSPENDED"}

app_kit_request_stop(w, a) ==
    LET c  == w.reg[a]
        w1 == [DropFocus(w, c) EXCEPT !.running = @ \ {c}, !.retired = @ \cup {c}]
        w2 == IF w.fg = c THEN app_kit_return_home(w1, a) ELSE w1
    IN  app_resume(w2, a)

-----------------------------------------------------------------------------
(* The task of an app: app_task_entry and app_kit_run. *)

\* The running task leaves the CPU in state s.  A task that parked itself may
\* switch straight to another that is ready (Tasks, GiveUp).
LeaveCpu(w, s) ==
    \/ /\ st' = [w.st EXCEPT ![cur] = s]
       /\ cur' = NoTask
    \/ \E t \in TaskSlots :
         /\ s = "SUSPENDED"
         /\ w.st[t] = "READY"
         /\ st' = [w.st EXCEPT ![cur] = s, ![t] = "RUNNING"]
         /\ cur' = t

\* The keys an app binds in on_init, Escape last, while there are pins left.
BoundPins(c) ==
    LET more == pins \o <<[ctx |-> c, key |-> "ENTER"], [ctx |-> c, key |-> "ESCAPE"]>>
    IN  SubSeq(more, 1, IF Len(more) < MaxPins THEN Len(more) ELSE MaxPins)

\* From the start of the task to the loop: register, focus, on_init.  A helper
\* app whose keys cannot all be bound sets no demand and carries on.
KitStart ==
    /\ cur # NoTask
    /\ pc[cur] = "entry"
    /\ pins' = BoundPins(cur)
    /\ LET a == owner[cur]
           w == app_kit_focus(World, cur)
           asks == a \in Hinted /\ \E i \in 1..Len(pins') :
                     pins'[i] = [ctx |-> cur, key |-> "ESCAPE"]
       IN  KitBecomes([w EXCEPT
             !.pc[cur] = "loop", !.running = @ \cup {cur}, !.reg[a] = cur,
             !.home = IF a = Home THEN cur ELSE @,
             !.demand = IF asks THEN @ \cup {cur} ELSE @, !.fgd = asks])
    /\ UNCHANGED <<st, cur, press>>

\* The head of the loop: take the focus back after a resume.
Refocused ==
    IF /\ g_ctx_reg[owner[cur]] = cur
       /\ g_fg # cur
       /\ app_state[owner[cur]] = "RUNNING"
    THEN app_kit_focus(World, cur) ELSE World

InLoop == cur # NoTask /\ pc[cur] = "loop" /\ cur \in running

\* A turn of the loop whose on_frame leaves the focus alone.
KitFrame ==
    /\ InLoop
    /\ KitBecomes(Refocused)
    /\ LeaveCpu(Refocused, "BLOCKED")
    /\ UNCHANGED <<pins, press>>

\* on_frame leaves the world w.  If that suspended this app, its task is parked
\* inside on_frame; otherwise the loop goes on.
FrameLeaves(w) ==
    LET parked == w.app[owner[cur]] = "SUSPENDED"
    IN  /\ KitBecomes([w EXCEPT !.pc[cur] = "frame"])
        /\ IF parked THEN LeaveCpu(w, "SUSPENDED")
           ELSE st' = w.st /\ UNCHANGED cur
        /\ UNCHANGED <<pins, press>>

\* on_frame calls app_request_exit.
KitFrameExit ==
    /\ InLoop
    /\ owner[cur] \in SelfSwitching
    /\ FrameLeaves(app_request_exit(Refocused, cur))

\* on_frame calls app_open.
KitFrameOpen(a) ==
    /\ InLoop
    /\ owner[cur] \in SelfSwitching
    /\ FrameLeaves(app_open(Refocused, cur, a))

\* on_frame returns, perhaps long after the app was suspended inside it.
KitFrameReturn ==
    /\ cur # NoTask
    /\ pc[cur] = "frame"
    /\ cur \in running
    /\ KitBecomes([World EXCEPT !.pc[cur] = "loop"])
    /\ LeaveCpu(World, "BLOCKED")
    /\ UNCHANGED <<pins, press>>

\* Mutant: the launcher's context is not forgotten when it leaves.
KitExit_keeps_home ==
    /\ cur # NoTask
    /\ pc[cur] # "entry"
    /\ cur \notin running
    /\ LET a  == owner[cur]
           w1 == [DropFocus(World, cur) EXCEPT !.reg[a] = Nil]
           w2 == app_stop(app_kit_return_home(w1, a), a)
       IN  KitBecomes(w2) /\ LeaveCpu(w2, "TERMINATED")
    /\ UNCHANGED <<pins, press>>

\* The loop ends: unregister, give the focus to the launcher, app_stop, exit.
KitExit ==
    /\ cur # NoTask
    /\ pc[cur] # "entry"
    /\ cur \notin running
    /\ LET a  == owner[cur]
           w1 == [DropFocus(World, cur) EXCEPT
                    !.reg[a] = Nil, !.home = IF @ = cur THEN Nil ELSE @]
           w2 == app_stop(app_kit_return_home(w1, a), a)
       IN  KitBecomes(w2) /\ LeaveCpu(w2, "TERMINATED")
    /\ UNCHANGED <<pins, press>>

-----------------------------------------------------------------------------
(* The main loop: scheduling, keys, and the terminal. *)

MainIdle == cur = NoTask /\ press = NoPress

Schedule ==
    /\ MainIdle
    /\ \E t \in TaskSlots : Run(t) \/ Wake({t})
    /\ UNCHANGED <<kitVars, pins, press>>

\* sim_gpio_handle_key starts its walk over the pins, ...
KeyPress(k) ==
    /\ MainIdle
    /\ \E i \in 1..Len(pins) : pins[i].key = k
    /\ press' = [key |-> k, todo |-> SelectSeq(pins, LAMBDA p : p.key = k),
                 reached |-> {}]
    /\ UNCHANGED <<st, cur, kitVars, pins>>

\* ... calls the handler of a pin mapped to the key if its app is in front when
\* the walk gets there: Enter in the launcher opens an app, Escape leaves, ...
KeyHandler(p) ==
    IF p.key = "ESCAPE" THEN {app_request_exit(World, p.ctx)}
    ELSE IF owner[p.ctx] = Home
         THEN {app_open(World, p.ctx, a) : a \in Apps \ {Home}} ELSE {World}

Delivered(p) == app_kit_is_foreground(p.ctx)

KeyPin ==
    /\ press # NoPress
    /\ press.todo # <<>>
    /\ LET p == Head(press.todo)
       IN  \E w \in (IF Delivered(p) THEN KeyHandler(p) ELSE {World}) :
             /\ KitBecomes(w)
             /\ st' = w.st
             /\ press' = [press EXCEPT !.todo = Tail(@),
                            !.reached = IF Delivered(p) THEN @ \cup {p.ctx} ELSE @]
    /\ UNCHANGED <<cur, pins>>

\* ... and ends after the last pin.
KeyDone ==
    /\ press # NoPress
    /\ press.todo = <<>>
    /\ press' = NoPress
    /\ UNCHANGED <<st, cur, kitVars, pins>>

\* The terminal's switch command.
cmd_switch(a) ==
    /\ MainIdle
    /\ LET w == app_kit_switch(World, a) IN KitBecomes(w) /\ st' = w.st
    /\ UNCHANGED <<cur, pins, press>>

\* The terminal's kill command.  An app whose task has not run yet has no
\* context; it is stopped at once, and the launcher shown if it was in front.
KilledNow(w, a) ==
    LET w1 == app_stop(app_resume(w, a), a)
    IN  IF w1.app[a] # "STOPPED" \/ w.app[a] = "STOPPED" THEN w
        ELSE IF w.fg # Nil /\ w.owner[w.fg] = a THEN app_kit_switch(w1, Home)
        ELSE w1

cmd_kill(a) ==
    /\ MainIdle
    /\ LET w == IF CanRequestStop(World, a) THEN app_kit_request_stop(World, a)
                ELSE KilledNow(World, a)
       IN  KitBecomes(w) /\ st' = w.st
    /\ UNCHANGED <<cur, pins, press>>

-----------------------------------------------------------------------------

\* Every app is installed and nothing runs; the boot starts one of them.
AppsInit ==
    /\ cur = NoTask
    /\ \E a \in Apps :
         LET w == app_start(
                    [st |-> [t \in TaskSlots |-> "FREE"],
                     app |-> [x \in Apps |-> "INSTALLED"],
                     task |-> [x \in Apps |-> Nil],
                     pc |-> [t \in TaskSlots |-> "entry"],
                     owner |-> [t \in TaskSlots |-> Nil]], a)
         IN  /\ st = w.st
             /\ app_state = w.app
             /\ app_task = w.task
             /\ pc = w.pc
             /\ owner = w.owner
    /\ running = {}
    /\ retired = {}
    /\ g_ctx_reg = [a \in Apps |-> Nil]
    /\ g_fg = Nil
    /\ g_home = Nil
    /\ demand = {}
    /\ fg_demand = FALSE
    /\ pins = <<>>
    /\ press = NoPress

TaskStep ==
    \/ KitStart \/ KitFrame \/ KitFrameExit \/ KitFrameReturn \/ KitExit
    \/ \E a \in Apps : KitFrameOpen(a)

MainStep ==
    \/ Schedule \/ KeyPin \/ KeyDone
    \/ \E k \in Keys : KeyPress(k)
    \/ \E a \in Apps : cmd_switch(a) \/ cmd_kill(a)

AppsNext == TaskStep \/ MainStep
AppsSpec == AppsInit /\ [][AppsNext]_appVars

-----------------------------------------------------------------------------
(* Properties. *)

\* A context lives on its task's stack.
LiveContext(c) ==
    c \in TaskSlots /\ st[c] \notin {"FREE", "TERMINATED"} /\ pc[c] # "entry"

\* The pointers the kit keeps to contexts never dangle: the foreground, the
\* launcher's context and every registered context belong to a task that is
\* still inside app_kit_run, and a registered context is its app's own task.
ContextsLive ==
    /\ \A c \in {g_fg, g_home} : c = Nil \/ LiveContext(c)
    /\ \A a \in Apps : g_ctx_reg[a] # Nil =>
         LiveContext(g_ctx_reg[a]) /\ app_task[a] = g_ctx_reg[a]
    /\ g_home # Nil => g_home = g_ctx_reg[Home]

\* The app's state and its task's agree: an app that is RUNNING or SUSPENDED has
\* a task of its own, the task of a SUSPENDED app is parked, and that of a
\* RUNNING app is not (so that app_resume is never needed and never lost).
AppsMatchTasks ==
    \A a \in Apps :
      LET t == app_task[a] IN
      /\ app_state[a] \in {"RUNNING", "SUSPENDED"} <=> t # Nil
      /\ t # Nil =>
           /\ owner[t] = a
           /\ st[t] \notin {"FREE", "TERMINATED"}
           /\ st[t] = "SUSPENDED" <=> app_state[a] = "SUSPENDED"

\* docs/power.md: leaving the foreground puts the app's demand back to NORMAL.
\* Only the foreground app's task holds a raised demand, and the governor's
\* foreground demand is the one of that app.
DemandFollowsFocus ==
    /\ demand \subseteq {g_fg}
    /\ fg_demand <=> g_fg \in demand
    /\ HasDemand(g_fg) <=> g_fg \in demand

\* A key press reaches the handler of one context at most: the one in front when
\* the key went down.
OnePressOneApp == Cardinality(press.reached) <= 1

\* Leaving an app keeps it alive in the background (app_kit.c:208): an app stops
\* only when app_kit_request_stop retired its context, or a kill met it before
\* its task first ran.
LeftAppsStayAlive ==
    [][\A a \in Apps :
         app_state[a] # "STOPPED" /\ app_state'[a] = "STOPPED" =>
           app_task[a] \in retired \/ pc[app_task[a]] = "entry"]_appVars
=============================================================================
