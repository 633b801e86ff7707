----------------------------- MODULE Scheduler -----------------------------
(***************************************************************************)
(* kernel/scheduler.c: the cooperative fiber scheduler of the host, NodeMCU *)
(* and simulator builds.  A task runs until it yields, sleeps, suspends     *)
(* itself or returns; then control goes to another ready task or back to    *)
(* main, the pseudo-task of the loop that calls scheduler_tick and          *)
(* scheduler_step.  The scheduler is single threaded, so every API call is  *)
(* one step.                                                                *)
(*                                                                          *)
(* A doubly linked task list is the function from the slots on it to their  *)
(* distance from the head (0 is the head).                                  *)
(*                                                                          *)
(* Left out: task names, entry points and arguments, the contents of        *)
(* stacks, the statistics (idle_tick_count), and the nesting counter of     *)
(* scheduler_lock, which only scheduler_exit_isr reads and no code calls.   *)
(***************************************************************************)
EXTENDS Integers, FiniteSets

CONSTANTS
    MaxTasks,    \* MAX_TASKS: the size of the slot table
    Prios,       \* the priorities clients create tasks with
    TickMod,     \* 2^32: the range of the uint32_t tick counter
    SleepTicks,  \* arguments of task_sleep
    JumpTicks    \* arguments of scheduler_enter_deep_sleep

ASSUME MaxTasksAssumption == MaxTasks \in Nat /\ MaxTasks >= 3
ASSUME PriosAssumption == Prios \subseteq 0..4
ASSUME TickAssumption == TickMod \in Nat /\ TickMod >= 2
ASSUME SleepAssumption == SleepTicks \subseteq Nat /\ JumpTicks \subseteq Nat

Slots == 0..(MaxTasks - 1)
AllPrios == 0..4
PrioIdle == 0
PrioNormal == 2
Ticks == 0..(TickMod - 1)
\* UINT32_MAX, "no sleeper": also the largest tick
NoWake == TickMod - 1

\* scheduler_init pushes slot 0 first, so the idle task takes the last slot
\* and main the one before it.
idle == MaxTasks - 1
main == MaxTasks - 2

VARIABLES
    state,      \* task_tcb_t.state of each slot
    priority,   \* task_tcb_t.priority
    wake_time,  \* task_tcb_t.wake_time
    stack,      \* the slots whose stack_base is allocated
    free_list, ready_list, blocked_list,
    current,
    tick_count, next_wake_tick,
    scheduler_started, tickless, power_mode,
    main_sleep  \* where main is inside task_sleep: [pc, until]

vars == <<state, priority, wake_time, stack, free_list, ready_list,
          blocked_list, current, tick_count, next_wake_tick,
          scheduler_started, tickless, power_mode, main_sleep>>
tcbs == <<priority, wake_time, stack>>
lists == <<free_list, ready_list, blocked_list>>
clock == <<tick_count, next_wake_tick>>
modes == <<scheduler_started, tickless, power_mode>>

States == {"READY", "RUNNING", "BLOCKED", "SUSPENDED", "TERMINATED"}
Modes == {"ACTIVE", "DEEP_SLEEP"}
-----------------------------------------------------------------------------
(* Lists.                                                                   *)

task_list_add(list, t) ==
    [x \in (DOMAIN list) \cup {t} |-> IF x = t THEN 0 ELSE list[x] + 1]

\* Mutant: the successors are not relinked.
task_list_remove_no_relink(list, t) == [x \in (DOMAIN list) \ {t} |-> list[x]]

task_list_remove(list, t) ==
    [x \in (DOMAIN list) \ {t} |->
        IF list[x] > list[t] THEN list[x] - 1 ELSE list[x]]

\* task_add_to_ready
task_add_to_ready(ready, p, t) == [ready EXCEPT ![p] = task_list_add(@, t)]

\* task_list_remove(&ready_list[priority], task)
task_remove_from_ready(ready, p, t) ==
    [ready EXCEPT ![p] = task_list_remove(@, t)]

\* task_get_highest_ready: the head of the first non-empty list from CRITICAL
\* down, without the idle task, which every caller skips.
task_get_highest_ready ==
    {t \in Slots :
        \E p \in AllPrios \ {PrioIdle} :
            /\ t \in DOMAIN ready_list[p]
            /\ ready_list[p][t] = 0
            /\ \A q \in AllPrios : q > p => DOMAIN ready_list[q] = {}}

\* The slots a client may pass to the API: the ones task_create has returned
\* and task_delete has not taken back.
Handles == (Slots \ DOMAIN free_list) \ {idle, main}

\* scheduler_init
Init ==
    /\ state = [t \in Slots |-> IF t = main THEN "RUNNING" ELSE "READY"]
    /\ priority = [t \in Slots |-> IF t = main THEN PrioNormal ELSE PrioIdle]
    /\ wake_time = [t \in Slots |-> 0]
    /\ stack = {idle}
    /\ free_list = [t \in Slots \ {idle, main} |-> main - 1 - t]
    /\ ready_list = [p \in AllPrios |->
                        [t \in IF p = PrioIdle THEN {idle} ELSE {} |-> 0]]
    /\ blocked_list = [t \in {} |-> 0]
    /\ current = main
    /\ tick_count = 0
    /\ next_wake_tick = NoWake
    /\ scheduler_started = FALSE
    /\ tickless = TRUE
    /\ power_mode = "ACTIVE"
    /\ main_sleep = [pc |-> "loop", until |-> 0]

\* Main is in its loop, not inside task_sleep: it may call anything.
MainFree == current = main /\ main_sleep.pc = "loop"
\* The caller of an API function is a task, or main in its loop.
CallerFree == current # main \/ MainFree
-----------------------------------------------------------------------------
(* Context switches.                                                        *)

\* scheduler_step's choice: context_switch to the highest ready task, or stay
\* in main when only the idle task is ready.
Dispatch ==
    \/ \E t \in task_get_highest_ready :
         /\ ready_list' = task_remove_from_ready(ready_list, priority[t], t)
         /\ current' = t
         /\ state' = [state EXCEPT ![t] = "RUNNING"]
    \/ /\ task_get_highest_ready = {}
       /\ UNCHANGED <<ready_list, current, state>>

scheduler_start ==
    /\ MainFree
    /\ ~scheduler_started
    /\ scheduler_started' = TRUE
    /\ Dispatch
    /\ UNCHANGED <<tcbs, free_list, blocked_list, clock, tickless, power_mode,
                   main_sleep>>

\* Also task_yield called by main.
scheduler_step ==
    /\ MainFree
    /\ scheduler_started
    /\ Dispatch
    /\ UNCHANGED <<tcbs, free_list, blocked_list, clock, modes, main_sleep>>

\* The running task c leaves the CPU in state s; `ready` are the ready lists
\* after c is queued (or not).  The next task was picked before that.
SwitchAway(c, s, ready) ==
    \/ \E t \in task_get_highest_ready :
         /\ ready_list' = task_remove_from_ready(ready, priority[t], t)
         /\ current' = t
         /\ state' = [state EXCEPT ![c] = s, ![t] = "RUNNING"]
    \/ /\ task_get_highest_ready = {}
       /\ ready_list' = ready
       /\ current' = main
       /\ state' = [state EXCEPT ![c] = s, ![main] = "RUNNING"]

task_yield ==
    /\ current # main
    /\ SwitchAway(current, "READY",
                  task_add_to_ready(ready_list, priority[current], current))
    /\ UNCHANGED <<tcbs, free_list, blocked_list, clock, modes, main_sleep>>

\* task_suspend(task_get_current()) by a task
task_suspend_self ==
    /\ current # main
    /\ SwitchAway(current, "SUSPENDED", ready_list)
    /\ UNCHANGED <<tcbs, free_list, blocked_list, clock, modes, main_sleep>>

task_sleep(n) ==
    /\ current # main
    /\ wake_time' = [wake_time EXCEPT ![current] = (tick_count + n) % TickMod]
    /\ blocked_list' = task_list_add(blocked_list, current)
    /\ state' = [state EXCEPT ![current] = "BLOCKED", ![main] = "RUNNING"]
    /\ current' = main
    /\ UNCHANGED <<priority, stack, free_list, ready_list, clock, modes,
                   main_sleep>>

\* The entry function returns: task_trampoline marks the slot, and only a later
\* task_delete puts it back on the free list.
task_exit ==
    /\ current # main
    /\ state' = [state EXCEPT ![current] = "TERMINATED", ![main] = "RUNNING"]
    /\ current' = main
    /\ UNCHANGED <<tcbs, lists, clock, modes, main_sleep>>
-----------------------------------------------------------------------------
(* Creation, deletion, suspension of other tasks.                           *)

\* `booted` is false when the stack cannot be allocated or the bootstrap on it
\* fails: the slot goes back to the head of the free list.
task_create(p, booted) ==
    /\ CallerFree
    /\ \E t \in DOMAIN free_list :
        /\ free_list[t] = 0
        /\ state' = [state EXCEPT ![t] = "READY"]
        /\ priority' = [priority EXCEPT ![t] = p]
        /\ wake_time' = [wake_time EXCEPT ![t] = 0]
        /\ IF booted
           THEN /\ stack' = stack \cup {t}
                /\ free_list' = task_list_remove(free_list, t)
                /\ ready_list' = task_add_to_ready(ready_list, p, t)
           ELSE /\ free_list' = task_list_add(task_list_remove(free_list, t), t)
                /\ UNCHANGED <<stack, ready_list>>
    /\ UNCHANGED <<blocked_list, current, clock, modes, main_sleep>>

\* task_delete and task_suspend take the task off the list its state names.
LeaveList(t) ==
    /\ ready_list' = IF state[t] = "READY"
                     THEN task_remove_from_ready(ready_list, priority[t], t)
                     ELSE ready_list
    /\ blocked_list' = IF state[t] = "BLOCKED"
                       THEN task_list_remove(blocked_list, t)
                       ELSE blocked_list

\* Mutant: the running task may be deleted.
task_delete_running(t) ==
    /\ CallerFree
    /\ LeaveList(t)
    /\ stack' = stack \ {t}
    /\ state' = [state EXCEPT ![t] = "TERMINATED"]
    /\ free_list' = task_list_add(free_list, t)
    /\ UNCHANGED <<priority, wake_time, current, clock, modes, main_sleep>>

task_delete(t) ==
    /\ CallerFree
    /\ t # current
    /\ state[t] # "RUNNING"
    /\ LeaveList(t)
    /\ stack' = stack \ {t}
    /\ state' = [state EXCEPT ![t] = "TERMINATED"]
    /\ free_list' = task_list_add(free_list, t)
    /\ UNCHANGED <<priority, wake_time, current, clock, modes, main_sleep>>

\* Mutant: a sleeping task stays on the blocked list.
task_suspend_sleeper_stays(t) ==
    /\ CallerFree
    /\ t # current
    /\ state[t] \in {"READY", "BLOCKED"}
    /\ ready_list' = IF state[t] = "READY"
                     THEN task_remove_from_ready(ready_list, priority[t], t)
                     ELSE ready_list
    /\ UNCHANGED blocked_list
    /\ state' = [state EXCEPT ![t] = "SUSPENDED"]
    /\ UNCHANGED <<priority, wake_time, stack, free_list, current, clock, modes,
                   main_sleep>>

task_suspend(t) ==
    /\ CallerFree
    /\ t # current
    /\ state[t] \in {"READY", "BLOCKED"}
    /\ LeaveList(t)
    /\ wake_time' = IF state[t] = "BLOCKED"
                    THEN [wake_time EXCEPT ![t] = 0] ELSE wake_time
    /\ state' = [state EXCEPT ![t] = "SUSPENDED"]
    /\ UNCHANGED <<priority, stack, free_list, current, clock, modes,
                   main_sleep>>

task_resume(t) ==
    /\ CallerFree
    /\ state[t] = "SUSPENDED"
    /\ state' = [state EXCEPT ![t] = "READY"]
    /\ ready_list' = task_add_to_ready(ready_list, priority[t], t)
    /\ UNCHANGED <<tcbs, free_list, blocked_list, current, clock, modes,
                   main_sleep>>
-----------------------------------------------------------------------------
(* Time.                                                                    *)

\* Mutant: a sleeper is woken one tick early.
Due_early(now) == {t \in DOMAIN blocked_list : now + 1 >= wake_time[t]}
\* Mutant: the wake tick has to be met exactly.
Due_exactly(now) == {t \in DOMAIN blocked_list : now = wake_time[t]}

\* The sleepers scheduler_tick wakes when the counter becomes `now`.
Due(now) == {t \in DOMAIN blocked_list : now >= wake_time[t]}

\* The walk of the blocked list from its head moves each due task to the head
\* of its ready list, so the last one met ends up first.
scheduler_tick ==
    LET now == (tick_count + 1) % TickMod
        due(p) == {t \in Due(now) : priority[t] = p}
    IN  /\ tick_count' = now
        /\ ready_list' = [p \in AllPrios |->
             [x \in (DOMAIN ready_list[p]) \cup due(p) |->
                IF x \in due(p)
                THEN Cardinality({y \in due(p) :
                                    blocked_list[y] > blocked_list[x]})
                ELSE ready_list[p][x] + Cardinality(due(p))]]
        /\ blocked_list' = [x \in (DOMAIN blocked_list) \ Due(now) |->
             blocked_list[x] - Cardinality({y \in Due(now) :
                                    blocked_list[y] < blocked_list[x]})]
        /\ state' = [t \in Slots |-> IF t \in Due(now) THEN "READY" ELSE state[t]]
        \* scheduler_update_next_wake_tick
        /\ \E w \in {wake_time[t] : t \in DOMAIN blocked_list'} \cup {NoWake} :
             /\ \A t \in DOMAIN blocked_list' : w <= wake_time[t]
             /\ next_wake_tick' = w
        /\ UNCHANGED <<tcbs, free_list, current, modes>>

MainTick == MainFree /\ scheduler_tick /\ UNCHANGED main_sleep

\* task_sleep called by main: tick and step until the deadline has passed.
MainSleep(n) ==
    /\ MainFree
    /\ main_sleep' = [pc |-> "test", until |-> (tick_count + n) % TickMod]
    /\ UNCHANGED <<state, tcbs, lists, current, clock, modes>>

\* Mutant: the loop does not advance the counter.
MainSleepTest_no_tick ==
    /\ current = main
    /\ main_sleep.pc = "test"
    /\ main_sleep' = [main_sleep EXCEPT
         !.pc = IF tick_count < main_sleep.until THEN "step" ELSE "loop"]
    /\ UNCHANGED <<state, tcbs, lists, current, clock, modes>>

MainSleepTest ==
    /\ current = main
    /\ main_sleep.pc = "test"
    /\ \/ /\ tick_count < main_sleep.until
          /\ scheduler_tick
          /\ main_sleep' = [main_sleep EXCEPT !.pc = "step"]
       \/ /\ tick_count >= main_sleep.until
          /\ main_sleep' = [pc |-> "loop", until |-> 0]
          /\ UNCHANGED <<state, tcbs, lists, current, clock, modes>>

MainSleepStep ==
    /\ current = main
    /\ main_sleep.pc = "step"
    /\ IF scheduler_started THEN Dispatch
       ELSE UNCHANGED <<ready_list, current, state>>
    /\ main_sleep' = [main_sleep EXCEPT !.pc = "test"]
    /\ UNCHANGED <<tcbs, free_list, blocked_list, clock, modes>>
-----------------------------------------------------------------------------
(* Tickless idle.  The calls that find nothing to do are stuttering steps.  *)

\* The clock jumps to the cached wake tick, which is as old as the last tick;
\* nobody is woken before the next one.
JumpToWake ==
    /\ tick_count' = next_wake_tick
    /\ power_mode' = "ACTIVE"
    /\ UNCHANGED <<state, lists, current>>

scheduler_enter_idle ==
    /\ MainFree
    /\ IF next_wake_tick \notin {NoWake, tick_count}
       THEN JumpToWake
       ELSE /\ power_mode' = "DEEP_SLEEP"
            /\ IF scheduler_started THEN Dispatch
               ELSE UNCHANGED <<ready_list, current, state>>
            /\ UNCHANGED <<free_list, blocked_list, tick_count>>
    /\ UNCHANGED <<tcbs, next_wake_tick, scheduler_started, tickless,
                   main_sleep>>

scheduler_tickless_idle ==
    /\ MainFree
    /\ tickless
    /\ next_wake_tick # tick_count
    /\ \/ /\ next_wake_tick = NoWake
          /\ power_mode' = "DEEP_SLEEP"
          /\ UNCHANGED <<state, lists, current, tick_count>>
       \/ /\ next_wake_tick # NoWake
          /\ JumpToWake
    /\ UNCHANGED <<tcbs, next_wake_tick, scheduler_started, tickless,
                   main_sleep>>

scheduler_enter_deep_sleep(n) ==
    /\ MainFree
    /\ tickless
    /\ power_mode' = "DEEP_SLEEP"
    /\ tick_count' = (tick_count + n) % TickMod
    /\ tickless' = FALSE
    /\ UNCHANGED <<state, tcbs, lists, current, next_wake_tick,
                   scheduler_started, main_sleep>>

scheduler_enable_tickless_idle(on) ==
    /\ CallerFree
    /\ tickless' = on
    /\ UNCHANGED <<state, tcbs, lists, current, clock, scheduler_started,
                   power_mode, main_sleep>>

scheduler_exit_idle ==
    /\ CallerFree
    /\ power_mode' = "ACTIVE"
    /\ UNCHANGED <<state, tcbs, lists, current, clock, scheduler_started,
                   tickless, main_sleep>>
-----------------------------------------------------------------------------
ClientCall ==
    \/ \E p \in Prios, booted \in BOOLEAN : task_create(p, booted)
    \/ \E t \in Handles : task_delete(t)
    \/ \E t \in Handles : task_suspend(t)
    \/ \E t \in Handles : task_resume(t)
    \/ \E on \in BOOLEAN : scheduler_enable_tickless_idle(on)
    \/ scheduler_exit_idle

TaskGivesUp ==
    \/ task_yield
    \/ task_suspend_self
    \/ \E n \in SleepTicks : task_sleep(n)
    \/ task_exit

MainCall ==
    \/ scheduler_start
    \/ scheduler_step
    \/ MainTick
    \/ \E n \in SleepTicks : MainSleep(n)
    \/ MainSleepTest
    \/ MainSleepStep
    \/ scheduler_enter_idle
    \/ scheduler_tickless_idle
    \/ \E n \in JumpTicks : scheduler_enter_deep_sleep(n)

Next == ClientCall \/ TaskGivesUp \/ MainCall

Spec == Init /\ [][Next]_vars

\* The main loop ticks and steps for ever: on every turn in the simulator
\* (sim/sim_main.c:339-372), on every turn in which a millisecond has passed in
\* the loop of the board (boards/nodemcu/src/kernel_boot.cpp:226-248).  And a
\* cooperative task gives the CPU up.
Fairness ==
    /\ SF_vars(MainTick)
    /\ SF_vars(MainSleepTest)
    /\ SF_vars(MainSleepStep)
    /\ SF_vars(scheduler_start \/ scheduler_step)
    /\ WF_vars(TaskGivesUp)

FairSpec == Spec /\ Fairness

\* The part of Next the shipped main loops use: tasks are created, yield and
\* sleep while the loop ticks and steps.
LoopNext ==
    \/ \E p \in Prios : task_create(p, TRUE)
    \/ scheduler_start
    \/ scheduler_step
    \/ MainTick
    \/ task_yield
    \/ \E n \in SleepTicks : task_sleep(n)

LoopSpec == Init /\ [][LoopNext]_vars /\ Fairness
-----------------------------------------------------------------------------
(* Properties.                                                              *)

IsList(list) == DOMAIN list \subseteq Slots /\ list \in [DOMAIN list -> Int]

\* Every variable has its C type.
TypeOK ==
    /\ state \in [Slots -> States]
    /\ priority \in [Slots -> AllPrios]
    /\ wake_time \in [Slots -> Ticks]
    /\ stack \subseteq Slots
    /\ IsList(free_list)
    /\ IsList(blocked_list)
    /\ ready_list = [p \in AllPrios |-> ready_list[p]]
    /\ \A p \in AllPrios : IsList(ready_list[p])
    /\ current \in Slots
    /\ tick_count \in Ticks
    /\ next_wake_tick \in Ticks
    /\ scheduler_started \in BOOLEAN
    /\ tickless \in BOOLEAN
    /\ power_mode \in Modes
    /\ main_sleep \in [pc : {"loop", "test", "step"}, until : Ticks]

\* The state field and the lists agree, so a list operation chosen by the state
\* field (task_delete, task_suspend) never unlinks a task from a list it is not
\* on: a task is ready or blocked exactly when it is on that list and on no
\* other, only main and the current task are RUNNING, and a slot has a stack
\* exactly when it is not on the free list, so no stack that task_delete freed
\* is ever scheduled.
ListsMatchStates ==
    /\ {main, idle, current} \cap DOMAIN free_list = {}
    /\ \A t \in Slots :
        /\ t \in DOMAIN blocked_list <=>
                t \notin DOMAIN free_list /\ state[t] = "BLOCKED"
        /\ \A p \in AllPrios :
             t \in DOMAIN ready_list[p] <=>
                /\ t \notin DOMAIN free_list
                /\ state[t] = "READY"
                /\ priority[t] = p
        /\ state[t] = "RUNNING" <=> t \in {main, current}
        /\ t # main => (t \in stack <=> t \notin DOMAIN free_list)

\* The comment in scheduler_step: "idle_task() never runs: this path is the idle
\* context."  No call or switch makes the idle task current, parks it or gives
\* it a priority at which it would be picked.
IdleNeverRuns ==
    /\ current # idle
    /\ state[idle] = "READY"
    /\ priority[idle] = PrioIdle

\* The links lead from the head through each member once.
IsChain(list) ==
    /\ \A t \in DOMAIN list : list[t] \in 0..(Cardinality(DOMAIN list) - 1)
    /\ \A t, u \in DOMAIN list : list[t] = list[u] => t = u

\* No list loses a node or joins two (task_list_add, task_list_remove, the walk of
\* scheduler_tick): every list, the free list included, is one chain.
ListsAreChains ==
    /\ IsChain(free_list)
    /\ IsChain(blocked_list)
    /\ \A p \in AllPrios : IsChain(ready_list[p])

\* A sleeping task wakes only when the counter has come to its wake_time, and a
\* parked (suspended) one only through task_resume: nothing scheduler_tick or a
\* context switch does moves it.
OnlyDueOrResumed ==
    [][\A t \in Handles :
        state'[t] # state[t] /\ t \notin DOMAIN free_list' =>
            /\ state[t] = "BLOCKED" =>
                  \/ state'[t] = "SUSPENDED"
                  \/ state'[t] = "READY" /\ tick_count' >= wake_time[t]
            /\ state[t] = "SUSPENDED" => state'[t] = "READY" /\ clock' = clock
            /\ state'[t] = "RUNNING" => state[t] = "READY"]_vars

\* While control keeps coming back to main, a sleeping task does not sleep
\* forever, across the wrap of the tick counter too.
SleeperWakes ==
    []<>(current = main) =>
        \A t \in Slots : state[t] = "BLOCKED" ~> state[t] # "BLOCKED"

\* While control keeps coming back to main, task_sleep called by main returns.
MainSleepReturns ==
    []<>(current = main) => (main_sleep.pc # "loop" ~> main_sleep.pc = "loop")

\* PLAN.md: "Cooperative round-robin + priority"; the comment in task_yield:
\* "(round-robin)".  While tasks give up the CPU and the main loop keeps ticking
\* and stepping, a ready task of the highest priority in use gets its turn.
RoundRobin ==
    []<>(current = main) =>
        \A t \in Slots \ {idle} :
            [](\A u \in Handles : priority[u] <= priority[t]) =>
                (t \in Handles /\ state[t] = "READY" ~>
                    t \notin Handles \/ state[t] # "READY")

\* docs/agent-guide.md: "so `task_sleep(1000)` is ~1 real second".  Where only
\* scheduler_tick moves the counter, a sleeper wakes at its own tick.
WakesAtItsTick ==
    [][\A t \in Handles :
        state[t] = "BLOCKED" /\ state'[t] = "READY" =>
            tick_count' = wake_time[t]]_vars

\* What a client sees of a slot.
Life == [t \in Slots \ {idle, main} |->
            IF t \in DOMAIN free_list THEN "FREE" ELSE state[t]]

AbstractTasks == INSTANCE Tasks WITH
    TaskSlots <- Slots \ {idle, main},
    NoTask <- main,
    st <- Life,
    cur <- current

\* Seen through Life, every call, tick and context switch of the scheduler is a
\* step of Tasks, the life of a task as app.c and os_time.c rely on it.
ImplementsTasks == AbstractTasks!TasksSpec
=============================================================================
