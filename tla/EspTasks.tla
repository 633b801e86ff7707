------------------------------ MODULE EspTasks ------------------------------
(***************************************************************************)
(* kernel/scheduler_esp32.c: the scheduler of the ESP32 build.  A task of  *)
(* ArdubotOS is a FreeRTOS task; the slot table only remembers its handle, *)
(* in host_fiber.  FreeRTOS preempts, and nothing here takes a lock, so    *)
(* the calls of two callers (the loop and the tasks themselves) interleave *)
(* between the reads and writes they are made of.                          *)
(*                                                                         *)
(* FreeRTOS is external: a handle is the address of a task's control       *)
(* block, and a handle whose task has gone may be given to a later task.   *)
(***************************************************************************)
EXTENDS Lists, FiniteSets

CONSTANTS EspSlots,     \* 0..MAX_TASKS-1
          FrtHandles,   \* addresses FreeRTOS allocates control blocks at
          Callers       \* threads that call the API

NoHandle == "null"
NoSlotLeft == -1

ASSUME EspAssumption == EspSlots \subseteq Nat /\ NoHandle \notin FrtHandles

VARIABLES
    slot,        \* g_scheduler.tasks: name in use, state, host_fiber
    frt,         \* external: what FreeRTOS knows of a handle
    frt_arg,     \* the slot the handle's trampoline was given
    esp_call,    \* where each caller is inside an API call
    esp_undef    \* history: FreeRTOS was given a handle it does not own, or two
                 \* creators filled one slot

espVars == <<slot, frt, frt_arg, esp_call, esp_undef>>

FreeTcb == [named |-> FALSE, state |-> "TERMINATED", host_fiber |-> NoHandle]
Out == [op |-> "out", slot |-> NoSlotLeft, handle |-> NoHandle]

Live(h) == frt[h] \in {"runs", "suspended", "delayed"}

\* scheduler_init
EspInit ==
    /\ slot = [i \in EspSlots |-> FreeTcb]
    /\ frt = [h \in FrtHandles |-> "gone"]
    /\ frt_arg = [h \in FrtHandles |-> NoSlotLeft]
    /\ esp_call = [c \in Callers |-> Out]
    /\ esp_undef = FALSE

(***************************************************************************)
(* task_create: take the first slot without a name, fill it, have FreeRTOS *)
(* make the task (which may run, and even return, at once), store the      *)
(* handle.                                                                 *)
(***************************************************************************)
find_free_slot ==
    LET free == {i \in EspSlots : ~slot[i].named}
    IN  IF free = {} THEN NoSlotLeft ELSE First(free)

task_create(c) ==
    /\ esp_call[c].op = "out" /\ ~esp_undef
    /\ find_free_slot # NoSlotLeft
    /\ esp_call' = [esp_call EXCEPT ![c] = [op |-> "fill", slot |-> find_free_slot,
                                            handle |-> NoHandle]]
    /\ UNCHANGED <<slot, frt, frt_arg, esp_undef>>

CreateFills(c) ==
    LET i == esp_call[c].slot IN
    /\ esp_call[c].op = "fill"
    /\ slot' = [slot EXCEPT ![i] = [named |-> TRUE, state |-> "READY", host_fiber |-> NoHandle]]
    /\ esp_undef' = (esp_undef \/ slot[i].named)
    /\ esp_call' = [esp_call EXCEPT ![c].op = "spawn"]
    /\ UNCHANGED <<frt, frt_arg>>

CreateSpawns(c, h) ==
    /\ esp_call[c].op = "spawn"
    /\ ~Live(h)
    /\ frt' = [frt EXCEPT ![h] = "runs"]
    /\ frt_arg' = [frt_arg EXCEPT ![h] = esp_call[c].slot]
    /\ esp_call' = [esp_call EXCEPT ![c].op = "store", ![c].handle = h]
    /\ UNCHANGED <<slot, esp_undef>>

\* xTaskCreate finds no memory: the slot is free again
CreateFails(c) ==
    /\ esp_call[c].op = "spawn"
    /\ slot' = [slot EXCEPT ![esp_call[c].slot].named = FALSE]
    /\ esp_call' = [esp_call EXCEPT ![c] = Out]
    /\ UNCHANGED <<frt, frt_arg, esp_undef>>

CreateStores(c) ==
    /\ esp_call[c].op = "store"
    /\ slot' = [slot EXCEPT ![esp_call[c].slot].host_fiber = esp_call[c].handle]
    /\ esp_call' = [esp_call EXCEPT ![c] = Out]
    /\ UNCHANGED <<frt, frt_arg, esp_undef>>

(***************************************************************************)
(* esp32_task_trampoline: the entry runs, the state is set, FreeRTOS takes *)
(* the task back.  The slot keeps its name and its handle.                 *)
(***************************************************************************)
TaskStarts(h) ==
    /\ frt[h] = "runs"
    /\ slot' = [slot EXCEPT ![frt_arg[h]].state = "RUNNING"]
    /\ UNCHANGED <<frt, frt_arg, esp_call, esp_undef>>

TaskReturns(h) ==
    /\ frt[h] = "runs"
    /\ slot' = [slot EXCEPT ![frt_arg[h]].state = "TERMINATED"]
    /\ frt' = [frt EXCEPT ![h] = "gone"]
    /\ UNCHANGED <<frt_arg, esp_call, esp_undef>>

\* An app whose entry returned stops itself (app_task_entry, app_stop): vTaskDelete
\* of the running task does not come back, so the slot is never cleared
DeletesItself(h) ==
    /\ frt[h] = "runs" /\ slot[frt_arg[h]].host_fiber = h
    /\ frt' = [frt EXCEPT ![h] = "gone"]
    /\ UNCHANGED <<slot, frt_arg, esp_call, esp_undef>>

\* task_sleep, and the end of the delay
task_sleep(h) ==
    /\ frt[h] \in {"runs", "delayed"}
    /\ frt' = [frt EXCEPT ![h] = IF @ = "runs" THEN "delayed" ELSE "runs"]
    /\ UNCHANGED <<slot, frt_arg, esp_call, esp_undef>>

(***************************************************************************)
(* The calls on a task, by slot.  Each is refused without a handle; after  *)
(* undefined behaviour the model makes no more calls.                      *)
(***************************************************************************)
Handled(c, i) == esp_call[c].op = "out" /\ ~esp_undef /\ slot[i].host_fiber # NoHandle

\* FreeRTOS may be given the handle of slot i: it is the task of that slot
Owned(i) == Live(slot[i].host_fiber) /\ frt_arg[slot[i].host_fiber] = i

\* mutant: the FreeRTOS task is left running
task_delete_kept(c, i) ==
    /\ Handled(c, i)
    /\ slot' = [slot EXCEPT ![i] = FreeTcb]
    /\ UNCHANGED <<frt, frt_arg, esp_call, esp_undef>>

task_delete(c, i) ==
    /\ Handled(c, i)
    /\ esp_undef' = (esp_undef \/ ~Owned(i))
    /\ frt' = [frt EXCEPT ![slot[i].host_fiber] = "gone"]
    /\ slot' = [slot EXCEPT ![i] = FreeTcb]
    /\ UNCHANGED <<frt_arg, esp_call>>

task_wake(c, i) ==
    /\ Handled(c, i)
    /\ esp_undef' = (esp_undef \/ ~Owned(i))
    /\ frt' = [frt EXCEPT ![slot[i].host_fiber] = IF @ = "delayed" THEN "runs" ELSE @]
    /\ UNCHANGED <<slot, frt_arg, esp_call>>

\* task_suspend and task_resume set the state first
SetsState(c, i, op, st) ==
    /\ Handled(c, i)
    /\ slot' = [slot EXCEPT ![i].state = st]
    /\ esp_call' = [esp_call EXCEPT ![c] = [op |-> op, slot |-> i, handle |-> NoHandle]]
    /\ UNCHANGED <<frt, frt_arg, esp_undef>>

task_suspend(c, i) == SetsState(c, i, "suspend", "SUSPENDED")
task_resume(c, i) == SetsState(c, i, "resume", "READY")

\* ... and tell FreeRTOS next; vTaskSuspend without a handle, when the task was
\* deleted in between, parks the caller itself
TellsFreeRtos(c) ==
    LET i == esp_call[c].slot
        h == slot[i].host_fiber
    IN
    /\ esp_call[c].op \in {"suspend", "resume"}
    /\ IF h = NoHandle
       THEN /\ esp_undef' = (esp_undef \/ esp_call[c].op = "resume")
            /\ esp_call' = [esp_call EXCEPT ![c] = [Out EXCEPT !.op =
                               IF esp_call[c].op = "suspend" THEN "parked" ELSE "out"]]
            /\ UNCHANGED frt
       ELSE /\ esp_undef' = (esp_undef \/ ~Owned(i))
            /\ frt' = [frt EXCEPT ![h] = IF esp_call[c].op = "suspend" THEN "suspended"
                                         ELSE IF @ = "suspended" THEN "runs" ELSE @]
            /\ esp_call' = [esp_call EXCEPT ![c] = Out]
    /\ UNCHANGED <<slot, frt_arg>>

EspNext ==
    \/ \E c \in Callers : \/ task_create(c) \/ CreateFills(c) \/ CreateFails(c)
                          \/ CreateStores(c) \/ TellsFreeRtos(c)
    \/ \E c \in Callers, h \in FrtHandles : CreateSpawns(c, h)
    \/ \E h \in FrtHandles : TaskStarts(h) \/ TaskReturns(h) \/ DeletesItself(h) \/ task_sleep(h)
    \/ \E c \in Callers, i \in EspSlots :
          task_delete(c, i) \/ task_wake(c, i) \/ task_suspend(c, i) \/ task_resume(c, i)

EspSpec == EspInit /\ [][EspNext]_espVars

(***************************************************************************)
(* Properties.                                                             *)
(***************************************************************************)
\* Every FreeRTOS task the backend made keeps a slot of its own, named and
\* holding its handle (or task_create is about to store it), whatever calls on
\* other tasks, returns and failed creations go on around it: no task runs that
\* task_delete can no longer reach, and no two share a slot
SlotsFollowTasks ==
    esp_undef \/
    \A h \in {g \in FrtHandles : Live(g)} :
        /\ slot[frt_arg[h]].named
        /\ \/ slot[frt_arg[h]].host_fiber = h
           \/ \E c \in Callers : esp_call[c].op = "store" /\ esp_call[c].handle = h
        /\ \A g \in FrtHandles \ {h} : Live(g) => frt_arg[g] # frt_arg[h]
=============================================================================
