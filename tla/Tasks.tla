------------------------------- MODULE Tasks -------------------------------
(***************************************************************************)
(* What kernel/scheduler.c promises the code that uses tasks (app.c, the    *)
(* apps, os_time.c): the life of a task slot, seen without lists,           *)
(* priorities, ticks and power modes.  Which ready task runs next, and when *)
(* a sleeper wakes, is left open.  Scheduler.tla implements this.           *)
(***************************************************************************)
CONSTANTS
    TaskSlots,  \* the slots task_create hands out
    NoTask      \* the main loop is running

ASSUME NoTaskAssumption == NoTask \notin TaskSlots

VARIABLES
    st,   \* the life of each slot
    cur   \* the running task, or NoTask

LifeStates ==
    {"FREE", "READY", "RUNNING", "BLOCKED", "SUSPENDED", "TERMINATED"}

TasksInit ==
    /\ st = [t \in TaskSlots |-> "FREE"]
    /\ cur = NoTask

Create(t) ==
    /\ st[t] = "FREE"
    /\ st' = [st EXCEPT ![t] = "READY"]
    /\ UNCHANGED cur

\* Every slot that is neither free nor the running task's can be deleted.
Delete(t) ==
    /\ t # cur
    /\ st[t] # "FREE"
    /\ st' = [st EXCEPT ![t] = "FREE"]
    /\ UNCHANGED cur

Suspend(t) ==
    /\ st[t] \in {"READY", "BLOCKED"}
    /\ st' = [st EXCEPT ![t] = "SUSPENDED"]
    /\ UNCHANGED cur

Resume(t) ==
    /\ st[t] = "SUSPENDED"
    /\ st' = [st EXCEPT ![t] = "READY"]
    /\ UNCHANGED cur

\* The main loop gives the CPU to a ready task.
Run(t) ==
    /\ cur = NoTask
    /\ st[t] = "READY"
    /\ st' = [st EXCEPT ![t] = "RUNNING"]
    /\ cur' = t

\* Some sleepers wake, only while the main loop has the CPU.
Wake(S) ==
    /\ cur = NoTask
    /\ \A t \in S : st[t] = "BLOCKED"
    /\ st' = [t \in TaskSlots |-> IF t \in S THEN "READY" ELSE st[t]]
    /\ UNCHANGED cur

\* The running task leaves the CPU in state s: the main loop runs, or, when the
\* task yielded or parked itself, another task that was ready.
GiveUp(s) ==
    /\ cur # NoTask
    /\ \/ /\ st' = [st EXCEPT ![cur] = s]
          /\ cur' = NoTask
       \/ \E t \in TaskSlots \ {cur} :
            /\ s \in {"READY", "SUSPENDED"}
            /\ st[t] = "READY"
            /\ st' = [st EXCEPT ![cur] = s, ![t] = "RUNNING"]
            /\ cur' = t

TasksNext ==
    \/ \E t \in TaskSlots :
         Create(t) \/ Delete(t) \/ Suspend(t) \/ Resume(t) \/ Run(t)
    \/ \E S \in SUBSET TaskSlots : Wake(S)
    \/ \E s \in {"READY", "SUSPENDED", "BLOCKED", "TERMINATED"} : GiveUp(s)

TasksSpec == TasksInit /\ [][TasksNext]_<<st, cur>>

\* Exactly one thread of control: the RUNNING slot is the current task's.
OneRunning ==
    /\ st \in [TaskSlots -> LifeStates]
    /\ cur \in TaskSlots \cup {NoTask}
    /\ \A t \in TaskSlots : st[t] = "RUNNING" <=> t = cur
=============================================================================
