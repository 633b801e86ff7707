---------------------------- MODULE KernelProofs ----------------------------
(***************************************************************************)
(* Proofs about kernel/scheduler.c, for any number of task slots and       *)
(* priorities and any width of the tick counter, in three parts. The lists *)
(* agree with the states of the tasks after every call, tick and switch,   *)
(* and the idle task never runs (IInv). Every step is a step of Tasks      *)
(* under the mapping Life, or leaves what Tasks sees alone; the same case  *)
(* analysis shows which steps may move a task. And every list stays one    *)
(* chain from its head through all its members (ListsAreChains, inductive  *)
(* together with IInv): the tick is the hard case, it takes any number of  *)
(* tasks out of the blocked list and pushes them on the ready lists in one *)
(* walk.                                                                   *)
(***************************************************************************)
EXTENDS Scheduler, FiniteSetTheorems, TLAPS

-----------------------------------------------------------------------------
(* The lists and the slots.                                                *)

IInv == TypeOK /\ ListsMatchStates /\ IdleNeverRuns

-----------------------------------------------------------------------------
(* Lists.                                                                   *)

\* task_list_add puts the task on the list and keeps the others.
LEMMA AddList ==
    ASSUME NEW list, IsList(list), NEW t \in Slots
    PROVE  /\ IsList(task_list_add(list, t))
           /\ DOMAIN task_list_add(list, t) = (DOMAIN list) \cup {t}
BY DEF IsList, task_list_add

\* task_list_remove takes the task off the list and keeps the others.
LEMMA RemoveList ==
    ASSUME NEW list, IsList(list), NEW t
    PROVE  /\ IsList(task_list_remove(list, t))
           /\ DOMAIN task_list_remove(list, t) = (DOMAIN list) \ {t}
BY DEF IsList, task_list_remove

\* A well-formed array of ready lists.
IsReady(r) == r = [p \in AllPrios |-> r[p]] /\ \A p \in AllPrios : IsList(r[p])

\* task_add_to_ready puts the task on the list of its priority and on no other.
LEMMA AddReady ==
    ASSUME NEW r, IsReady(r), NEW t \in Slots, NEW p \in AllPrios
    PROVE  LET s == task_add_to_ready(r, p, t)
           IN  /\ IsReady(s)
               /\ DOMAIN s[p] = (DOMAIN r[p]) \cup {t}
               /\ \A q \in AllPrios \ {p} : DOMAIN s[q] = DOMAIN r[q]
<1> DEFINE s == task_add_to_ready(r, p, t)
<1>1. /\ s[p] = task_list_add(r[p], t)
      /\ \A q \in AllPrios \ {p} : s[q] = r[q]
  BY Zenon DEF IsReady, task_add_to_ready, task_remove_from_ready
<1>2. s = [q \in AllPrios |-> s[q]]
  BY Zenon DEF IsReady, task_add_to_ready, task_remove_from_ready
<1> HIDE DEF s
<1>3. /\ \A q \in AllPrios : IsList(s[q])
      /\ DOMAIN s[p] = (DOMAIN r[p]) \cup {t}
  <2>1. /\ IsList(r[p])
        /\ \A q \in AllPrios : IsList(r[q])
    BY Zenon DEF IsReady
  <2>2. /\ IsList(task_list_add(r[p], t))
        /\ DOMAIN task_list_add(r[p], t) = (DOMAIN r[p]) \cup {t}
    BY <2>1, AddList, Zenon
  <2> QED
    BY <1>1, <2>1, <2>2, Zenon
<1>4. IsReady(s)
  BY <1>2, <1>3, Zenon DEF IsReady
<1> QED
  BY <1>1, <1>3, <1>4, Zenon DEF s

\* Taking a task off the ready list of its priority leaves the other lists alone.
LEMMA RemoveReady ==
    ASSUME NEW r, IsReady(r), NEW t, NEW p \in AllPrios
    PROVE  LET s == task_remove_from_ready(r, p, t)
           IN  /\ IsReady(s)
               /\ DOMAIN s[p] = (DOMAIN r[p]) \ {t}
               /\ \A q \in AllPrios \ {p} : DOMAIN s[q] = DOMAIN r[q]
<1> DEFINE s == task_remove_from_ready(r, p, t)
<1>1. /\ s[p] = task_list_remove(r[p], t)
      /\ \A q \in AllPrios \ {p} : s[q] = r[q]
  BY Zenon DEF IsReady, task_add_to_ready, task_remove_from_ready
<1>2. s = [q \in AllPrios |-> s[q]]
  BY Zenon DEF IsReady, task_add_to_ready, task_remove_from_ready
<1> HIDE DEF s
<1>3. /\ \A q \in AllPrios : IsList(s[q])
      /\ DOMAIN s[p] = (DOMAIN r[p]) \ {t}
  <2>1. /\ IsList(r[p])
        /\ \A q \in AllPrios : IsList(r[q])
    BY Zenon DEF IsReady
  <2>2. /\ IsList(task_list_remove(r[p], t))
        /\ DOMAIN task_list_remove(r[p], t) = (DOMAIN r[p]) \ {t}
    BY <2>1, RemoveList, Zenon
  <2> QED
    BY <1>1, <2>1, <2>2, Zenon
<1>4. IsReady(s)
  BY <1>2, <1>3, Zenon DEF IsReady
<1> QED
  BY <1>1, <1>3, <1>4, Zenon DEF s

\* The slots the constants name exist and differ.
LEMMA SlotFacts ==
    /\ main \in Slots /\ idle \in Slots /\ main # idle
    /\ PrioIdle \in AllPrios /\ PrioNormal \in AllPrios /\ PrioIdle # PrioNormal
    /\ Prios \subseteq AllPrios
    /\ NoWake \in Ticks /\ 0 \in Ticks
    /\ IsFiniteSet(Slots)
<1>1. IsFiniteSet(Slots)
  BY MaxTasksAssumption, FS_Interval DEF Slots
<1> QED
  BY <1>1, MaxTasksAssumption, PriosAssumption, TickAssumption
     DEF main, idle, Slots, PrioIdle, PrioNormal, AllPrios, NoWake, Ticks

\* The tick counter stays in its range under addition modulo its width.
LEMMA TickArith ==
    ASSUME NEW a \in Ticks, NEW n \in Nat
    PROVE  (a + n) % TickMod \in Ticks
BY TickAssumption DEF Ticks

\* The task task_get_highest_ready picks is ready, has a stack, and is neither
\* main, nor idle, nor the caller.
LEMMA PickedReady ==
    ASSUME IInv, NEW t \in task_get_highest_ready
    PROVE  /\ t \in Slots /\ t \notin {main, idle, current}
           /\ t \notin DOMAIN free_list
           /\ state[t] = "READY"
           /\ priority[t] \in AllPrios
           /\ t \in DOMAIN ready_list[priority[t]]
<1>1. PICK p \in AllPrios \ {PrioIdle} : t \in DOMAIN ready_list[p]
  BY Zenon DEF task_get_highest_ready
<1>2. t \in Slots
  BY Zenon DEF task_get_highest_ready
<1> QED
  BY <1>1, <1>2 DEF IInv, TypeOK, ListsMatchStates, IdleNeverRuns
-----------------------------------------------------------------------------
\* scheduler_init establishes the invariant.
THEOREM InitIInv == Init => IInv
<1> SUFFICES ASSUME Init PROVE IInv
  BY Zenon
<1> USE SlotFacts
<1>1. /\ IsList(free_list) /\ DOMAIN free_list = Slots \ {idle, main}
      /\ IsList(blocked_list) /\ DOMAIN blocked_list = {}
  BY SMTT(30) DEF Init, IsList, Slots, main, idle
<1>2. /\ ready_list = [p \in AllPrios |-> ready_list[p]]
      /\ \A p \in AllPrios :
           /\ IsList(ready_list[p])
           /\ DOMAIN ready_list[p] = IF p = PrioIdle THEN {idle} ELSE {}
  BY DEF Init, IsList
<1>3. TypeOK
  BY <1>1, <1>2, Zenon DEF Init, TypeOK, States, Modes
<1>4. ListsMatchStates /\ IdleNeverRuns
  BY <1>1, <1>2, Zenon DEF Init, ListsMatchStates, IdleNeverRuns
<1> QED
  BY <1>3, <1>4, Zenon DEF IInv
-----------------------------------------------------------------------------
(* One lemma per action: it keeps the invariant.                            *)

\* scheduler_step's switch takes the picked task off its ready list.
LEMMA DispatchStep ==
    ASSUME IInv, Dispatch, current = main,
           UNCHANGED <<priority, stack, free_list, blocked_list>>
    PROVE  /\ state' \in [Slots -> States] /\ current' \in Slots
           /\ IsReady(ready_list')
           /\ ListsMatchStates' /\ IdleNeverRuns'
<1> USE SlotFacts
<1>0. IsReady(ready_list)
  BY Zenon DEF IInv, TypeOK, IsReady
<1>1. CASE UNCHANGED <<ready_list, current, state>>
  BY <1>0, <1>1, Zenon DEF IInv, TypeOK, ListsMatchStates, IdleNeverRuns
<1>2. ASSUME NEW t \in task_get_highest_ready,
             ready_list' = task_remove_from_ready(ready_list, priority[t], t),
             current' = t,
             state' = [state EXCEPT ![t] = "RUNNING"]
      PROVE  /\ state' \in [Slots -> States] /\ current' \in Slots
             /\ IsReady(ready_list')
             /\ ListsMatchStates' /\ IdleNeverRuns'
  <2>1. /\ IsReady(ready_list')
        /\ DOMAIN ready_list'[priority[t]] =
             (DOMAIN ready_list[priority[t]]) \ {t}
        /\ \A q \in AllPrios \ {priority[t]} :
             DOMAIN ready_list'[q] = DOMAIN ready_list[q]
    BY <1>0, <1>2, PickedReady, RemoveReady, SMTT(30)
  <2>2. state' \in [Slots -> States] /\ current' \in Slots
    BY <1>2, PickedReady, Zenon DEF IInv, TypeOK, States
  <2>3. ListsMatchStates'
    BY <1>2, <2>1, PickedReady DEF IInv, TypeOK, ListsMatchStates
  <2>4. IdleNeverRuns'
    BY <1>2, PickedReady, Zenon DEF IInv, TypeOK, IdleNeverRuns
  <2> QED
    BY <2>1, <2>2, <2>3, <2>4, Zenon
<1> QED
  BY <1>1, <1>2, Zenon DEF Dispatch

\* A yield or a self-suspension: the caller c leaves in state s (queued when it
\* stays READY), the task picked before it was queued runs, or main.
LEMMA SwitchAwayStep ==
    ASSUME IInv, NEW s \in {"READY", "SUSPENDED"}, NEW ready, current # main,
           SwitchAway(current, s, ready),
           \/ s = "READY" /\ ready = task_add_to_ready(ready_list, priority[current], current)
           \/ s = "SUSPENDED" /\ ready = ready_list,
           UNCHANGED <<priority, stack, free_list, blocked_list>>
    PROVE  /\ state' \in [Slots -> States] /\ current' \in Slots
           /\ IsReady(ready_list')
           /\ ListsMatchStates' /\ IdleNeverRuns'
<1> USE SlotFacts
<1>0. /\ IsReady(ready_list)
      /\ current \in Slots /\ priority[current] \in AllPrios
  BY Zenon DEF IInv, TypeOK, IsReady
<1>1. /\ IsReady(ready)
      /\ \A q \in AllPrios, x \in Slots : x \in DOMAIN ready[q] <=>
           \/ x \in DOMAIN ready_list[q]
           \/ s = "READY" /\ q = priority[current] /\ x = current
  <2>1. CASE s = "READY"
    <3>1. ready = task_add_to_ready(ready_list, priority[current], current)
      BY <2>1, Zenon
    <3>2. /\ IsReady(ready)
          /\ DOMAIN ready[priority[current]] =
               (DOMAIN ready_list[priority[current]]) \cup {current}
          /\ \A q \in AllPrios \ {priority[current]} :
               DOMAIN ready[q] = DOMAIN ready_list[q]
      <4> DEFINE r == task_add_to_ready(ready_list, priority[current], current)
      <4>1. /\ IsReady(r)
            /\ DOMAIN r[priority[current]] =
                 (DOMAIN ready_list[priority[current]]) \cup {current}
            /\ \A q \in AllPrios \ {priority[current]} :
                 DOMAIN r[q] = DOMAIN ready_list[q]
        BY ONLY <1>0, AddReady
      <4> QED
        BY <3>1, <4>1, Zenon
    <3> QED
      BY <2>1, <3>2, Zenon
  <2>2. CASE s = "SUSPENDED"
    BY <1>0, <2>2, Zenon
  <2> QED
    BY <2>1, <2>2, Zenon
<1>2. CASE /\ ready_list' = ready
           /\ current' = main
           /\ state' = [state EXCEPT ![current] = s, ![main] = "RUNNING"]
  <2>1. state' \in [Slots -> States] /\ current' \in Slots
    BY <1>2, Zenon DEF IInv, TypeOK, States
  <2>2. ListsMatchStates'
    BY <1>0, <1>1, <1>2 DEF IInv, TypeOK, ListsMatchStates
  <2>3. IdleNeverRuns'
    BY <1>2, Zenon DEF IInv, TypeOK, IdleNeverRuns
  <2> QED
    BY <1>1, <1>2, <2>1, <2>2, <2>3, Zenon
<1>3. ASSUME NEW t \in task_get_highest_ready,
             ready_list' = task_remove_from_ready(ready, priority[t], t),
             current' = t,
             state' = [state EXCEPT ![current] = s, ![t] = "RUNNING"]
      PROVE  /\ state' \in [Slots -> States] /\ current' \in Slots
             /\ IsReady(ready_list')
             /\ ListsMatchStates' /\ IdleNeverRuns'
  <2>1. /\ t \in Slots /\ t \notin {main, idle, current}
        /\ t \notin DOMAIN free_list
        /\ state[t] = "READY" /\ priority[t] \in AllPrios
    BY PickedReady, Zenon
  <2>2. /\ IsReady(ready_list')
        /\ \A q \in AllPrios, x \in Slots : x \in DOMAIN ready_list'[q] <=>
             x \in DOMAIN ready[q] /\ ~(q = priority[t] /\ x = t)
    <3>1. /\ IsReady(ready_list')
          /\ DOMAIN ready_list'[priority[t]] = (DOMAIN ready[priority[t]]) \ {t}
          /\ \A q \in AllPrios \ {priority[t]} :
               DOMAIN ready_list'[q] = DOMAIN ready[q]
      BY <1>1, <1>3, <2>1, RemoveReady
    <3> QED
      BY <3>1, Zenon
  <2>3. state' \in [Slots -> States] /\ current' \in Slots
    BY <1>3, <2>1, Zenon DEF IInv, TypeOK, States
  <2>4. ListsMatchStates'
    BY <1>0, <1>1, <1>3, <2>1, <2>2, SMTT(30) DEF IInv, TypeOK, ListsMatchStates
  <2>5. IdleNeverRuns'
    BY <1>3, <2>1, Zenon DEF IInv, TypeOK, IdleNeverRuns
  <2> QED
    BY <2>2, <2>3, <2>4, <2>5, Zenon
<1> QED
  BY <1>2, <1>3, Zenon DEF SwitchAway

\* What is left of TypeOK when a step leaves clocks, modes and main's loop alone.
LEMMA TypeFromParts ==
    ASSUME IInv,
           state' \in [Slots -> States], current' \in Slots, IsReady(ready_list'),
           priority' \in [Slots -> AllPrios], wake_time' \in [Slots -> Ticks],
           stack' \subseteq Slots, IsList(free_list'), IsList(blocked_list'),
           UNCHANGED <<clock, modes, main_sleep>>
    PROVE  TypeOK'
BY Zenon DEF IInv, TypeOK, IsReady, clock, modes

\* task_yield and task_suspend of the caller keep the invariant.
LEMMA YieldStep ==
    ASSUME IInv, task_yield \/ task_suspend_self
    PROVE  IInv'
<1>1. /\ state' \in [Slots -> States] /\ current' \in Slots
      /\ IsReady(ready_list')
      /\ ListsMatchStates' /\ IdleNeverRuns'
  <2>1. CASE task_yield
    BY <2>1, SwitchAwayStep, Zenon DEF task_yield, tcbs
  <2>2. CASE task_suspend_self
    BY <2>2, SwitchAwayStep, Zenon DEF task_suspend_self, tcbs
  <2> QED
    BY <2>1, <2>2, Zenon
<1>2. TypeOK'
  BY <1>1, TypeFromParts, Zenon DEF IInv, TypeOK, task_yield, task_suspend_self, tcbs
<1> QED
  BY <1>1, <1>2, Zenon DEF IInv

\* task_sleep of a task keeps the invariant.
LEMMA SleepStep ==
    ASSUME IInv, NEW n \in SleepTicks, task_sleep(n)
    PROVE  IInv'
<1> USE SlotFacts
<1>1. /\ IsReady(ready_list') /\ current \in Slots /\ current # main
      /\ tick_count \in Ticks /\ IsList(blocked_list) /\ IsList(free_list')
  BY Zenon DEF IInv, TypeOK, IsReady, task_sleep
<1>2. /\ IsList(blocked_list')
      /\ DOMAIN blocked_list' = (DOMAIN blocked_list) \cup {current}
  BY <1>1, AddList, Zenon DEF task_sleep
<1>3. wake_time' \in [Slots -> Ticks]
  BY <1>1, TickArith, SleepAssumption, Zenon DEF IInv, TypeOK, task_sleep
<1>4. state' \in [Slots -> States] /\ current' \in Slots
  BY Zenon DEF IInv, TypeOK, States, task_sleep
<1>5. TypeOK'
  BY <1>1, <1>2, <1>3, <1>4, TypeFromParts, Zenon DEF IInv, TypeOK, task_sleep
<1>6. ListsMatchStates'
  BY <1>1, <1>2, ZenonT(40) DEF IInv, TypeOK, ListsMatchStates, task_sleep
<1>7. IdleNeverRuns'
  BY <1>1, Zenon DEF IInv, TypeOK, IdleNeverRuns, task_sleep
<1> QED
  BY <1>5, <1>6, <1>7, Zenon DEF IInv

\* The return of a task's entry function keeps the invariant.
LEMMA ExitStep ==
    ASSUME IInv, task_exit
    PROVE  IInv'
<1> USE SlotFacts
<1>1. TypeOK'
  BY TypeFromParts, Zenon DEF IInv, TypeOK, States, task_exit, IsReady, tcbs, lists
<1>2. ListsMatchStates'
  BY DEF IInv, TypeOK, ListsMatchStates, task_exit, tcbs, lists
<1>3. IdleNeverRuns'
  BY Zenon DEF IInv, TypeOK, IdleNeverRuns, task_exit, tcbs
<1> QED
  BY <1>1, <1>2, <1>3, Zenon DEF IInv

\* task_create keeps the invariant, also when it has to give the slot back.
LEMMA CreateStep ==
    ASSUME IInv, NEW p \in Prios, NEW booted \in BOOLEAN, task_create(p, booted)
    PROVE  IInv'
<1> USE SlotFacts
<1>1. PICK t \in DOMAIN free_list :
        /\ state' = [state EXCEPT ![t] = "READY"]
        /\ priority' = [priority EXCEPT ![t] = p]
        /\ wake_time' = [wake_time EXCEPT ![t] = 0]
        /\ IF booted
           THEN /\ stack' = stack \cup {t}
                /\ free_list' = task_list_remove(free_list, t)
                /\ ready_list' = task_add_to_ready(ready_list, p, t)
           ELSE /\ free_list' = task_list_add(task_list_remove(free_list, t), t)
                /\ UNCHANGED <<stack, ready_list>>
  BY Zenon DEF task_create
<1>2. /\ t \in Slots /\ t \notin {main, idle, current} /\ p \in AllPrios
      /\ IsReady(ready_list) /\ IsList(free_list)
      /\ UNCHANGED <<blocked_list, current, clock, modes, main_sleep>>
  BY <1>1, Zenon DEF IInv, TypeOK, ListsMatchStates, IsReady, IsList, task_create
<1>3. /\ IsList(free_list')
      /\ DOMAIN free_list' = IF booted THEN (DOMAIN free_list) \ {t}
                             ELSE DOMAIN free_list
  <2>1. /\ IsList(task_list_remove(free_list, t))
        /\ DOMAIN task_list_remove(free_list, t) = (DOMAIN free_list) \ {t}
    BY <1>2, RemoveList, Zenon
  <2>2. /\ IsList(task_list_add(task_list_remove(free_list, t), t))
        /\ DOMAIN task_list_add(task_list_remove(free_list, t), t)
             = ((DOMAIN free_list) \ {t}) \cup {t}
    BY <1>2, <2>1, AddList, Zenon
  <2> QED
    BY <1>1, <2>1, <2>2, Zenon
<1>4. /\ IsReady(ready_list')
      /\ \A q \in AllPrios, x \in Slots : x \in DOMAIN ready_list'[q] <=>
           x \in DOMAIN ready_list[q] \/ (booted /\ q = p /\ x = t)
  <2>1. CASE booted
    <3>1. /\ IsReady(ready_list')
          /\ DOMAIN ready_list'[p] = (DOMAIN ready_list[p]) \cup {t}
          /\ \A q \in AllPrios \ {p} : DOMAIN ready_list'[q] = DOMAIN ready_list[q]
      <4> DEFINE r == task_add_to_ready(ready_list, p, t)
      <4>1. /\ IsReady(r)
            /\ DOMAIN r[p] = (DOMAIN ready_list[p]) \cup {t}
            /\ \A q \in AllPrios \ {p} : DOMAIN r[q] = DOMAIN ready_list[q]
        BY ONLY <1>2, AddReady
      <4> QED
        BY <1>1, <2>1, <4>1, Zenon
    <3> QED
      BY <2>1, <3>1, Zenon
  <2>2. CASE ~booted
    BY <1>1, <1>2, <2>2, Zenon
  <2> QED
    BY <2>1, <2>2, Zenon
<1>5. TypeOK'
  <2>1. /\ state' \in [Slots -> States] /\ priority' \in [Slots -> AllPrios]
        /\ wake_time' \in [Slots -> Ticks] /\ stack' \subseteq Slots
        /\ current' \in Slots /\ IsList(blocked_list')
    BY <1>1, <1>2, Zenon DEF IInv, TypeOK, States
  <2> QED
    BY <1>2, <1>3, <1>4, <2>1, TypeFromParts, Zenon
<1>6. ListsMatchStates'
  BY <1>1, <1>2, <1>3, <1>4, SMTT(30) DEF IInv, TypeOK, ListsMatchStates
<1>7. IdleNeverRuns'
  BY <1>1, <1>2, Zenon DEF IInv, TypeOK, IdleNeverRuns
<1> QED
  BY <1>5, <1>6, <1>7, Zenon DEF IInv

\* task_delete and task_suspend take a ready task off its ready list, a sleeping
\* one off the blocked list, and leave the lists of any other task alone.
LEMMA LeaveListFacts ==
    ASSUME IInv, NEW t \in Slots, LeaveList(t)
    PROVE  /\ IsReady(ready_list')
           /\ \A q \in AllPrios, x \in Slots : x \in DOMAIN ready_list'[q] <=>
                /\ x \in DOMAIN ready_list[q]
                /\ ~(state[t] = "READY" /\ q = priority[t] /\ x = t)
           /\ IsList(blocked_list')
           /\ \A x \in Slots : x \in DOMAIN blocked_list' <=>
                x \in DOMAIN blocked_list /\ ~(state[t] = "BLOCKED" /\ x = t)
<1>1. IsReady(ready_list) /\ priority[t] \in AllPrios /\ IsList(blocked_list)
  BY Zenon DEF IInv, TypeOK, IsReady
<1> DEFINE r == task_remove_from_ready(ready_list, priority[t], t)
           b == task_list_remove(blocked_list, t)
<1>2. /\ IsReady(r)
      /\ DOMAIN r[priority[t]] = (DOMAIN ready_list[priority[t]]) \ {t}
      /\ \A q \in AllPrios \ {priority[t]} : DOMAIN r[q] = DOMAIN ready_list[q]
  BY ONLY <1>1, RemoveReady
<1>3. IsList(b) /\ DOMAIN b = (DOMAIN blocked_list) \ {t}
  BY <1>1, RemoveList, Zenon
<1>4. /\ ready_list' = IF state[t] = "READY" THEN r ELSE ready_list
      /\ blocked_list' = IF state[t] = "BLOCKED" THEN b ELSE blocked_list
  BY Zenon DEF LeaveList
<1> HIDE DEF r, b
<1>5. /\ IsReady(ready_list')
      /\ \A q \in AllPrios, x \in Slots : x \in DOMAIN ready_list'[q] <=>
           /\ x \in DOMAIN ready_list[q]
           /\ ~(state[t] = "READY" /\ q = priority[t] /\ x = t)
  BY <1>1, <1>2, <1>4, Zenon
<1>6. /\ IsList(blocked_list')
      /\ \A x \in Slots : x \in DOMAIN blocked_list' <=>
           x \in DOMAIN blocked_list /\ ~(state[t] = "BLOCKED" /\ x = t)
  BY <1>1, <1>3, <1>4, Zenon
<1> QED
  BY <1>5, <1>6, Zenon

\* task_delete keeps the invariant.
LEMMA DeleteStep ==
    ASSUME IInv, NEW t \in Handles, task_delete(t)
    PROVE  IInv'
<1> USE SlotFacts
<1>1. /\ t \in Slots /\ t \notin {main, idle, current}
      /\ t \notin DOMAIN free_list /\ IsList(free_list)
  BY Zenon DEF Handles, task_delete, IInv, TypeOK
<1>2. IsList(free_list') /\ DOMAIN free_list' = (DOMAIN free_list) \cup {t}
  BY <1>1, AddList, Zenon DEF task_delete
<1>3. LeaveList(t)
  BY Zenon DEF task_delete
<1>4. TypeOK'
  BY <1>1, <1>2, <1>3, LeaveListFacts, TypeFromParts, Zenon
     DEF IInv, TypeOK, States, task_delete
<1>5. ListsMatchStates'
  BY <1>1, <1>2, <1>3, LeaveListFacts, SMTT(30)
     DEF IInv, TypeOK, ListsMatchStates, task_delete, IsList
<1>6. IdleNeverRuns'
  BY <1>1, Zenon DEF IInv, TypeOK, IdleNeverRuns, task_delete
<1> QED
  BY <1>4, <1>5, <1>6, Zenon DEF IInv

\* task_suspend of another task keeps the invariant.
LEMMA SuspendStep ==
    ASSUME IInv, NEW t \in Handles, task_suspend(t)
    PROVE  IInv'
<1> USE SlotFacts
<1>1. /\ t \in Slots /\ t \notin {main, idle, current}
      /\ t \notin DOMAIN free_list
  BY Zenon DEF Handles, task_suspend, IInv, TypeOK
<1>2. LeaveList(t)
  BY Zenon DEF task_suspend
<1>3. TypeOK'
  <2>1. wake_time' \in [Slots -> Ticks]
    BY <1>1, Zenon DEF IInv, TypeOK, task_suspend
  <2> QED
    BY <1>1, <1>2, <2>1, LeaveListFacts, TypeFromParts, Zenon
       DEF IInv, TypeOK, States, task_suspend
<1>4. ListsMatchStates'
  BY <1>1, <1>2, LeaveListFacts
     DEF IInv, TypeOK, ListsMatchStates, task_suspend, IsList
<1>5. IdleNeverRuns'
  BY <1>1, Zenon DEF IInv, TypeOK, IdleNeverRuns, task_suspend
<1> QED
  BY <1>3, <1>4, <1>5, Zenon DEF IInv

\* task_resume keeps the invariant.
LEMMA ResumeStep ==
    ASSUME IInv, NEW t \in Handles, task_resume(t)
    PROVE  IInv'
<1> USE SlotFacts
<1>1. /\ t \in Slots /\ t \notin {main, idle, current}
      /\ t \notin DOMAIN free_list
      /\ IsReady(ready_list) /\ priority[t] \in AllPrios
  BY Zenon DEF Handles, task_resume, IInv, TypeOK, ListsMatchStates, IsReady
<1> DEFINE r == task_add_to_ready(ready_list, priority[t], t)
<1>2. /\ IsReady(r)
      /\ DOMAIN r[priority[t]] = (DOMAIN ready_list[priority[t]]) \cup {t}
      /\ \A q \in AllPrios \ {priority[t]} : DOMAIN r[q] = DOMAIN ready_list[q]
  BY ONLY <1>1, AddReady
<1>3. ready_list' = r
  BY Zenon DEF task_resume
<1> HIDE DEF r
<1>4. TypeOK'
  BY <1>1, <1>2, <1>3, TypeFromParts, Zenon DEF IInv, TypeOK, States, task_resume, tcbs
<1>5. ListsMatchStates'
  <2>1. \A q \in AllPrios, x \in Slots : x \in DOMAIN ready_list'[q] <=>
          x \in DOMAIN ready_list[q] \/ (q = priority[t] /\ x = t)
    BY <1>1, <1>2, <1>3, Zenon
  <2> QED
    BY <1>1, <2>1, SMTT(30) DEF IInv, TypeOK, ListsMatchStates, task_resume, tcbs
<1>6. IdleNeverRuns'
  BY <1>1, Zenon DEF IInv, TypeOK, IdleNeverRuns, task_resume, tcbs
<1> QED
  BY <1>4, <1>5, <1>6, Zenon DEF IInv
-----------------------------------------------------------------------------
(* Time.                                                                    *)

\* scheduler_tick moves the due sleepers, and only them, from the blocked list to
\* their ready lists.
LEMMA TickStep ==
    ASSUME IInv, scheduler_tick,
           main_sleep' \in [pc : {"loop", "test", "step"}, until : Ticks]
    PROVE  IInv'
<1> USE SlotFacts
<1> DEFINE now == (tick_count + 1) % TickMod
           due(p) == {t \in Due(now) : priority[t] = p}
<1>1. /\ Due(now) \subseteq DOMAIN blocked_list
      /\ DOMAIN blocked_list \subseteq Slots
      /\ \A p \in AllPrios : DOMAIN ready_list[p] \subseteq Slots
  BY Zenon DEF Due, IInv, TypeOK, IsList
<1>2. \A S : S \subseteq Slots => Cardinality(S) \in Nat
  BY FS_Subset, FS_CardinalityType, Zenon
<1>3. /\ IsList(blocked_list')
      /\ DOMAIN blocked_list' = (DOMAIN blocked_list) \ Due(now)
  <2>1. blocked_list' = [x \in (DOMAIN blocked_list) \ Due(now) |->
             blocked_list[x] - Cardinality({y \in Due(now) :
                                    blocked_list[y] < blocked_list[x]})]
    BY Zenon DEF scheduler_tick
  <2>2. \A x \in DOMAIN blocked_list :
          /\ blocked_list[x] \in Int
          /\ Cardinality({y \in Due(now) : blocked_list[y] < blocked_list[x]}) \in Nat
    BY <1>1, <1>2, Zenon DEF IInv, TypeOK, IsList
  <2> HIDE DEF now
  <2> QED
    BY <1>1, <2>1, <2>2 DEF IsList
<1>4. /\ IsReady(ready_list')
      /\ \A p \in AllPrios : DOMAIN ready_list'[p] =
           (DOMAIN ready_list[p]) \cup due(p)
  <2>1. ready_list' = [p \in AllPrios |->
             [x \in (DOMAIN ready_list[p]) \cup due(p) |->
                IF x \in due(p)
                THEN Cardinality({y \in due(p) :
                                    blocked_list[y] > blocked_list[x]})
                ELSE ready_list[p][x] + Cardinality(due(p))]]
    BY Zenon DEF scheduler_tick
  <2>2. ASSUME NEW p \in AllPrios
        PROVE  /\ IsList(ready_list'[p])
               /\ DOMAIN ready_list'[p] = (DOMAIN ready_list[p]) \cup due(p)
    <3>1. ready_list'[p] = [x \in (DOMAIN ready_list[p]) \cup due(p) |->
                IF x \in due(p)
                THEN Cardinality({y \in due(p) :
                                    blocked_list[y] > blocked_list[x]})
                ELSE ready_list[p][x] + Cardinality(due(p))]
      BY <2>1, Zenon
    <3>2. due(p) \subseteq Slots /\ Cardinality(due(p)) \in Nat
      BY <1>1, <1>2, Zenon
    <3>3. \A x : Cardinality({y \in due(p) :
                                blocked_list[y] > blocked_list[x]}) \in Nat
      BY <3>2, <1>2, Zenon
    <3>4. \A x \in DOMAIN ready_list[p] : ready_list[p][x] \in Int
      BY Zenon DEF IInv, TypeOK, IsList
    <3> HIDE DEF due, now
    <3> QED
      BY <1>1, <3>1, <3>2, <3>3, <3>4, SMTT(30) DEF IsList
  <2>3. ready_list' = [p \in AllPrios |-> ready_list'[p]]
    BY <2>1, Zenon
  <2> QED
    BY <2>2, <2>3, Zenon DEF IsReady
<1>5. TypeOK'
  <2>1. now \in Ticks /\ tick_count' = now
    BY TickArith, Zenon DEF scheduler_tick, IInv, TypeOK
  <2>2. next_wake_tick' \in Ticks
    <3>1. PICK w \in {wake_time[t] : t \in DOMAIN blocked_list'} \cup {NoWake} :
             next_wake_tick' = w
      BY Zenon DEF scheduler_tick
    <3> QED
      BY <1>1, <1>3, <3>1, SMTT(30) DEF IInv, TypeOK
  <2>3. state' \in [Slots -> States]
    BY Zenon DEF scheduler_tick, IInv, TypeOK, States
  <2> QED
    BY <1>3, <1>4, <2>1, <2>2, <2>3, Zenon
       DEF IInv, TypeOK, IsReady, scheduler_tick, tcbs, modes
<1>6. ListsMatchStates' /\ IdleNeverRuns'
  <2>1. /\ state' = [t \in Slots |-> IF t \in Due(now) THEN "READY" ELSE state[t]]
        /\ UNCHANGED <<priority, stack, free_list, current>>
    BY Zenon DEF scheduler_tick, tcbs
  <2>2. \A p \in AllPrios, x \in Slots : x \in DOMAIN ready_list'[p] <=>
           x \in DOMAIN ready_list[p] \/ (x \in Due(now) /\ priority[x] = p)
    BY <1>4, SMTT(30)
  <2> HIDE DEF now, due
  <2>3. ListsMatchStates'
    BY <1>1, <1>3, <2>1, <2>2, SMTT(30) DEF IInv, TypeOK, ListsMatchStates
  <2>4. IdleNeverRuns'
    BY <1>1, <2>1, Zenon DEF IInv, TypeOK, ListsMatchStates, IdleNeverRuns
  <2> QED
    BY <2>3, <2>4, Zenon
<1> QED
  BY <1>5, <1>6, Zenon DEF IInv

\* The steps of main that may switch to a task keep the invariant.
LEMMA MainDispatchStep ==
    ASSUME IInv, scheduler_start \/ scheduler_step \/ MainSleepStep
                   \/ scheduler_enter_idle
    PROVE  IInv'
<1> USE SlotFacts
<1>1. /\ current = main
      /\ UNCHANGED <<tcbs, free_list, blocked_list, next_wake_tick>>
  BY Zenon DEF scheduler_start, scheduler_step, MainSleepStep, scheduler_enter_idle,
         MainFree, clock, JumpToWake, lists
<1>2. /\ tick_count' \in Ticks /\ scheduler_started' \in BOOLEAN
      /\ tickless' \in BOOLEAN /\ power_mode' \in Modes
      /\ main_sleep' \in [pc : {"loop", "test", "step"}, until : Ticks]
  BY Zenon DEF IInv, TypeOK, scheduler_start, scheduler_step, MainSleepStep, Modes,
         scheduler_enter_idle, MainFree, clock, modes, JumpToWake
<1>3. Dispatch \/ UNCHANGED <<ready_list, current, state>>
  BY Zenon DEF scheduler_start, scheduler_step, MainSleepStep, scheduler_enter_idle,
         JumpToWake, lists
<1>4. /\ state' \in [Slots -> States] /\ current' \in Slots
      /\ IsReady(ready_list')
      /\ ListsMatchStates' /\ IdleNeverRuns'
  <2>1. CASE Dispatch
    BY <1>1, <2>1, DispatchStep, Zenon DEF tcbs
  <2>2. CASE UNCHANGED <<ready_list, current, state>>
    BY <1>1, <2>2, SMTT(30)
       DEF IInv, TypeOK, IsReady, ListsMatchStates, IdleNeverRuns, tcbs
  <2> QED
    BY <1>3, <2>1, <2>2, Zenon
<1>5. TypeOK'
  BY <1>1, <1>2, <1>4, Zenon DEF IInv, TypeOK, IsReady, tcbs
<1> QED
  BY <1>4, <1>5, Zenon DEF IInv

\* The steps that leave tasks and lists alone keep the invariant.
LEMMA QuietStep ==
    ASSUME IInv,
           UNCHANGED <<state, tcbs, lists, current>>,
           tick_count' \in Ticks, next_wake_tick' \in Ticks,
           scheduler_started' \in BOOLEAN, tickless' \in BOOLEAN,
           power_mode' \in Modes,
           main_sleep' \in [pc : {"loop", "test", "step"}, until : Ticks]
    PROVE  IInv'
BY DEF IInv, TypeOK, ListsMatchStates, IdleNeverRuns, tcbs, lists

\* Every step of the scheduler keeps the invariant.
THEOREM NextIInv == IInv /\ [Next]_vars => IInv'
<1> SUFFICES ASSUME IInv, [Next]_vars PROVE IInv'
  BY Zenon
<1>0. /\ tick_count \in Ticks /\ next_wake_tick \in Ticks
      /\ scheduler_started \in BOOLEAN /\ tickless \in BOOLEAN
      /\ power_mode \in Modes
      /\ main_sleep \in [pc : {"loop", "test", "step"}, until : Ticks]
  BY Zenon DEF IInv, TypeOK
<1>1. CASE ClientCall
  <2>1. CASE \E on \in BOOLEAN : scheduler_enable_tickless_idle(on)
    BY <1>0, <2>1, QuietStep, Zenon DEF scheduler_enable_tickless_idle, clock
  <2>2. CASE scheduler_exit_idle
    BY <1>0, <2>2, QuietStep, Zenon DEF scheduler_exit_idle, clock, Modes
  <2> QED
    BY <1>1, <2>1, <2>2, CreateStep, DeleteStep, SuspendStep, ResumeStep, Zenon
       DEF ClientCall
<1>2. CASE TaskGivesUp
  BY <1>2, YieldStep, SleepStep, ExitStep, Zenon DEF TaskGivesUp
<1>3. CASE MainCall
  <2>1. CASE MainTick
    BY <1>0, <2>1, TickStep, Zenon DEF MainTick
  <2>2. ASSUME NEW n \in SleepTicks, MainSleep(n) PROVE IInv'
    BY <1>0, <2>2, QuietStep, TickArith, SleepAssumption, Zenon
       DEF MainSleep, clock, modes
  <2>3. CASE MainSleepTest
    <3>1. CASE scheduler_tick
      BY <1>0, <2>3, <3>1, TickStep, SlotFacts, SMTT(30) DEF MainSleepTest
    <3>2. CASE ~scheduler_tick
      BY <1>0, <2>3, <3>2, QuietStep, SlotFacts, SMTT(30) DEF MainSleepTest, clock, modes
    <3> QED
      BY <3>1, <3>2, Zenon
  <2>4. CASE scheduler_tickless_idle
    BY <1>0, <2>4, QuietStep, Zenon DEF scheduler_tickless_idle, JumpToWake, Modes
  <2>5. ASSUME NEW n \in JumpTicks, scheduler_enter_deep_sleep(n) PROVE IInv'
    BY <1>0, <2>5, QuietStep, TickArith, SleepAssumption, Zenon
       DEF scheduler_enter_deep_sleep, Modes
  <2> QED
    BY <1>3, <2>1, <2>2, <2>3, <2>4, <2>5, MainDispatchStep, Zenon DEF MainCall
<1>4. CASE UNCHANGED vars
  BY <1>0, <1>4, QuietStep, Zenon DEF vars, tcbs, lists
<1> QED
  BY <1>1, <1>2, <1>3, <1>4, Zenon DEF Next

\* The state fields, the lists and the stacks agree in every reachable state,
\* whatever the number of slots and the sequence of calls.
THEOREM ListsAlwaysMatch == Spec => []ListsMatchStates
<1>1. IInv => ListsMatchStates
  BY Zenon DEF IInv
<1> QED
  BY <1>1, InitIInv, NextIInv, PTL DEF Spec

\* The idle task never becomes the current task.
THEOREM IdleStaysReady == Spec => []IdleNeverRuns
<1>1. IInv => IdleNeverRuns
  BY Zenon DEF IInv
<1> QED
  BY <1>1, InitIInv, NextIInv, PTL DEF Spec

\* Every variable keeps its type.
THEOREM TypeCorrect == Spec => []TypeOK
<1>1. IInv => TypeOK
  BY Zenon DEF IInv
<1> QED
  BY <1>1, InitIInv, NextIInv, PTL DEF Spec

-----------------------------------------------------------------------------
(* The scheduler implements Tasks.                                         *)

\* The slots clients get.
Given == Slots \ {idle, main}

TasksStep == AbstractTasks!TasksNext \/ UNCHANGED <<Life, current>>

\* A step after which one slot's life is v and the others' are what they were.
LEMMA LifeMoves ==
    ASSUME NEW t \in Given, NEW v, Life'[t] = v,
           \A u \in Given \ {t} : Life'[u] = Life[u]
    PROVE  Life' = [Life EXCEPT ![t] = v]
BY Zenon DEF Life, Given

\* A step after which every slot's life is what it was.
LEMMA LifeStays ==
    ASSUME \A u \in Given : Life'[u] = Life[u]
    PROVE  Life' = Life
BY Zenon DEF Life, Given

\* What Tasks sees of a slot, before and after a step.
LEMMA LifeIs ==
    ASSUME NEW t \in Given
    PROVE  /\ Life[t] = IF t \in DOMAIN free_list THEN "FREE" ELSE state[t]
           /\ Life'[t] = IF t \in DOMAIN free_list' THEN "FREE" ELSE state'[t]
BY Zenon DEF Life, Given

\* A step that touches neither states nor the free list nor the current task.
LEMMA SameLife ==
    ASSUME UNCHANGED <<state, free_list, current>>
    PROVE  TasksStep
BY Zenon DEF TasksStep, Life

\* Giving the CPU to a ready task is the Run of Tasks.
LEMMA DispatchRuns ==
    ASSUME IInv, current = main, Dispatch, UNCHANGED free_list
    PROVE  TasksStep
<1>1. CASE UNCHANGED <<current, state>>
  BY <1>1, SameLife, Zenon
<1>2. ASSUME NEW t \in task_get_highest_ready,
             current' = t, state' = [state EXCEPT ![t] = "RUNNING"]
      PROVE  TasksStep
  <2>1. t \in Given /\ t \notin DOMAIN free_list /\ state[t] = "READY"
    BY PickedReady, Zenon DEF Given
  <2>2. state \in [Slots -> States]
    BY Zenon DEF IInv, TypeOK
  <2>3. \A u \in Given \ {t} : Life'[u] = Life[u]
    BY <1>2, <2>2, LifeIs, Zenon DEF Given
  <2>4. Life[t] = "READY" /\ Life'[t] = "RUNNING"
    BY <1>2, <2>1, <2>2, LifeIs, Zenon DEF Given
  <2>5. Life' = [Life EXCEPT ![t] = "RUNNING"]
    BY <2>1, <2>3, <2>4, LifeMoves, Zenon
  <2>6. AbstractTasks!Run(t)
    BY <1>2, <2>4, <2>5, Zenon DEF AbstractTasks!Run
  <2> QED
    BY <2>1, <2>6, Zenon DEF TasksStep, AbstractTasks!TasksNext, Given
<1> QED
  BY <1>1, <1>2, Zenon DEF Dispatch

\* A task that yields or parks itself gives up the CPU in the sense of Tasks.
LEMMA SwitchGivesUp ==
    ASSUME IInv, current # main, NEW s \in {"READY", "SUSPENDED"}, NEW ready,
           SwitchAway(current, s, ready), UNCHANGED free_list
    PROVE  TasksStep
<1>1. current \in Given /\ current \notin DOMAIN free_list
  BY Zenon DEF IInv, TypeOK, ListsMatchStates, IdleNeverRuns, Given
<1>2. state \in [Slots -> States]
  BY Zenon DEF IInv, TypeOK
<1>3. main \notin Given
  BY Zenon DEF Given
<1>4. ASSUME NEW t \in task_get_highest_ready, current' = t,
             state' = [state EXCEPT ![current] = s, ![t] = "RUNNING"]
      PROVE  AbstractTasks!GiveUp(s)
  <2>1. t \in Given /\ t # current /\ t \notin DOMAIN free_list /\ state[t] = "READY"
    BY PickedReady, Zenon DEF Given
  <2>2. \A u \in Given : Life'[u] = IF u = t THEN "RUNNING" ELSE IF u = current THEN s ELSE Life[u]
    BY <1>1, <1>2, <1>4, <2>1, LifeIs, Zenon DEF Given
  <2>3. Life' = [Life EXCEPT ![current] = s, ![t] = "RUNNING"]
    BY <1>1, <2>1, <2>2, Zenon DEF Life, Given
  <2>4. Life[t] = "READY"
    BY <2>1, LifeIs, Zenon
  <2> QED
    BY <1>4, <2>1, <2>3, <2>4, Zenon DEF AbstractTasks!GiveUp, Given
<1>5. ASSUME current' = main,
             state' = [state EXCEPT ![current] = s, ![main] = "RUNNING"]
      PROVE  AbstractTasks!GiveUp(s)
  <2>1. Life'[current] = s /\ \A u \in Given \ {current} : Life'[u] = Life[u]
    BY <1>1, <1>2, <1>3, <1>5, LifeIs, Zenon DEF Given
  <2>2. Life' = [Life EXCEPT ![current] = s]
    BY <1>1, <2>1, LifeMoves, Zenon
  <2> QED
    BY <1>5, <2>2, Zenon DEF AbstractTasks!GiveUp
<1>6. AbstractTasks!GiveUp(s)
  BY <1>4, <1>5, Zenon DEF SwitchAway
<1> QED
  BY <1>6, Zenon DEF TasksStep, AbstractTasks!TasksNext

\* A task that sleeps or returns gives up the CPU to main.
LEMMA LeaveGivesUp ==
    ASSUME IInv, current # main, NEW s \in {"BLOCKED", "TERMINATED"},
           state' = [state EXCEPT ![current] = s, ![main] = "RUNNING"],
           current' = main, UNCHANGED free_list
    PROVE  TasksStep
<1>1. current \in Given /\ current \notin DOMAIN free_list
  BY Zenon DEF IInv, TypeOK, ListsMatchStates, IdleNeverRuns, Given
<1>2. state \in [Slots -> States] /\ main \notin Given
  BY Zenon DEF IInv, TypeOK, Given
<1>3. Life'[current] = s /\ \A u \in Given \ {current} : Life'[u] = Life[u]
  BY <1>1, <1>2, LifeIs, Zenon DEF Given
<1>4. Life' = [Life EXCEPT ![current] = s]
  BY <1>1, <1>3, LifeMoves, Zenon
<1>5. AbstractTasks!GiveUp(s)
  BY <1>4, Zenon DEF AbstractTasks!GiveUp
<1> QED
  BY <1>5, Zenon DEF TasksStep, AbstractTasks!TasksNext

\* The sleepers a tick wakes are tasks that were blocked: a Wake of Tasks.
LEMMA TickWakes ==
    ASSUME IInv, current = main, scheduler_tick
    PROVE  TasksStep
<1> DEFINE now == (tick_count + 1) % TickMod
           S == Due(now)
<1>1. S \subseteq Given /\ \A t \in S : t \notin DOMAIN free_list /\ state[t] = "BLOCKED"
  BY SlotFacts, Zenon DEF IInv, TypeOK, IsList, ListsMatchStates, IdleNeverRuns, Due, Given
<1>2. /\ state' = [t \in Slots |-> IF t \in S THEN "READY" ELSE state[t]]
      /\ free_list' = free_list /\ current' = current
  BY Zenon DEF scheduler_tick
<1> HIDE DEF S
<1>3. \A t \in S : Life[t] = "BLOCKED"
  BY <1>1, LifeIs, Zenon
<1>4. \A t \in Given : Life'[t] = IF t \in S THEN "READY" ELSE Life[t]
  BY <1>1, <1>2, LifeIs, Zenon DEF Given
<1>5. Life' = [t \in Given |-> IF t \in S THEN "READY" ELSE Life[t]]
  BY <1>4, Zenon DEF Life, Given
<1>6. AbstractTasks!Wake(S)
  BY <1>2, <1>3, <1>5, Zenon DEF AbstractTasks!Wake, Given
<1> QED
  BY <1>1, <1>6, Zenon DEF TasksStep, AbstractTasks!TasksNext, Given

-----------------------------------------------------------------------------
(* The calls of clients.                                                    *)

\* A slot leaves the free list as a ready task; a failed creation puts it back,
\* and Tasks sees nothing of it.
LEMMA CreateIsCreate ==
    ASSUME IInv, NEW p \in Prios, NEW booted \in BOOLEAN, task_create(p, booted)
    PROVE  TasksStep
<1>1. PICK t \in DOMAIN free_list :
        /\ state' = [state EXCEPT ![t] = "READY"]
        /\ IF booted
           THEN free_list' = task_list_remove(free_list, t)
           ELSE free_list' = task_list_add(task_list_remove(free_list, t), t)
        /\ current' = current
  BY Zenon DEF task_create
<1>2. /\ state \in [Slots -> States] /\ IsList(free_list)
      /\ t \in Slots /\ t \in Given
  BY <1>1, Zenon DEF IInv, TypeOK, IsList, ListsMatchStates, Given
<1>3. /\ IsList(task_list_remove(free_list, t))
      /\ DOMAIN task_list_remove(free_list, t) = (DOMAIN free_list) \ {t}
  BY <1>2, RemoveList, Zenon
<1>4. CASE booted
  <2>1. DOMAIN free_list' = (DOMAIN free_list) \ {t}
    BY <1>1, <1>3, <1>4, Zenon
  <2>2. \A u \in Given \ {t} : Life'[u] = Life[u]
    BY <1>1, <1>2, <2>1, LifeIs, Zenon DEF Given
  <2>3. Life[t] = "FREE" /\ Life'[t] = "READY"
    BY <1>1, <1>2, <2>1, LifeIs, Zenon
  <2>4. AbstractTasks!Create(t)
    BY <1>1, <1>2, <2>2, <2>3, LifeMoves, Zenon DEF AbstractTasks!Create
  <2> QED
    BY <1>2, <2>4, Zenon DEF TasksStep, AbstractTasks!TasksNext, Given
<1>5. CASE ~booted
  <2>1. DOMAIN free_list' = DOMAIN free_list
    <3>1. free_list' = task_list_add(task_list_remove(free_list, t), t)
      BY <1>1, <1>5, Zenon
    <3>2. DOMAIN free_list' = (DOMAIN task_list_remove(free_list, t)) \cup {t}
      BY <1>2, <1>3, <3>1, AddList, Zenon
    <3> QED
      BY <1>3, <3>2, Zenon
  <2>2. \A u \in Given : Life'[u] = Life[u]
    BY <1>1, <1>2, <2>1, LifeIs, Zenon DEF Given
  <2> QED
    BY <1>1, <2>2, LifeStays, Zenon DEF TasksStep
<1> QED
  BY <1>4, <1>5, Zenon

\* A handle is a slot clients were given, and not free.
LEMMA HandleFacts ==
    ASSUME IInv, NEW t \in Handles
    PROVE  /\ t \in Given /\ t \in Slots /\ t \notin DOMAIN free_list
           /\ state \in [Slots -> States] /\ Life[t] = state[t]
<1>1. t \in Given /\ t \in Slots /\ t \notin DOMAIN free_list
  BY Zenon DEF Handles, Given
<1> QED
  BY <1>1, LifeIs, Zenon DEF IInv, TypeOK

\* task_delete frees a slot that is not running.
LEMMA DeleteIsDelete ==
    ASSUME IInv, NEW t \in Handles, task_delete(t)
    PROVE  TasksStep
<1>1. /\ t # current /\ state' = [state EXCEPT ![t] = "TERMINATED"]
      /\ free_list' = task_list_add(free_list, t) /\ current' = current
  BY Zenon DEF task_delete
<1>2. DOMAIN free_list' = (DOMAIN free_list) \cup {t}
  BY <1>1, HandleFacts, AddList, Zenon DEF IInv, TypeOK
<1>3. Life'[t] = "FREE" /\ \A u \in Given \ {t} : Life'[u] = Life[u]
  BY <1>1, <1>2, HandleFacts, LifeIs, Zenon DEF Given
<1>4. Life[t] # "FREE"
  BY HandleFacts, Zenon DEF States
<1>5. AbstractTasks!Delete(t)
  BY <1>1, <1>3, <1>4, HandleFacts, LifeMoves, Zenon DEF AbstractTasks!Delete
<1> QED
  BY <1>5, HandleFacts, Zenon DEF TasksStep, AbstractTasks!TasksNext, Given

\* task_suspend of another task and task_resume move a slot that is in use.
LEMMA ParkIsPark ==
    ASSUME IInv, NEW t \in Handles, task_suspend(t) \/ task_resume(t)
    PROVE  TasksStep
<1>1. CASE task_suspend(t)
  <2>1. /\ state[t] \in {"READY", "BLOCKED"} /\ state' = [state EXCEPT ![t] = "SUSPENDED"]
        /\ UNCHANGED <<free_list, current>>
    BY <1>1, Zenon DEF task_suspend
  <2>2. Life'[t] = "SUSPENDED" /\ \A u \in Given \ {t} : Life'[u] = Life[u]
    BY <2>1, HandleFacts, LifeIs, Zenon DEF Given
  <2>3. AbstractTasks!Suspend(t)
    BY <2>1, <2>2, HandleFacts, LifeMoves, Zenon DEF AbstractTasks!Suspend
  <2> QED
    BY <2>3, HandleFacts, Zenon DEF TasksStep, AbstractTasks!TasksNext, Given
<1>2. CASE task_resume(t)
  <2>1. /\ state[t] = "SUSPENDED" /\ state' = [state EXCEPT ![t] = "READY"]
        /\ UNCHANGED <<free_list, current>>
    BY <1>2, Zenon DEF task_resume
  <2>2. Life'[t] = "READY" /\ \A u \in Given \ {t} : Life'[u] = Life[u]
    BY <2>1, HandleFacts, LifeIs, Zenon DEF Given
  <2>3. AbstractTasks!Resume(t)
    BY <2>1, <2>2, HandleFacts, LifeMoves, Zenon DEF AbstractTasks!Resume
  <2> QED
    BY <2>3, HandleFacts, Zenon DEF TasksStep, AbstractTasks!TasksNext, Given
<1> QED
  BY <1>1, <1>2, Zenon

-----------------------------------------------------------------------------
\* Every step of the scheduler is a step of Tasks, or one Tasks does not see.
LEMMA NextImplements ==
    ASSUME IInv, [Next]_vars
    PROVE  TasksStep
<1>1. CASE ClientCall
  <2>1. ASSUME NEW p \in Prios, NEW booted \in BOOLEAN, task_create(p, booted) PROVE TasksStep
    BY <2>1, CreateIsCreate, Zenon
  <2>2. ASSUME NEW t \in Handles, task_delete(t) PROVE TasksStep
    BY <2>2, DeleteIsDelete, Zenon
  <2>3. ASSUME NEW t \in Handles, task_suspend(t) \/ task_resume(t) PROVE TasksStep
    BY <2>3, ParkIsPark, Zenon
  <2>4. ASSUME NEW on \in BOOLEAN, scheduler_enable_tickless_idle(on) PROVE TasksStep
    BY <2>4, SameLife, Zenon DEF scheduler_enable_tickless_idle, lists
  <2>5. CASE scheduler_exit_idle
    BY <2>5, SameLife, Zenon DEF scheduler_exit_idle, lists
  <2> QED
    BY <1>1, <2>1, <2>2, <2>3, <2>4, <2>5, SMTT(30) DEF ClientCall
<1>2. CASE TaskGivesUp
  <2>1. CASE task_yield
    BY <2>1, SwitchGivesUp, Zenon DEF task_yield
  <2>2. CASE task_suspend_self
    BY <2>2, SwitchGivesUp, Zenon DEF task_suspend_self
  <2>3. ASSUME NEW n \in SleepTicks, task_sleep(n) PROVE TasksStep
    BY <2>3, LeaveGivesUp, Zenon DEF task_sleep
  <2>4. CASE task_exit
    BY <2>4, LeaveGivesUp, Zenon DEF task_exit, lists
  <2> QED
    BY <1>2, <2>1, <2>2, <2>3, <2>4, Zenon DEF TaskGivesUp
<1>3. CASE MainCall
  <2>1. CASE scheduler_start \/ scheduler_step
    BY <2>1, DispatchRuns, Zenon DEF scheduler_start, scheduler_step, MainFree
  <2>2. CASE MainTick
    BY <2>2, TickWakes, Zenon DEF MainTick, MainFree
  <2>3. ASSUME NEW n \in SleepTicks, MainSleep(n) PROVE TasksStep
    BY <2>3, SameLife, Zenon DEF MainSleep, lists
  <2>4. CASE MainSleepTest
    BY <2>4, TickWakes, SameLife, Zenon DEF MainSleepTest, lists
  <2>5. CASE MainSleepStep
    BY <2>5, DispatchRuns, SameLife, Zenon DEF MainSleepStep
  <2>6. CASE scheduler_enter_idle
    BY <2>6, DispatchRuns, SameLife, Zenon DEF scheduler_enter_idle, JumpToWake, MainFree, lists
  <2>7. CASE scheduler_tickless_idle
    BY <2>7, SameLife, Zenon DEF scheduler_tickless_idle, JumpToWake, lists
  <2>8. ASSUME NEW n \in JumpTicks, scheduler_enter_deep_sleep(n) PROVE TasksStep
    BY <2>8, SameLife, Zenon DEF scheduler_enter_deep_sleep, lists
  <2> QED
    BY <1>3, <2>1, <2>2, <2>3, <2>4, <2>5, <2>6, <2>7, <2>8, SMTT(30) DEF MainCall
<1>4. CASE UNCHANGED vars
  BY <1>4, SameLife, Zenon DEF vars
<1> QED
  BY <1>1, <1>2, <1>3, <1>4, Zenon DEF Next

\* Life and current start as Tasks starts.
LEMMA InitImplements ==
    ASSUME Init
    PROVE  AbstractTasks!TasksInit
<1>1. DOMAIN free_list = Given /\ current = main
  BY Zenon DEF Init, Given
<1>2. Life = [t \in Given |-> "FREE"]
  BY <1>1, Zenon DEF Life, Given
<1> QED
  BY <1>1, <1>2, Zenon DEF AbstractTasks!TasksInit, Given

\* The scheduler implements Tasks: whatever its lists, ticks and switches do,
\* its clients see the life of a task that Tasks promises.
THEOREM SchedulerImplementsTasks == Spec => ImplementsTasks
<1>1. Init => AbstractTasks!TasksInit
  BY InitImplements, Zenon
<1>2. IInv /\ [Next]_vars => [AbstractTasks!TasksNext]_<<Life, current>>
  BY NextImplements, Zenon DEF TasksStep
<1> QED
  BY <1>1, <1>2, InitIInv, NextIInv, PTL DEF Spec, ImplementsTasks, AbstractTasks!TasksSpec

-----------------------------------------------------------------------------
(* What moves a task.                                                       *)

\* The action OnlyDueOrResumed allows, for one task.
Moves(t) ==
    state'[t] # state[t] /\ t \notin DOMAIN free_list' =>
        /\ state[t] = "BLOCKED" =>
              \/ state'[t] = "SUSPENDED"
              \/ state'[t] = "READY" /\ tick_count' >= wake_time[t]
        /\ state[t] = "SUSPENDED" => state'[t] = "READY" /\ clock' = clock
        /\ state'[t] = "RUNNING" => state[t] = "READY"

\* A step that leaves the states alone moves nobody.
LEMMA SameMoves ==
    ASSUME UNCHANGED state, NEW t
    PROVE  Moves(t)
BY Zenon DEF Moves

\* A dispatch makes a ready task run.
LEMMA DispatchMoves ==
    ASSUME IInv, Dispatch, NEW t \in Handles
    PROVE  Moves(t)
<1>1. CASE UNCHANGED state
  BY <1>1, SameMoves, Zenon
<1>2. ASSUME NEW u \in task_get_highest_ready, state' = [state EXCEPT ![u] = "RUNNING"]
      PROVE  Moves(t)
  <2>1. state[u] = "READY" /\ u \in Slots
    BY PickedReady, Zenon
  <2> QED
    BY <1>2, <2>1, HandleFacts, Zenon DEF Moves
<1> QED
  BY <1>1, <1>2, Zenon DEF Dispatch

\* A switch takes the CPU from the running task and gives it to a ready one.
LEMMA SwitchMoves ==
    ASSUME IInv, current # main, NEW s \in {"READY", "SUSPENDED"}, NEW ready,
           SwitchAway(current, s, ready), NEW t \in Handles
    PROVE  Moves(t)
<1>1. state[current] = "RUNNING" /\ current \in Slots /\ t # main /\ t \in Slots
      /\ state \in [Slots -> States]
  BY HandleFacts, Zenon DEF IInv, TypeOK, ListsMatchStates, Given
<1>2. ASSUME NEW u \in task_get_highest_ready,
             state' = [state EXCEPT ![current] = s, ![u] = "RUNNING"]
      PROVE  Moves(t)
  <2>1. state[u] = "READY" /\ u \in Slots /\ u # current
    BY PickedReady, Zenon
  <2> QED
    BY <1>1, <1>2, <2>1, Zenon DEF Moves
<1>3. ASSUME state' = [state EXCEPT ![current] = s, ![main] = "RUNNING"]
      PROVE  Moves(t)
  BY <1>1, <1>3, Zenon DEF Moves
<1> QED
  BY <1>2, <1>3, Zenon DEF SwitchAway

\* A tick wakes a sleeper only when the counter has come to its wake_time.
LEMMA TickMoves ==
    ASSUME IInv, scheduler_tick, NEW t \in Handles
    PROVE  Moves(t)
<1> DEFINE now == (tick_count + 1) % TickMod
<1>1. /\ tick_count' = now
      /\ state' = [u \in Slots |-> IF u \in Due(now) THEN "READY" ELSE state[u]]
  BY Zenon DEF scheduler_tick
<1>2. t \in Due(now) => now >= wake_time[t] /\ state[t] = "BLOCKED"
  BY HandleFacts, Zenon DEF Due, IInv, ListsMatchStates
<1> HIDE DEF now
<1> QED
  BY <1>1, <1>2, HandleFacts, Zenon DEF Moves

\* A client's call moves the task it names, and no other.
LEMMA ClientMoves ==
    ASSUME IInv, ClientCall, NEW t \in Handles
    PROVE  Moves(t)
<1> USE HandleFacts
<1>1. ASSUME NEW p \in Prios, NEW booted \in BOOLEAN, task_create(p, booted)
      PROVE  Moves(t)
  <2>1. PICK u \in DOMAIN free_list : state' = [state EXCEPT ![u] = "READY"]
    BY <1>1, Zenon DEF task_create
  <2>2. u # t
    BY <2>1, Zenon
  <2> QED
    BY <2>1, <2>2, Zenon DEF Moves
<1>2. ASSUME NEW u \in Handles, task_delete(u) PROVE Moves(t)
  <2>1. state' = [state EXCEPT ![u] = "TERMINATED"] /\ free_list' = task_list_add(free_list, u)
    BY <1>2, Zenon DEF task_delete
  <2>2. u \in Slots /\ IsList(free_list)
    BY Zenon DEF IInv, TypeOK
  <2>3. DOMAIN task_list_add(free_list, u) = (DOMAIN free_list) \cup {u}
    BY ONLY <2>2, AddList, Zenon
  <2> QED
    BY <2>1, <2>3, Zenon DEF Moves
<1>3. ASSUME NEW u \in Handles, task_suspend(u) PROVE Moves(t)
  BY <1>3, Zenon DEF task_suspend, Moves
<1>4. ASSUME NEW u \in Handles, task_resume(u) PROVE Moves(t)
  BY <1>4, Zenon DEF task_resume, Moves, clock
<1>5. ASSUME NEW on \in BOOLEAN, scheduler_enable_tickless_idle(on) PROVE Moves(t)
  BY <1>5, SameMoves, Zenon DEF scheduler_enable_tickless_idle
<1>6. CASE scheduler_exit_idle
  BY <1>6, SameMoves, Zenon DEF scheduler_exit_idle
<1> QED
  BY <1>1, <1>2, <1>3, <1>4, <1>5, <1>6, Zenon DEF ClientCall

\* Every step moves only the tasks it may.
LEMMA NextMoves ==
    ASSUME IInv, Next, NEW t \in Handles
    PROVE  Moves(t)
<1>1. CASE TaskGivesUp
  <2>1. CASE task_yield
    BY <2>1, SwitchMoves, Zenon DEF task_yield
  <2>2. CASE task_suspend_self
    BY <2>2, SwitchMoves, Zenon DEF task_suspend_self
  <2>3. ASSUME NEW s \in {"BLOCKED", "TERMINATED"}, current # main,
               state' = [state EXCEPT ![current] = s, ![main] = "RUNNING"]
        PROVE  Moves(t)
    <3>1. state[current] = "RUNNING" /\ current \in Slots /\ t # main
      BY HandleFacts, Zenon DEF IInv, TypeOK, ListsMatchStates, Given
    <3> QED
      BY <2>3, <3>1, HandleFacts, Zenon DEF Moves
  <2>4. ASSUME NEW n \in SleepTicks, task_sleep(n) PROVE Moves(t)
    BY <2>3, <2>4, Zenon DEF task_sleep
  <2>5. CASE task_exit
    BY <2>3, <2>5, Zenon DEF task_exit
  <2> QED
    BY <1>1, <2>1, <2>2, <2>4, <2>5, Zenon DEF TaskGivesUp
<1>2. CASE MainCall
  <2>1. CASE scheduler_start \/ scheduler_step \/ MainSleepStep
    BY <2>1, DispatchMoves, SameMoves, Zenon DEF scheduler_start, scheduler_step, MainSleepStep
  <2>2. CASE MainTick \/ MainSleepTest
    BY <2>2, TickMoves, SameMoves, Zenon DEF MainTick, MainSleepTest
  <2>3. ASSUME NEW n \in SleepTicks, MainSleep(n) PROVE Moves(t)
    BY <2>3, SameMoves, Zenon DEF MainSleep
  <2>4. CASE scheduler_enter_idle
    BY <2>4, DispatchMoves, SameMoves, Zenon DEF scheduler_enter_idle, JumpToWake
  <2>5. CASE scheduler_tickless_idle
    BY <2>5, SameMoves, Zenon DEF scheduler_tickless_idle, JumpToWake
  <2>6. ASSUME NEW n \in JumpTicks, scheduler_enter_deep_sleep(n) PROVE Moves(t)
    BY <2>6, SameMoves, Zenon DEF scheduler_enter_deep_sleep
  <2> QED
    BY <1>2, <2>1, <2>2, <2>3, <2>4, <2>5, <2>6, Zenon DEF MainCall
<1> QED
  BY <1>1, <1>2, ClientMoves, Zenon DEF Next

\* A sleeper wakes only at or after its wake_time, a parked task only through
\* task_resume, and only a ready task is given the CPU.
THEOREM TasksMoveOnlyWhenDue == Spec => OnlyDueOrResumed
<1> DEFINE A == \A t \in Handles : Moves(t)
<1>1. IInv /\ [Next]_vars => [A]_vars
  BY NextMoves, Zenon
<1>2. Spec => [][A]_vars
  <2> HIDE DEF A
  <2> QED
    BY <1>1, InitIInv, NextIInv, PTL DEF Spec
<1> QED
  BY <1>2, Zenon DEF OnlyDueOrResumed, Moves

-----------------------------------------------------------------------------
(* The links of the lists.                                                 *)

-----------------------------------------------------------------------------
(* Counting.                                                                *)

\* Distinct positions between lo and hi are no more than there are between them.
LEMMA PositionsFit ==
    ASSUME NEW S, NEW r, NEW lo \in Int, NEW hi \in Int, lo <= hi + 1,
           \A y \in S : r[y] \in lo..hi,
           \A x, y \in S : r[x] = r[y] => x = y
    PROVE  IsFiniteSet(S) /\ Cardinality(S) \in Nat /\ Cardinality(S) <= hi - lo + 1
<1> DEFINE f == [y \in S |-> r[y]]
<1>1. f \in Injection(S, lo..hi)
  BY Zenon DEF Injection, IsInjective
<1>2. IsFiniteSet(lo..hi) /\ Cardinality(lo..hi) = IF lo > hi THEN 0 ELSE hi - lo + 1
  BY FS_Interval, Zenon
<1> HIDE DEF f
<1>3. IsFiniteSet(S) /\ Cardinality(S) <= Cardinality(lo..hi)
  BY <1>1, <1>2, FS_Injection, Zenon
<1>4. Cardinality(S) \in Nat
  BY <1>3, FS_CardinalityType, Zenon
<1> QED
  BY <1>2, <1>3, <1>4

\* The domain of a list is finite.
LEMMA ListFinite ==
    ASSUME NEW list, IsList(list)
    PROVE  IsFiniteSet(DOMAIN list) /\ Cardinality(DOMAIN list) \in Nat
<1>1. IsFiniteSet(DOMAIN list)
  BY SlotFacts, FS_Subset, Zenon DEF IsList
<1> QED
  BY <1>1, FS_CardinalityType, Zenon

\* A task pushed on a list it is not on leaves a chain.
LEMMA ChainAdd ==
    ASSUME NEW list, IsList(list), IsChain(list), NEW t \in Slots, t \notin DOMAIN list
    PROVE  IsChain(task_list_add(list, t))
<1> DEFINE n == Cardinality(DOMAIN list)
           new == task_list_add(list, t)
<1>1. n \in Nat /\ Cardinality((DOMAIN list) \cup {t}) = n + 1
  BY ListFinite, FS_AddElement, Zenon
<1>2. /\ DOMAIN new = (DOMAIN list) \cup {t}
      /\ new[t] = 0
      /\ \A x \in DOMAIN list : new[x] = list[x] + 1
  BY Zenon DEF task_list_add
<1>3. \A x \in DOMAIN list : list[x] \in Int
  BY Zenon DEF IsList
<1>4. /\ \A x \in DOMAIN list : list[x] \in 0..(n - 1)
      /\ \A x, y \in DOMAIN list : list[x] = list[y] => x = y
  BY Zenon DEF IsChain
<1> HIDE DEF n, new
<1>5. \A x \in DOMAIN new : new[x] \in 0..(Cardinality(DOMAIN new) - 1)
  BY <1>1, <1>2, <1>3, <1>4, SMTT(30)
<1>6. \A x, y \in DOMAIN new : new[x] = new[y] => x = y
  BY <1>1, <1>2, <1>3, <1>4, SMTT(30)
<1> QED
  BY <1>5, <1>6, Zenon DEF IsChain, new

\* A task taken off a list it is on leaves a chain: those behind it close up.
LEMMA ChainRemove ==
    ASSUME NEW list, IsList(list), IsChain(list), NEW t \in DOMAIN list
    PROVE  IsChain(task_list_remove(list, t))
<1> DEFINE n == Cardinality(DOMAIN list)
           new == task_list_remove(list, t)
<1>1. n \in Nat /\ Cardinality((DOMAIN list) \ {t}) = n - 1
  BY ListFinite, FS_RemoveElement, Zenon
<1>2. /\ DOMAIN new = (DOMAIN list) \ {t}
      /\ \A x \in DOMAIN new : new[x] = IF list[x] > list[t] THEN list[x] - 1 ELSE list[x]
  BY Zenon DEF task_list_remove
<1>3. \A x \in DOMAIN list : list[x] \in Int
  BY Zenon DEF IsList
<1>4. /\ \A x \in DOMAIN list : list[x] \in 0..(n - 1)
      /\ \A x, y \in DOMAIN list : list[x] = list[y] => x = y
  BY Zenon DEF IsChain
<1> HIDE DEF n, new
<1>5. \A x \in DOMAIN new : list[x] # list[t]
  BY <1>2, <1>4, Zenon
<1>6. \A x \in DOMAIN new : new[x] \in 0..(Cardinality(DOMAIN new) - 1)
  BY <1>1, <1>2, <1>3, <1>4, <1>5, SMTT(30)
<1>7. \A x, y \in DOMAIN new : new[x] = new[y] => x = y
  BY <1>1, <1>2, <1>3, <1>4, <1>5, SMTT(30)
<1> QED
  BY <1>6, <1>7, Zenon DEF IsChain, new

\* Every ready list is a chain.
ReadyChains(r) == \A q \in AllPrios : IsChain(r[q])

\* task_add_to_ready keeps the ready lists chains when the task is not queued.
LEMMA ReadyChainsAdd ==
    ASSUME NEW r, IsReady(r), ReadyChains(r), NEW t \in Slots, NEW p \in AllPrios,
           t \notin DOMAIN r[p]
    PROVE  ReadyChains(task_add_to_ready(r, p, t))
<1>1. IsChain(task_list_add(r[p], t))
  BY ChainAdd, Zenon DEF IsReady, ReadyChains
<1>2. /\ task_add_to_ready(r, p, t)[p] = task_list_add(r[p], t)
      /\ \A q \in AllPrios \ {p} : task_add_to_ready(r, p, t)[q] = r[q]
  BY Zenon DEF IsReady, task_add_to_ready
<1> QED
  BY <1>1, <1>2, Zenon DEF ReadyChains

\* Taking a queued task off its ready list keeps them chains.
LEMMA ReadyChainsRemove ==
    ASSUME NEW r, IsReady(r), ReadyChains(r), NEW p \in AllPrios, NEW t \in DOMAIN r[p]
    PROVE  ReadyChains(task_remove_from_ready(r, p, t))
<1>1. IsChain(task_list_remove(r[p], t))
  BY ChainRemove, Zenon DEF IsReady, ReadyChains
<1>2. /\ task_remove_from_ready(r, p, t)[p] = task_list_remove(r[p], t)
      /\ \A q \in AllPrios \ {p} : task_remove_from_ready(r, p, t)[q] = r[q]
  BY Zenon DEF IsReady, task_remove_from_ready
<1> QED
  BY <1>1, <1>2, Zenon DEF ReadyChains

-----------------------------------------------------------------------------
(* One lemma per kind of step.                                              *)

\* scheduler_init links every list from its head.
LEMMA InitChains == Init => ListsAreChains
<1> SUFFICES ASSUME Init PROVE ListsAreChains
  BY Zenon
<1> USE SlotFacts
<1>1. IsChain(free_list)
  <2>1. /\ DOMAIN free_list = Slots \ {idle, main}
        /\ \A t \in Slots \ {idle, main} : free_list[t] = main - 1 - t
    BY Zenon DEF Init
  <2>2. Slots \ {idle, main} = 0..(main - 1) /\ main \in Nat
    BY MaxTasksAssumption DEF Slots, idle, main
  <2>3. Cardinality(0..(main - 1)) = main
    BY <2>2, FS_Interval
  <2>4. Cardinality(DOMAIN free_list) = main
    BY <2>1, <2>2, <2>3, Zenon
  <2>5. \A t \in DOMAIN free_list : t \in 0..(main - 1) /\ free_list[t] = main - 1 - t
    BY <2>1, <2>2, Zenon
  <2>6. \A t \in DOMAIN free_list : free_list[t] \in 0..(main - 1)
    BY <2>2, <2>5
  <2>7. \A t, u \in DOMAIN free_list : free_list[t] = free_list[u] => t = u
    BY <2>2, <2>5, SMTT(30)
  <2> QED
    BY <2>4, <2>6, <2>7, Zenon DEF IsChain
<1>2. IsChain(blocked_list)
  BY Zenon DEF Init, IsChain
<1>3. ASSUME NEW p \in AllPrios PROVE IsChain(ready_list[p])
  <2> DEFINE D == IF p = PrioIdle THEN {idle} ELSE {}
  <2>1. DOMAIN ready_list[p] = D /\ \A t \in D : ready_list[p][t] = 0
    BY Zenon DEF Init
  <2>2. Cardinality({idle}) = 1
    BY FS_Singleton, Zenon
  <2>3. CASE p = PrioIdle
    BY <2>1, <2>2, <2>3 DEF IsChain
  <2>4. CASE p # PrioIdle
    BY <2>1, <2>4, Zenon DEF IsChain
  <2> QED
    BY <2>3, <2>4, Zenon
<1> QED
  BY <1>1, <1>2, <1>3, Zenon DEF ListsAreChains

\* A switch from main takes the head of a ready list off it.
LEMMA DispatchChains ==
    ASSUME IInv, ReadyChains(ready_list), Dispatch
    PROVE  ReadyChains(ready_list')
<1>1. IsReady(ready_list)
  BY Zenon DEF IInv, TypeOK, IsReady
<1>2. ASSUME NEW t \in task_get_highest_ready,
             ready_list' = task_remove_from_ready(ready_list, priority[t], t)
      PROVE  ReadyChains(ready_list')
  <2>1. priority[t] \in AllPrios /\ t \in DOMAIN ready_list[priority[t]]
    BY PickedReady, Zenon
  <2> QED
    BY <1>1, <1>2, <2>1, ReadyChainsRemove, Zenon
<1>3. CASE UNCHANGED ready_list
  BY <1>3, Zenon
<1> QED
  BY <1>2, <1>3, Zenon DEF Dispatch

\* The caller is queued, if it stays ready, and the task picked is taken off.
LEMMA SwitchAwayChains ==
    ASSUME IInv, ReadyChains(ready_list), NEW s, NEW ready, IsReady(ready), ReadyChains(ready),
           SwitchAway(current, s, ready),
           \A q \in AllPrios : DOMAIN ready_list[q] \subseteq DOMAIN ready[q]
    PROVE  ReadyChains(ready_list')
<1>1. ASSUME NEW t \in task_get_highest_ready,
             ready_list' = task_remove_from_ready(ready, priority[t], t)
      PROVE  ReadyChains(ready_list')
  <2>1. priority[t] \in AllPrios /\ t \in DOMAIN ready[priority[t]]
    BY PickedReady, Zenon
  <2> QED
    BY <1>1, <2>1, ReadyChainsRemove, Zenon
<1>2. CASE ready_list' = ready
  BY <1>2, Zenon
<1> QED
  BY <1>1, <1>2, Zenon DEF SwitchAway

\* task_yield and task_suspend of the caller keep the lists chains.
LEMMA YieldChains ==
    ASSUME IInv, ListsAreChains, task_yield \/ task_suspend_self
    PROVE  ListsAreChains'
<1>1. /\ IsReady(ready_list) /\ ReadyChains(ready_list)
      /\ current \in Slots /\ priority[current] \in AllPrios
      /\ current \notin DOMAIN ready_list[priority[current]]
  BY Zenon DEF IInv, TypeOK, IsReady, ListsMatchStates, ListsAreChains, ReadyChains
<1>2. CASE task_yield
  <2> DEFINE r == task_add_to_ready(ready_list, priority[current], current)
  <2>1. /\ IsReady(r)
        /\ DOMAIN r[priority[current]] = (DOMAIN ready_list[priority[current]]) \cup {current}
        /\ \A q \in AllPrios \ {priority[current]} : DOMAIN r[q] = DOMAIN ready_list[q]
    BY ONLY <1>1, AddReady
  <2>2. ReadyChains(r)
    BY ONLY <1>1, ReadyChainsAdd, Zenon
  <2>3. SwitchAway(current, "READY", r) /\ UNCHANGED <<free_list, blocked_list>>
    BY <1>2, Zenon DEF task_yield
  <2>4. \A q \in AllPrios : DOMAIN ready_list[q] \subseteq DOMAIN r[q]
    BY <2>1, Zenon
  <2> HIDE DEF r
  <2>5. ReadyChains(ready_list')
    BY <1>1, <2>1, <2>2, <2>3, <2>4, SwitchAwayChains, SMTT(30)
  <2> QED
    BY <2>3, <2>5, Zenon DEF ListsAreChains, ReadyChains
<1>3. CASE task_suspend_self
  <2>1. SwitchAway(current, "SUSPENDED", ready_list) /\ UNCHANGED <<free_list, blocked_list>>
    BY <1>3, Zenon DEF task_suspend_self
  <2>2. ReadyChains(ready_list')
    BY <1>1, <2>1, SwitchAwayChains, Zenon
  <2> QED
    BY <2>1, <2>2, Zenon DEF ListsAreChains, ReadyChains
<1> QED
  BY <1>2, <1>3, Zenon

\* task_sleep puts the running task, which is on no list, on the blocked list.
LEMMA SleepChains ==
    ASSUME IInv, ListsAreChains, NEW n \in SleepTicks, task_sleep(n)
    PROVE  ListsAreChains'
<1>1. /\ IsList(blocked_list) /\ current \in Slots /\ current \notin DOMAIN blocked_list
  BY Zenon DEF IInv, TypeOK, ListsMatchStates
<1>2. IsChain(task_list_add(blocked_list, current))
  BY <1>1, ChainAdd, Zenon DEF ListsAreChains
<1> QED
  BY <1>2, Zenon DEF ListsAreChains, task_sleep

\* task_create moves the head of the free list to a ready list, or puts it back.
LEMMA CreateChains ==
    ASSUME IInv, ListsAreChains, NEW p \in Prios, NEW booted \in BOOLEAN,
           task_create(p, booted)
    PROVE  ListsAreChains'
<1>1. PICK t \in DOMAIN free_list :
        IF booted
        THEN /\ free_list' = task_list_remove(free_list, t)
             /\ ready_list' = task_add_to_ready(ready_list, p, t)
        ELSE /\ free_list' = task_list_add(task_list_remove(free_list, t), t)
             /\ UNCHANGED ready_list
  BY Zenon DEF task_create
<1>2. /\ t \in Slots /\ p \in AllPrios /\ t \notin DOMAIN ready_list[p]
      /\ IsReady(ready_list) /\ ReadyChains(ready_list)
      /\ IsList(free_list) /\ IsChain(free_list)
      /\ IsChain(blocked_list) /\ UNCHANGED blocked_list
  BY SlotFacts, Zenon DEF IInv, TypeOK, ListsMatchStates, IsReady, IsList, ListsAreChains,
                   ReadyChains, task_create
<1> DEFINE f == task_list_remove(free_list, t)
<1>3. IsList(f) /\ IsChain(f) /\ t \notin DOMAIN f
  BY <1>2, RemoveList, ChainRemove, ZenonT(40)
<1>4. CASE booted
  <2>1. ReadyChains(task_add_to_ready(ready_list, p, t))
    BY ONLY <1>2, ReadyChainsAdd, Zenon
  <2> QED
    BY <1>1, <1>2, <1>3, <1>4, <2>1, Zenon DEF ListsAreChains, ReadyChains
<1>5. CASE ~booted
  <2> HIDE DEF f
  <2>1. IsChain(task_list_add(f, t))
    BY <1>2, <1>3, ChainAdd, Zenon
  <2> QED
    BY <1>1, <1>2, <1>5, <2>1, Zenon DEF ListsAreChains, ReadyChains, f
<1> QED
  BY <1>4, <1>5, Zenon

\* The list the state names is the one the task is on, so unlinking keeps chains.
LEMMA LeaveChains ==
    ASSUME IInv, ListsAreChains, NEW t \in Handles, LeaveList(t)
    PROVE  ReadyChains(ready_list') /\ IsChain(blocked_list')
<1>1. /\ t \in Slots /\ t \notin DOMAIN free_list /\ priority[t] \in AllPrios
      /\ IsReady(ready_list) /\ ReadyChains(ready_list)
      /\ IsList(blocked_list) /\ IsChain(blocked_list)
  BY Zenon DEF Handles, IInv, TypeOK, IsReady, ListsAreChains, ReadyChains
<1>2. ReadyChains(ready_list')
  <2>1. CASE state[t] = "READY"
    <3>1. t \in DOMAIN ready_list[priority[t]]
      BY <1>1, <2>1, Zenon DEF IInv, ListsMatchStates
    <3>2. ReadyChains(task_remove_from_ready(ready_list, priority[t], t))
      BY ONLY <1>1, <3>1, ReadyChainsRemove, Zenon
    <3> QED
      BY <2>1, <3>2, Zenon DEF LeaveList
  <2> QED
    BY <1>1, <2>1, Zenon DEF LeaveList
<1>3. IsChain(blocked_list')
  <2>1. CASE state[t] = "BLOCKED"
    <3>1. t \in DOMAIN blocked_list
      BY <1>1, <2>1, Zenon DEF IInv, ListsMatchStates
    <3> QED
      BY <1>1, <2>1, <3>1, ChainRemove, Zenon DEF LeaveList
  <2> QED
    BY <1>1, <2>1, Zenon DEF LeaveList
<1> QED
  BY <1>2, <1>3, Zenon

\* task_delete, task_suspend and task_resume of another task keep the chains.
LEMMA OtherTaskChains ==
    ASSUME IInv, ListsAreChains, NEW t \in Handles,
           task_delete(t) \/ task_suspend(t) \/ task_resume(t)
    PROVE  ListsAreChains'
<1>1. /\ t \in Slots /\ t \notin DOMAIN free_list /\ priority[t] \in AllPrios
      /\ IsReady(ready_list) /\ ReadyChains(ready_list)
      /\ IsList(free_list) /\ IsChain(free_list) /\ IsChain(blocked_list)
  BY Zenon DEF Handles, IInv, TypeOK, IsReady, ListsAreChains, ReadyChains
<1>2. CASE task_delete(t)
  <2>1. LeaveList(t) /\ free_list' = task_list_add(free_list, t)
    BY <1>2, Zenon DEF task_delete
  <2>2. IsChain(free_list')
    BY <1>1, <2>1, ChainAdd, Zenon
  <2> QED
    BY <2>1, <2>2, LeaveChains, Zenon DEF ListsAreChains, ReadyChains
<1>3. CASE task_suspend(t)
  <2>1. LeaveList(t) /\ UNCHANGED free_list
    BY <1>3, Zenon DEF task_suspend
  <2> QED
    BY <1>1, <2>1, LeaveChains, Zenon DEF ListsAreChains, ReadyChains
<1>4. CASE task_resume(t)
  <2>1. t \notin DOMAIN ready_list[priority[t]]
    BY <1>1, <1>4, Zenon DEF IInv, ListsMatchStates, task_resume
  <2>2. ReadyChains(task_add_to_ready(ready_list, priority[t], t))
    BY ONLY <1>1, <2>1, ReadyChainsAdd, Zenon
  <2> QED
    BY <1>1, <1>4, <2>2, Zenon DEF ListsAreChains, ReadyChains, task_resume
<1> QED
  BY <1>2, <1>3, <1>4, Zenon
-----------------------------------------------------------------------------
(* The tick.                                                                *)

\* Those left on a list close up behind the ones taken out, whichever they are.
LEMMA ChainWithout ==
    ASSUME NEW list, IsList(list), IsChain(list), NEW D \in SUBSET (DOMAIN list),
           NEW new,
           new = [x \in (DOMAIN list) \ D |->
                     list[x] - Cardinality({y \in D : list[y] < list[x]})]
    PROVE  IsChain(new)
<1> DEFINE n == Cardinality(DOMAIN list)
           before(x) == {y \in D : list[y] < list[x]}
           behind(x) == {y \in D : list[y] > list[x]}
           between(x, z) == {y \in D : list[x] < list[y] /\ list[y] < list[z]}
<1>1. /\ IsFiniteSet(DOMAIN list) /\ n \in Nat
      /\ IsFiniteSet(D) /\ Cardinality(D) \in Nat
  BY ListFinite, FS_Subset, FS_CardinalityType, Zenon
<1>2. /\ \A x \in DOMAIN list : list[x] \in Int /\ list[x] \in 0..(n - 1)
      /\ \A x, y \in DOMAIN list : list[x] = list[y] => x = y
  BY Zenon DEF IsChain, IsList
<1>3. Cardinality((DOMAIN list) \ D) = n - Cardinality(D)
  <2>1. (DOMAIN list) \cap D = D
    BY Zenon
  <2> QED
    BY <1>1, <2>1, FS_Difference, ZenonT(40)
<1>4. /\ DOMAIN new = (DOMAIN list) \ D
      /\ \A x \in DOMAIN new : new[x] = list[x] - Cardinality(before(x))
  BY Zenon
<1> HIDE DEF n
<1>5. ASSUME NEW x \in DOMAIN list
      PROVE  Cardinality(before(x)) \in Nat /\ Cardinality(before(x)) <= list[x]
  <2>1. /\ 0 \in Int /\ list[x] - 1 \in Int /\ 0 <= (list[x] - 1) + 1
        /\ \A y \in before(x) : list[y] \in 0..(list[x] - 1)
        /\ \A y, z \in before(x) : list[y] = list[z] => y = z
    BY <1>1, <1>2, SMTT(30)
  <2> DEFINE S == before(x)
             hi == list[x] - 1
  <2>2. /\ 0 \in Int /\ hi \in Int /\ 0 <= hi + 1
        /\ \A y \in S : list[y] \in 0..hi
        /\ \A y, z \in S : list[y] = list[z] => y = z
    BY <2>1, Zenon
  <2> HIDE DEF S, hi
  <2>3. Cardinality(S) \in Nat /\ Cardinality(S) <= hi - 0 + 1
    BY <2>2, PositionsFit, Zenon
  <2> QED
    BY <1>2, <2>3, SMTT(30) DEF S, hi
<1>6. ASSUME NEW x \in (DOMAIN list) \ D
      PROVE  Cardinality(D) - Cardinality(before(x)) <= n - 1 - list[x]
  <2>1. D = before(x) \cup behind(x) /\ before(x) \cap behind(x) = {}
    BY <1>2
  <2>2. IsFiniteSet(before(x)) /\ IsFiniteSet(behind(x))
    BY <1>1, FS_Subset, Zenon
  <2>3. Cardinality(D) = Cardinality(before(x)) + Cardinality(behind(x))
    <3> DEFINE A == before(x)
               B == behind(x)
    <3>1. IsFiniteSet(A) /\ IsFiniteSet(B) /\ D = A \cup B /\ A \cap B = {}
      BY <2>1, <2>2, Zenon
    <3>2. Cardinality(A) \in Nat /\ Cardinality(B) \in Nat
      BY <3>1, FS_CardinalityType, Zenon
    <3> HIDE DEF A, B
    <3>3. Cardinality(D) = Cardinality(A) + Cardinality(B)
      BY <3>1, <3>2, FS_Union, FS_EmptySet, SMTT(30)
    <3> QED
      BY <3>3, Zenon DEF A, B
  <2> DEFINE S == behind(x)
             lo == list[x] + 1
             hi == n - 1
  <2>4. /\ lo \in Int /\ hi \in Int /\ lo <= hi + 1
        /\ \A y \in S : list[y] \in lo..hi
        /\ \A y, z \in S : list[y] = list[z] => y = z
    BY <1>1, <1>2
  <2> HIDE DEF S, lo, hi
  <2>5. Cardinality(S) \in Nat /\ Cardinality(S) <= hi - lo + 1
    BY <2>4, PositionsFit, Zenon
  <2>6. Cardinality(before(x)) \in Nat
    BY <1>5, Zenon
  <2> QED
    BY <1>1, <1>2, <2>3, <2>5, <2>6, SMTT(30) DEF S, lo, hi
<1>7. ASSUME NEW x \in (DOMAIN list) \ D, NEW z \in (DOMAIN list) \ D, list[x] < list[z]
      PROVE  Cardinality(before(z)) - Cardinality(before(x)) <= list[z] - list[x] - 1
  <2> DEFINE A == before(x)
             S == between(x, z)
             lo == list[x] + 1
             hi == list[z] - 1
  <2>1. before(z) = A \cup S /\ A \cap S = {}
    BY <1>2, <1>7, SMTT(30)
  <2>2. /\ lo \in Int /\ hi \in Int /\ lo <= hi + 1
        /\ \A y \in S : list[y] \in lo..hi
        /\ \A y, w \in S : list[y] = list[w] => y = w
    BY <1>1, <1>2, <1>7
  <2>3. IsFiniteSet(A) /\ Cardinality(A) \in Nat
    BY <1>1, <1>5, FS_Subset, Zenon
  <2>4. list[x] \in Int /\ list[z] \in Int
    BY <1>2, Zenon
  <2> HIDE DEF A, S, before
  <2>5. /\ IsFiniteSet(S) /\ Cardinality(S) \in Nat /\ Cardinality(S) <= hi - lo + 1
    <3> HIDE DEF lo, hi
    <3> QED
      BY <2>2, PositionsFit, Zenon
  <2>6. Cardinality(before(z)) = Cardinality(A) + Cardinality(S)
    <3>1. Cardinality(A \cup S) = Cardinality(A) + Cardinality(S) - Cardinality(A \cap S)
      BY ONLY <2>3, <2>5, FS_Union, Zenon
    <3>2. Cardinality(A \cap S) = 0
      BY <2>1, FS_EmptySet, Zenon
    <3> QED
      BY ONLY <2>1, <2>3, <2>5, <3>1, <3>2, SMTT(30)
  <2> QED
    BY <2>3, <2>4, <2>5, <2>6, SMTT(30) DEF A
<1> HIDE DEF before
<1>8. \A x \in DOMAIN new : new[x] \in 0..(Cardinality(DOMAIN new) - 1)
  <2> SUFFICES ASSUME NEW x \in DOMAIN new
               PROVE  new[x] \in 0..(Cardinality(DOMAIN new) - 1)
    BY Zenon
  <2>1. /\ x \in (DOMAIN list) \ D /\ list[x] \in Int
        /\ new[x] = list[x] - Cardinality(before(x))
        /\ Cardinality(DOMAIN new) = n - Cardinality(D)
    BY <1>2, <1>3, <1>4, Zenon
  <2>2. /\ Cardinality(before(x)) \in Nat /\ Cardinality(before(x)) <= list[x]
        /\ Cardinality(D) - Cardinality(before(x)) <= n - 1 - list[x]
    BY <1>5, <1>6, <2>1, Zenon
  <2> QED
    BY <1>1, <2>1, <2>2, SMTT(30)
<1>9. ASSUME NEW x \in DOMAIN new, NEW z \in DOMAIN new, list[x] < list[z]
      PROVE  new[x] # new[z]
  <2>1. /\ x \in (DOMAIN list) \ D /\ z \in (DOMAIN list) \ D
        /\ list[x] \in Int /\ list[z] \in Int
        /\ new[x] = list[x] - Cardinality(before(x))
        /\ new[z] = list[z] - Cardinality(before(z))
    BY <1>2, <1>4, Zenon
  <2>2. Cardinality(before(x)) \in Nat /\ Cardinality(before(z)) \in Nat
    BY <1>5, <2>1, Zenon
  <2>3. Cardinality(before(z)) - Cardinality(before(x)) <= list[z] - list[x] - 1
    BY <1>7, <1>9, <2>1, Zenon
  <2> QED
    BY <2>1, <2>2, <2>3
<1>10. \A x, z \in DOMAIN new : new[x] = new[z] => x = z
  <2> SUFFICES ASSUME NEW x \in DOMAIN new, NEW z \in DOMAIN new, new[x] = new[z]
               PROVE  x = z
    BY Zenon
  <2>1. x \in DOMAIN list /\ z \in DOMAIN list /\ list[x] \in Int /\ list[z] \in Int
    BY <1>2, <1>4, Zenon
  <2>2. ~(list[x] < list[z]) /\ ~(list[z] < list[x])
    BY <1>9, Zenon
  <2> QED
    BY <1>2, <2>1, <2>2
<1> QED
  BY <1>8, <1>10, Zenon DEF IsChain

\* The list after the members D of `from` were pushed on it in one walk of `from`.
Pushed(list, from, D) ==
    [x \in (DOMAIN list) \cup D |->
        IF x \in D THEN Cardinality({y \in D : from[y] > from[x]})
        ELSE list[x] + Cardinality(D)]

\* Tasks pushed on a list in one walk, the last one met in front, leave a chain.
LEMMA ChainWith ==
    ASSUME NEW list, IsList(list), IsChain(list), NEW from, IsList(from), IsChain(from),
           NEW D \in SUBSET (DOMAIN from), D \cap DOMAIN list = {},
           NEW new, new = Pushed(list, from, D)
    PROVE  IsChain(new)
<1> DEFINE n == Cardinality(DOMAIN list)
           k == Cardinality(D)
           behind(x) == {y \in D : from[y] > from[x]}
<1>1. /\ IsFiniteSet(DOMAIN list) /\ n \in Nat
      /\ IsFiniteSet(D) /\ k \in Nat
  BY ListFinite, FS_Subset, FS_CardinalityType, Zenon
<1>2. /\ \A x \in DOMAIN list : list[x] \in Int /\ list[x] \in 0..(n - 1)
      /\ \A x, y \in DOMAIN list : list[x] = list[y] => x = y
      /\ \A x \in D : from[x] \in Int
      /\ \A x, y \in D : from[x] = from[y] => x = y
  BY Zenon DEF IsChain, IsList
<1>3. Cardinality((DOMAIN list) \cup D) = n + k
  <2>1. Cardinality((DOMAIN list) \cap D) = 0
    BY FS_EmptySet, Zenon
  <2>2. Cardinality((DOMAIN list) \cup D)
          = Cardinality(DOMAIN list) + Cardinality(D) - Cardinality((DOMAIN list) \cap D)
    BY ONLY <1>1, FS_Union, Zenon
  <2> QED
    BY ONLY <1>1, <2>1, <2>2, SMTT(30)
<1>4. /\ DOMAIN new = (DOMAIN list) \cup D
      /\ \A x \in D : new[x] = Cardinality(behind(x))
      /\ \A x \in DOMAIN list : new[x] = list[x] + k
  BY Zenon DEF Pushed
<1> HIDE DEF n, k
<1>5. ASSUME NEW x \in D
      PROVE  Cardinality(behind(x)) \in Nat /\ Cardinality(behind(x)) <= k - 1
  <2> DEFINE S == behind(x)
  <2>1. S \in SUBSET (D \ {x})
    BY <1>2
  <2> HIDE DEF S
  <2>2. IsFiniteSet(D \ {x}) /\ Cardinality(D \ {x}) = k - 1
    BY <1>1, FS_RemoveElement, Zenon DEF k
  <2>3. IsFiniteSet(S) /\ Cardinality(S) <= Cardinality(D \ {x})
    BY <2>1, <2>2, FS_Subset, Zenon
  <2>4. Cardinality(S) \in Nat
    BY <2>3, FS_CardinalityType, Zenon
  <2> QED
    BY <2>2, <2>3, <2>4, Zenon DEF S
<1>6. ASSUME NEW x \in D, NEW z \in D, from[x] < from[z]
      PROVE  new[x] # new[z]
  <2> DEFINE S == behind(x)
             T == behind(z)
  <2>1. T \in SUBSET S /\ z \in S /\ z \notin T
    BY <1>2, <1>6
  <2>2. IsFiniteSet(S)
    BY <1>1, FS_Subset, Zenon
  <2>3. new[x] = Cardinality(S) /\ new[z] = Cardinality(T)
    BY <1>4, Zenon
  <2> HIDE DEF S, T
  <2>4. Cardinality(S) = Cardinality(T) => S = T
    BY <2>1, <2>2, FS_Subset, Zenon
  <2> QED
    BY <2>1, <2>3, <2>4, Zenon
<1> HIDE DEF behind
<1>7. \A x \in D : new[x] \in 0..(k - 1)
  BY <1>1, <1>4, <1>5, SMTT(30)
<1>8. \A x \in DOMAIN list : new[x] \in k..(n + k - 1)
  BY ONLY <1>1, <1>2, <1>4, SMTT(30)
<1>9. \A x \in DOMAIN new : new[x] \in 0..(Cardinality(DOMAIN new) - 1)
  BY ONLY <1>1, <1>3, <1>4, <1>7, <1>8, SMTT(30)
<1>10. \A x, z \in DOMAIN new : new[x] = new[z] => x = z
  <2> SUFFICES ASSUME NEW x \in DOMAIN new, NEW z \in DOMAIN new, new[x] = new[z]
               PROVE  x = z
    BY Zenon
  <2>1. CASE x \in D /\ z \in D
    <3>1. from[x] \in Int /\ from[z] \in Int
      BY <1>2, <2>1, Zenon
    <3>2. ~(from[x] < from[z]) /\ ~(from[z] < from[x])
      BY <1>6, <2>1, Zenon
    <3> QED
      BY <1>2, <2>1, <3>1, <3>2, SMTT(30)
  <2>2. CASE x \in DOMAIN list /\ z \in DOMAIN list
    BY ONLY <1>1, <1>2, <1>4, <2>2, new[x] = new[z], SMTT(30)
  <2>3. CASE ~(x \in D <=> z \in D)
    BY ONLY <1>1, <1>4, <1>7, <1>8, <2>3, new[x] = new[z], x \in DOMAIN new, z \in DOMAIN new, SMTT(30)
  <2> QED
    BY <1>4, <2>1, <2>2, <2>3, Zenon
<1> QED
  BY <1>9, <1>10, Zenon DEF IsChain

\* scheduler_tick takes the due sleepers out of the blocked list and pushes them
\* on their ready lists, and all of them stay chains.
LEMMA TickChains ==
    ASSUME IInv, ListsAreChains, scheduler_tick
    PROVE  ListsAreChains'
<1> DEFINE D == Due((tick_count + 1) % TickMod)
           due(p) == {t \in D : priority[t] = p}
<1>1. /\ D \in SUBSET (DOMAIN blocked_list)
      /\ IsList(blocked_list) /\ IsChain(blocked_list) /\ IsChain(free_list)
      /\ \A p \in AllPrios : IsList(ready_list[p]) /\ IsChain(ready_list[p])
  BY Zenon DEF Due, IInv, TypeOK, ListsAreChains
<1>2. /\ blocked_list' = [x \in (DOMAIN blocked_list) \ D |->
             blocked_list[x] - Cardinality({y \in D : blocked_list[y] < blocked_list[x]})]
      /\ ready_list' = [p \in AllPrios |->
             [x \in (DOMAIN ready_list[p]) \cup due(p) |->
                IF x \in due(p)
                THEN Cardinality({y \in due(p) : blocked_list[y] > blocked_list[x]})
                ELSE ready_list[p][x] + Cardinality(due(p))]]
      /\ UNCHANGED free_list
  BY Zenon DEF scheduler_tick
<1> HIDE DEF D
<1>3. IsChain(blocked_list')
  BY ONLY <1>1, <1>2, ChainWithout, Zenon
<1>4. ASSUME NEW p \in AllPrios PROVE IsChain(ready_list'[p])
  <2> DEFINE E == due(p)
             list == ready_list[p]
             new == ready_list'[p]
  <2>1. E \in SUBSET (DOMAIN blocked_list) /\ E \cap DOMAIN list = {}
    BY <1>1, Zenon DEF IInv, TypeOK, IsList, ListsMatchStates
  <2>2. new = Pushed(list, blocked_list, E)
    BY <1>2, Zenon DEF Pushed
  <2>3. IsList(list) /\ IsChain(list) /\ IsList(blocked_list) /\ IsChain(blocked_list)
    BY <1>1, Zenon
  <2> HIDE DEF E, list, new
  <2>4. IsChain(new)
    BY ONLY <2>1, <2>2, <2>3, ChainWith, Zenon
  <2> QED
    BY <2>4, Zenon DEF new
<1> QED
  BY <1>1, <1>2, <1>3, <1>4, Zenon DEF ListsAreChains

\* Every step of the scheduler keeps the lists chains.
LEMMA NextChains == IInv /\ ListsAreChains /\ [Next]_vars => ListsAreChains'
<1> SUFFICES ASSUME IInv, ListsAreChains, [Next]_vars PROVE ListsAreChains'
  BY Zenon
<1>1. CASE UNCHANGED lists
  BY <1>1, Zenon DEF ListsAreChains, lists
<1>2. CASE ReadyChains(ready_list') /\ UNCHANGED <<free_list, blocked_list>>
  BY <1>2, Zenon DEF ListsAreChains, ReadyChains
<1>3. ReadyChains(ready_list)
  BY Zenon DEF ListsAreChains, ReadyChains
<1>4. CASE ClientCall
  <2>1. CASE \E on \in BOOLEAN : scheduler_enable_tickless_idle(on)
    BY <1>1, <2>1, Zenon DEF scheduler_enable_tickless_idle
  <2>2. CASE scheduler_exit_idle
    BY <1>1, <2>2, Zenon DEF scheduler_exit_idle
  <2> QED
    BY <1>4, <2>1, <2>2, CreateChains, OtherTaskChains, Zenon DEF ClientCall
<1>5. CASE TaskGivesUp
  <2>1. CASE task_exit
    BY <1>1, <2>1, Zenon DEF task_exit
  <2> QED
    BY <1>5, <2>1, YieldChains, SleepChains, Zenon DEF TaskGivesUp
<1>6. CASE MainCall
  <2>1. CASE scheduler_start \/ scheduler_step \/ MainSleepStep \/ scheduler_enter_idle
    <3>1. /\ Dispatch \/ UNCHANGED ready_list
          /\ UNCHANGED <<free_list, blocked_list>>
      BY <2>1, Zenon DEF scheduler_start, scheduler_step, MainSleepStep, scheduler_enter_idle,
                  JumpToWake, lists
    <3> QED
      BY <1>2, <1>3, <3>1, DispatchChains, Zenon
  <2>2. CASE MainTick \/ MainSleepTest
    <3>1. scheduler_tick \/ UNCHANGED lists
      BY <2>2, Zenon DEF MainTick, MainSleepTest
    <3> QED
      BY <1>1, <3>1, TickChains, Zenon
  <2>3. CASE \/ \E n \in SleepTicks : MainSleep(n)
             \/ scheduler_tickless_idle
             \/ \E n \in JumpTicks : scheduler_enter_deep_sleep(n)
    BY <1>1, <2>3, Zenon DEF MainSleep, scheduler_tickless_idle, scheduler_enter_deep_sleep, JumpToWake
  <2> QED
    BY <1>6, <2>1, <2>2, <2>3, Zenon DEF MainCall
<1>7. CASE UNCHANGED vars
  BY <1>1, <1>7, Zenon DEF vars, lists
<1> QED
  BY <1>4, <1>5, <1>6, <1>7, Zenon DEF Next

\* In every reachable state each task list of the scheduler, the free list
\* included, is one chain from its head through all its members: none is lost,
\* joined to another or closed to a ring (task_list_add, task_list_remove and
\* the walk of scheduler_tick).
THEOREM ListsStayChains == Spec => []ListsAreChains
<1>1. Init => IInv /\ ListsAreChains
  BY InitIInv, InitChains, Zenon
<1>2. IInv /\ ListsAreChains /\ [Next]_vars => IInv' /\ ListsAreChains'
  BY NextIInv, NextChains, Zenon
<1> QED
  BY <1>1, <1>2, PTL DEF Spec

=============================================================================
