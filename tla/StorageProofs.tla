--------------------------- MODULE StorageProofs ----------------------------
(***************************************************************************)
(* Proofs about what the system keeps: the slots of the tasks on the ESP32 *)
(* port, the settings, the time and the image partitions. Each part states *)
(* the invariant of its component (EspInv, ConfigInv, ClockInv, OtaInv),   *)
(* shows that it holds at the start and that every step keeps it, and      *)
(* draws the properties from it.                                           *)
(***************************************************************************)
EXTENDS EspTasks, ConfigStore, ClockService, Ota, ListsProofs

-----------------------------------------------------------------------------
(* The tasks of the ESP32 port.                                            *)

Tcbs == [named : BOOLEAN, state : {"READY", "RUNNING", "SUSPENDED", "TERMINATED"},
         host_fiber : FrtHandles \cup {NoHandle}]
EspOps == {"out", "fill", "spawn", "store", "suspend", "resume", "parked"}
EspCalls == [op : EspOps, slot : EspSlots \cup {NoSlotLeft}, handle : FrtHandles \cup {NoHandle}]

\* A caller between the fill and the store of task_create.
Creating(c) == esp_call[c].op \in {"spawn", "store"}

\* The live task h is the one of its slot, or its creator is about to say so.
Reached(h) ==
    /\ frt_arg[h] \in EspSlots
    /\ slot[frt_arg[h]].named
    /\ \/ slot[frt_arg[h]].host_fiber = h
       \/ \E c \in Callers : /\ esp_call[c].op = "store" /\ esp_call[c].handle = h
                             /\ esp_call[c].slot = frt_arg[h]

EspTypes ==
    /\ slot \in [EspSlots -> Tcbs]
    /\ frt \in [FrtHandles -> {"runs", "suspended", "delayed", "gone"}]
    /\ frt_arg \in [FrtHandles -> EspSlots \cup {NoSlotLeft}]
    /\ esp_call \in [Callers -> EspCalls]

\* While nothing undefined has happened: a slot being filled belongs to one
\* creator, has no handle yet, and no task before the spawn.
EspOwned ==
    /\ \A c \in Callers : esp_call[c].op \notin {"out", "parked"} => esp_call[c].slot \in EspSlots
    /\ \A c \in Callers : Creating(c) =>
         slot[esp_call[c].slot].named /\ slot[esp_call[c].slot].host_fiber = NoHandle
    /\ \A c, d \in Callers : Creating(c) /\ Creating(d) /\ c # d =>
         esp_call[c].slot # esp_call[d].slot
    /\ \A c \in Callers : esp_call[c].op = "store" => esp_call[c].handle \in FrtHandles
    /\ \A c \in Callers, h \in FrtHandles :
         esp_call[c].op = "spawn" /\ Live(h) => frt_arg[h] # esp_call[c].slot
    /\ \A h \in FrtHandles : Live(h) => Reached(h)
    /\ \A g, h \in FrtHandles : Live(g) /\ Live(h) /\ g # h => frt_arg[g] # frt_arg[h]

EspInv == esp_undef \in BOOLEAN /\ (esp_undef \/ (EspTypes /\ EspOwned))

\* scheduler_init: no task, every slot free.
LEMMA EspInitInv == EspInit => EspInv
<1> SUFFICES ASSUME EspInit PROVE EspTypes /\ EspOwned /\ esp_undef = FALSE
  BY Zenon DEF EspInv
<1>1. FreeTcb \in Tcbs /\ Out \in EspCalls
  BY Zenon DEF FreeTcb, Tcbs, Out, EspCalls, EspOps
<1>2. EspTypes
  BY <1>1, Zenon DEF EspInit, EspTypes
<1>3. \A h \in FrtHandles : ~Live(h)
  BY Zenon DEF EspInit, Live
<1>4. \A c \in Callers : esp_call[c].op = "out"
  BY Zenon DEF EspInit, Out
<1> QED
  BY <1>2, <1>3, <1>4, Zenon DEF EspOwned, EspInit, Creating

\* A step that makes no task live, moves no creator and leaves the names and
\* handles of the slots alone.
LEMMA EspQuiet ==
    ASSUME EspOwned, frt_arg' = frt_arg,
           \A i \in EspSlots : slot'[i].named = slot[i].named
                               /\ slot'[i].host_fiber = slot[i].host_fiber,
           \A h \in FrtHandles : Live(h)' => Live(h),
           \A d \in Callers : \/ esp_call'[d] = esp_call[d]
                              \/ /\ ~Creating(d) /\ ~Creating(d)'
                                 /\ esp_call'[d].op \notin {"out", "parked"} =>
                                      esp_call'[d].slot \in EspSlots
    PROVE  EspOwned'
<1>1. \A d \in Callers : Creating(d)' => Creating(d) /\ esp_call'[d] = esp_call[d]
  BY Zenon DEF Creating
<1>2. \A d \in Callers : Creating(d) => esp_call'[d] = esp_call[d]
  BY Zenon DEF Creating
<1>3. ASSUME NEW h \in FrtHandles, Reached(h) PROVE Reached(h)'
  BY <1>2, <1>3 DEF Reached, Creating
<1>4. \A d \in Callers : esp_call'[d].op \notin {"out", "parked"} => esp_call'[d].slot \in EspSlots
  BY Zenon DEF EspOwned
<1>5. \A d \in Callers : Creating(d)' =>
         slot'[esp_call'[d].slot].named /\ slot'[esp_call'[d].slot].host_fiber = NoHandle
  BY <1>1 DEF EspOwned, Creating
<1>6. \A d, e \in Callers : Creating(d)' /\ Creating(e)' /\ d # e =>
         esp_call'[d].slot # esp_call'[e].slot
  BY <1>1 DEF EspOwned
<1>7. \A d \in Callers : esp_call'[d].op = "store" => esp_call'[d].handle \in FrtHandles
  BY <1>1, Zenon DEF EspOwned, Creating
<1>8. \A d \in Callers, h \in FrtHandles :
         esp_call'[d].op = "spawn" /\ Live(h)' => frt_arg'[h] # esp_call'[d].slot
  BY <1>1 DEF EspOwned, Creating
<1>9. \A h \in FrtHandles : Live(h)' => Reached(h)'
  BY <1>3, Zenon DEF EspOwned
<1>10. \A g, h \in FrtHandles : Live(g)' /\ Live(h)' /\ g # h => frt_arg'[g] # frt_arg'[h]
  BY Zenon DEF EspOwned
<1> QED
  BY <1>4, <1>5, <1>6, <1>7, <1>8, <1>9, <1>10, Zenon DEF EspOwned

\* task_create takes a slot.
LEMMA CreateTakes ==
    ASSUME EspTypes, EspOwned, NEW c \in Callers, task_create(c)
    PROVE  EspTypes' /\ EspOwned'
<1> DEFINE i == find_free_slot
<1>1. i \in EspSlots
  <2> DEFINE free == {j \in EspSlots : ~slot[j].named}
  <2>1. free # {} /\ i = First(free)
    BY Zenon DEF task_create, find_free_slot
  <2>2. First(free) \in free
    BY <2>1, FirstIsFirst, EspAssumption, Zenon
  <2> QED
    BY <2>1, <2>2, Zenon
<1> HIDE DEF i
<1>2. /\ esp_call[c].op = "out"
      /\ esp_call' = [esp_call EXCEPT ![c] = [op |-> "fill", slot |-> i, handle |-> NoHandle]]
      /\ UNCHANGED <<slot, frt, frt_arg>>
  BY Zenon DEF task_create, i
<1>3. /\ esp_call' \in [Callers -> EspCalls]
      /\ \A d \in Callers : d # c => esp_call'[d] = esp_call[d]
      /\ esp_call'[c].op = "fill" /\ esp_call'[c].slot = i
  BY <1>1, <1>2, Zenon DEF EspTypes, EspCalls, EspOps
<1>4. EspTypes'
  BY <1>2, <1>3, Zenon DEF EspTypes
<1>5. ~Creating(c) /\ ~Creating(c)'
  BY <1>2, <1>3, Zenon DEF Creating
<1>6. EspOwned'
  BY <1>1, <1>2, <1>3, <1>5, EspQuiet, Zenon DEF Live
<1> QED
  BY <1>4, <1>6, Zenon

\* ... and fills it; if another creator filled it first, the outcome is undefined.
LEMMA CreateFillsIt ==
    ASSUME EspTypes, EspOwned, NEW c \in Callers, CreateFills(c), ~esp_undef'
    PROVE  EspTypes' /\ EspOwned'
<1> DEFINE i == esp_call[c].slot
<1>1. /\ i \in EspSlots /\ esp_call[c].op = "fill" /\ ~slot[i].named
      /\ slot' = [slot EXCEPT ![i] = [named |-> TRUE, state |-> "READY", host_fiber |-> NoHandle]]
      /\ esp_call' = [esp_call EXCEPT ![c].op = "spawn"]
      /\ UNCHANGED <<frt, frt_arg>>
  BY Zenon DEF CreateFills, EspOwned
<1>2. /\ slot' \in [EspSlots -> Tcbs]
      /\ slot'[i].named /\ slot'[i].host_fiber = NoHandle
      /\ \A j \in EspSlots : j # i => slot'[j] = slot[j]
  BY <1>1, Zenon DEF EspTypes, Tcbs
<1>3. /\ esp_call' \in [Callers -> EspCalls]
      /\ \A d \in Callers : d # c => esp_call'[d] = esp_call[d]
      /\ esp_call'[c].op = "spawn" /\ esp_call'[c].slot = i
  BY <1>1, SMTT(30) DEF EspTypes, EspCalls, EspOps
<1> HIDE DEF i
<1>4. \A h \in FrtHandles : Live(h)' <=> Live(h)
  BY <1>1, Zenon DEF Live
<1>5. \A h \in FrtHandles : Live(h) => frt_arg[h] # i
  BY <1>1, Zenon DEF EspOwned, Reached
<1>6. \A d \in Callers : Creating(d)' => d = c \/ (Creating(d) /\ esp_call'[d] = esp_call[d]
                                                   /\ esp_call[d].slot # i)
  BY <1>1, <1>3, Zenon DEF Creating, EspOwned
<1>7. ASSUME NEW h \in FrtHandles, Live(h) PROVE Reached(h)'
  <2>1. Reached(h) /\ frt_arg[h] # i
    BY <1>5, <1>7, Zenon DEF EspOwned
  <2>2. \A d \in Callers : esp_call[d].op = "store" => esp_call'[d] = esp_call[d]
    BY <1>1, <1>3, Zenon
  <2> QED
    BY <1>1, <1>2, <2>1, <2>2, SMTT(30) DEF Reached
<1>8. EspTypes'
  BY <1>1, <1>2, <1>3, Zenon DEF EspTypes
<1>9. \A d \in Callers : esp_call'[d].op \notin {"out", "parked"} => esp_call'[d].slot \in EspSlots
  BY <1>1, <1>3, Zenon DEF EspOwned
<1>10. \A d \in Callers : Creating(d)' =>
         slot'[esp_call'[d].slot].named /\ slot'[esp_call'[d].slot].host_fiber = NoHandle
  BY <1>2, <1>3, <1>6, <1>9, SMTT(30) DEF EspOwned, Creating
<1>11. \A d, e \in Callers : Creating(d)' /\ Creating(e)' /\ d # e =>
         esp_call'[d].slot # esp_call'[e].slot
  BY <1>3, <1>6, SMTT(30) DEF EspOwned
<1>12. \A d \in Callers : esp_call'[d].op = "store" => esp_call'[d].handle \in FrtHandles
  BY <1>3, Zenon DEF EspOwned
<1>13. \A d \in Callers, h \in FrtHandles :
         esp_call'[d].op = "spawn" /\ Live(h)' => frt_arg'[h] # esp_call'[d].slot
  BY <1>1, <1>3, <1>4, <1>5 DEF EspOwned
<1>14. \A g, h \in FrtHandles : Live(g)' /\ Live(h)' /\ g # h => frt_arg'[g] # frt_arg'[h]
  BY <1>1, <1>4, Zenon DEF EspOwned
<1> QED
  BY <1>4, <1>7, <1>8, <1>9, <1>10, <1>11, <1>12, <1>13, <1>14, SMTT(30) DEF EspOwned

\* xTaskCreate makes a task for the filled slot.
LEMMA CreateSpawnsIt ==
    ASSUME EspTypes, EspOwned, NEW c \in Callers, NEW h \in FrtHandles, CreateSpawns(c, h)
    PROVE  EspTypes' /\ EspOwned'
<1> DEFINE i == esp_call[c].slot
<1>1. /\ i \in EspSlots /\ esp_call[c].op = "spawn" /\ ~Live(h)
      /\ frt' = [frt EXCEPT ![h] = "runs"]
      /\ frt_arg' = [frt_arg EXCEPT ![h] = i]
      /\ esp_call' = [esp_call EXCEPT ![c].op = "store", ![c].handle = h]
      /\ UNCHANGED slot
  BY Zenon DEF CreateSpawns, EspOwned
<1>2. /\ frt' \in [FrtHandles -> {"runs", "suspended", "delayed", "gone"}]
      /\ frt_arg' \in [FrtHandles -> EspSlots \cup {NoSlotLeft}]
      /\ frt'[h] = "runs" /\ frt_arg'[h] = i
      /\ \A g \in FrtHandles : g # h => frt'[g] = frt[g] /\ frt_arg'[g] = frt_arg[g]
  BY <1>1, Zenon DEF EspTypes
<1>3. /\ esp_call' \in [Callers -> EspCalls]
      /\ \A d \in Callers : d # c => esp_call'[d] = esp_call[d]
      /\ esp_call'[c].op = "store" /\ esp_call'[c].slot = i /\ esp_call'[c].handle = h
  BY <1>1, Zenon DEF EspTypes, EspCalls, EspOps
<1> HIDE DEF i
<1>4. \A g \in FrtHandles : Live(g)' <=> (Live(g) \/ g = h)
  BY <1>1, <1>2, Zenon DEF Live
<1>5. \A g \in FrtHandles : Live(g) => frt_arg[g] # i /\ g # h
  BY <1>1, Zenon DEF EspOwned, i
<1>6. \A d \in Callers : (Creating(d)' <=> Creating(d)) /\ esp_call'[d].slot = esp_call[d].slot
  BY <1>1, <1>3, Zenon DEF Creating, i
<1>7. ASSUME NEW g \in FrtHandles, Live(g)' PROVE Reached(g)'
  <2>1. CASE g = h
    <3>1. slot[i].named
      BY <1>1, Zenon DEF EspOwned, Creating, i
    <3> QED
      BY <1>1, <1>2, <1>3, <2>1, <3>1, SMTT(30) DEF Reached
  <2>2. CASE g # h
    <3>1. Reached(g) /\ frt_arg'[g] = frt_arg[g]
      BY <1>2, <1>4, <1>7, <2>2, Zenon DEF EspOwned
    <3>2. \A d \in Callers : esp_call[d].op = "store" => esp_call'[d] = esp_call[d]
      BY <1>1, <1>3, Zenon
    <3> QED
      BY <1>1, <3>1, <3>2, Zenon DEF Reached
  <2> QED
    BY <2>1, <2>2, Zenon
<1>8. EspTypes'
  BY <1>1, <1>2, <1>3, Zenon DEF EspTypes
<1>9. \A d \in Callers : esp_call'[d].op \notin {"out", "parked"} => esp_call'[d].slot \in EspSlots
  BY <1>1, <1>3, Zenon DEF EspOwned
<1>10. \A d \in Callers : Creating(d)' =>
         slot'[esp_call'[d].slot].named /\ slot'[esp_call'[d].slot].host_fiber = NoHandle
  BY <1>1, <1>6, ZenonT(40) DEF EspOwned
<1>11. \A d, e \in Callers : Creating(d)' /\ Creating(e)' /\ d # e =>
         esp_call'[d].slot # esp_call'[e].slot
  BY <1>6, SMTT(30) DEF EspOwned
<1>12. \A d \in Callers : esp_call'[d].op = "store" => esp_call'[d].handle \in FrtHandles
  BY <1>3, Zenon DEF EspOwned
<1>13. ASSUME NEW d \in Callers, NEW g \in FrtHandles, esp_call'[d].op = "spawn", Live(g)'
       PROVE  frt_arg'[g] # esp_call'[d].slot
  <2>1. d # c /\ esp_call'[d] = esp_call[d] /\ esp_call[d].op = "spawn"
    BY <1>3, <1>13, Zenon
  <2>2. CASE g = h
    BY <1>1, <1>2, <2>1, <2>2, SMTT(30) DEF EspOwned, Creating, i
  <2>3. CASE g # h
    BY <1>2, <1>4, <1>13, <2>1, <2>3, SMTT(30) DEF EspOwned
  <2> QED
    BY <2>2, <2>3, Zenon
<1>14. \A g, k \in FrtHandles : Live(g)' /\ Live(k)' /\ g # k => frt_arg'[g] # frt_arg'[k]
  BY <1>2, <1>4, <1>5, SMTT(30) DEF EspOwned
<1> QED
  BY <1>7, <1>8, <1>9, <1>10, <1>11, <1>12, <1>13, <1>14, Zenon DEF EspOwned

\* xTaskCreate finds no memory: the slot is free again.
LEMMA CreateFailsIt ==
    ASSUME EspTypes, EspOwned, NEW c \in Callers, CreateFails(c)
    PROVE  EspTypes' /\ EspOwned'
<1> DEFINE i == esp_call[c].slot
<1>1. /\ i \in EspSlots /\ esp_call[c].op = "spawn"
      /\ slot' = [slot EXCEPT ![i].named = FALSE]
      /\ esp_call' = [esp_call EXCEPT ![c] = Out]
      /\ UNCHANGED <<frt, frt_arg>>
  BY Zenon DEF CreateFails, EspOwned
<1>2. /\ slot' \in [EspSlots -> Tcbs]
      /\ \A j \in EspSlots : j # i => slot'[j] = slot[j]
  BY <1>1, ZenonT(40) DEF EspTypes, Tcbs
<1>3. /\ esp_call' \in [Callers -> EspCalls]
      /\ \A d \in Callers : d # c => esp_call'[d] = esp_call[d]
      /\ esp_call'[c].op = "out"
  BY <1>1, Zenon DEF EspTypes, EspCalls, EspOps, Out
<1>4. \A h \in FrtHandles : (Live(h)' <=> Live(h)) /\ (Live(h) => frt_arg[h] # i)
  BY <1>1, Zenon DEF Live, EspOwned
<1> HIDE DEF i
<1>5. \A d \in Callers : Creating(d)' =>
         d # c /\ Creating(d) /\ esp_call'[d] = esp_call[d] /\ esp_call[d].slot # i
  BY <1>1, <1>3, Zenon DEF Creating, EspOwned, i
<1>6. ASSUME NEW h \in FrtHandles, Live(h) PROVE Reached(h)'
  <2>1. Reached(h) /\ frt_arg[h] # i
    BY <1>4, <1>6, Zenon DEF EspOwned
  <2>2. \A d \in Callers : esp_call[d].op = "store" => esp_call'[d] = esp_call[d]
    BY <1>1, <1>3, Zenon
  <2> QED
    BY <1>1, <1>2, <2>1, <2>2 DEF Reached
<1>7. EspTypes'
  BY <1>1, <1>2, <1>3, Zenon DEF EspTypes
<1>8. \A d \in Callers : esp_call'[d].op \notin {"out", "parked"} => esp_call'[d].slot \in EspSlots
  BY <1>3, Zenon DEF EspOwned
<1>9. \A d \in Callers : Creating(d)' =>
         slot'[esp_call'[d].slot].named /\ slot'[esp_call'[d].slot].host_fiber = NoHandle
  BY <1>2, <1>5, SMTT(30) DEF EspOwned, Creating
<1>10. \A d, e \in Callers : Creating(d)' /\ Creating(e)' /\ d # e =>
         esp_call'[d].slot # esp_call'[e].slot
  BY <1>5, SMTT(30) DEF EspOwned
<1>11. \A d \in Callers : esp_call'[d].op = "store" => esp_call'[d].handle \in FrtHandles
  BY <1>3, Zenon DEF EspOwned
<1>12. \A d \in Callers, h \in FrtHandles :
         esp_call'[d].op = "spawn" /\ Live(h)' => frt_arg'[h] # esp_call'[d].slot
  BY <1>1, <1>3, <1>4, SMTT(30) DEF EspOwned
<1>13. \A g, h \in FrtHandles : Live(g)' /\ Live(h)' /\ g # h => frt_arg'[g] # frt_arg'[h]
  BY <1>1, <1>4, Zenon DEF EspOwned
<1> QED
  BY <1>4, <1>6, <1>7, <1>8, <1>9, <1>10, <1>11, <1>12, <1>13, Zenon DEF EspOwned

\* task_create stores the handle in the slot.
LEMMA CreateStoresIt ==
    ASSUME EspTypes, EspOwned, NEW c \in Callers, CreateStores(c)
    PROVE  EspTypes' /\ EspOwned'
<1> DEFINE i == esp_call[c].slot
           k == esp_call[c].handle
<1>1. /\ i \in EspSlots /\ esp_call[c].op = "store" /\ k \in FrtHandles
      /\ slot[i].named /\ slot[i].host_fiber = NoHandle
      /\ slot' = [slot EXCEPT ![i].host_fiber = k]
      /\ esp_call' = [esp_call EXCEPT ![c] = Out]
      /\ UNCHANGED <<frt, frt_arg>>
  BY Zenon DEF CreateStores, EspOwned, Creating
<1>2. /\ slot' \in [EspSlots -> Tcbs]
      /\ slot'[i].named /\ slot'[i].host_fiber = k
      /\ \A j \in EspSlots : j # i => slot'[j] = slot[j]
  BY <1>1, SMTT(30) DEF EspTypes, Tcbs
<1>3. /\ esp_call' \in [Callers -> EspCalls]
      /\ \A d \in Callers : d # c => esp_call'[d] = esp_call[d]
      /\ esp_call'[c].op = "out"
  BY <1>1, Zenon DEF EspTypes, EspCalls, EspOps, Out
<1>4. \A h \in FrtHandles : Live(h)' <=> Live(h)
  BY <1>1, Zenon DEF Live
<1>5. \A d \in Callers : Creating(d) /\ d # c => esp_call[d].slot # i
  BY <1>1, Zenon DEF EspOwned, Creating
<1> HIDE DEF i, k
<1>6. \A d \in Callers : Creating(d)' =>
         d # c /\ Creating(d) /\ esp_call'[d] = esp_call[d] /\ esp_call[d].slot # i
  BY <1>3, <1>5, Zenon DEF Creating
<1>7. ASSUME NEW h \in FrtHandles, Live(h) PROVE Reached(h)'
  <2>1. Reached(h)
    BY <1>7, Zenon DEF EspOwned
  <2>2. CASE frt_arg[h] = i
    <3>1. h # NoHandle
      BY EspAssumption, Zenon
    <3>2. PICK d \in Callers : esp_call[d].op = "store" /\ esp_call[d].handle = h
                               /\ esp_call[d].slot = i
      BY <1>1, <2>1, <2>2, <3>1, Zenon DEF Reached
    <3>3. d = c /\ h = k
      BY <1>5, <3>2, Zenon DEF Creating, k
    <3> QED
      BY <1>1, <1>2, <2>2, <3>3, Zenon DEF Reached
  <2>3. CASE frt_arg[h] # i
    <3>1. \A d \in Callers : esp_call[d].op = "store" /\ esp_call[d].slot # i =>
                             esp_call'[d] = esp_call[d]
      BY <1>3, Zenon DEF i
    <3> QED
      BY <1>1, <1>2, <2>1, <2>3, <3>1, SMTT(30) DEF Reached
  <2> QED
    BY <2>2, <2>3, Zenon
<1>8. EspTypes'
  BY <1>1, <1>2, <1>3, ZenonT(40) DEF EspTypes
<1>9. \A d \in Callers : esp_call'[d].op \notin {"out", "parked"} => esp_call'[d].slot \in EspSlots
  BY <1>3, Zenon DEF EspOwned
<1>10. \A d \in Callers : Creating(d)' =>
         slot'[esp_call'[d].slot].named /\ slot'[esp_call'[d].slot].host_fiber = NoHandle
  BY <1>2, <1>6, SMTT(30) DEF EspOwned, Creating
<1>11. \A d, e \in Callers : Creating(d)' /\ Creating(e)' /\ d # e =>
         esp_call'[d].slot # esp_call'[e].slot
  BY <1>6 DEF EspOwned
<1>12. \A d \in Callers : esp_call'[d].op = "store" => esp_call'[d].handle \in FrtHandles
  BY <1>3, Zenon DEF EspOwned
<1>13. \A d \in Callers, h \in FrtHandles :
         esp_call'[d].op = "spawn" /\ Live(h)' => frt_arg'[h] # esp_call'[d].slot
  BY <1>1, <1>3, <1>4, Zenon DEF EspOwned
<1>14. \A g, h \in FrtHandles : Live(g)' /\ Live(h)' /\ g # h => frt_arg'[g] # frt_arg'[h]
  BY <1>1, <1>4, Zenon DEF EspOwned
<1> QED
  BY <1>4, <1>7, <1>8, <1>9, <1>10, <1>11, <1>12, <1>13, <1>14, Zenon DEF EspOwned

\* task_delete of a task FreeRTOS still has in this slot.
LEMMA DeleteFrees ==
    ASSUME EspTypes, EspOwned, NEW c \in Callers, NEW i \in EspSlots, task_delete(c, i), ~esp_undef'
    PROVE  EspTypes' /\ EspOwned'
<1> DEFINE k == slot[i].host_fiber
<1>1. /\ k # NoHandle /\ Live(k) /\ frt_arg[k] = i
      /\ frt' = [frt EXCEPT ![k] = "gone"]
      /\ slot' = [slot EXCEPT ![i] = FreeTcb]
      /\ UNCHANGED <<frt_arg, esp_call>>
  BY Zenon DEF task_delete, Handled, Owned
<1>2. k \in FrtHandles
  BY <1>1, Zenon DEF EspTypes, Tcbs
<1>3. /\ slot' \in [EspSlots -> Tcbs]
      /\ \A j \in EspSlots : j # i => slot'[j] = slot[j]
  BY <1>1, Zenon DEF EspTypes, Tcbs, FreeTcb
<1> HIDE DEF k
<1>4. /\ frt' \in [FrtHandles -> {"runs", "suspended", "delayed", "gone"}]
      /\ \A h \in FrtHandles : frt'[h] = IF h = k THEN "gone" ELSE frt[h]
  BY <1>1, <1>2, Zenon DEF EspTypes
<1>5. \A h \in FrtHandles : Live(h)' => Live(h) /\ h # k
  BY <1>4, Zenon DEF Live
<1>6. \A h \in FrtHandles : Live(h)' => frt_arg[h] # i
  BY <1>1, <1>2, <1>5, Zenon DEF EspOwned
<1>7. \A d \in Callers : Creating(d) => esp_call[d].slot # i
  BY <1>1, Zenon DEF EspOwned, k
<1>8. ASSUME NEW h \in FrtHandles, Live(h)' PROVE Reached(h)'
  <2>1. Reached(h) /\ frt_arg[h] # i
    BY <1>5, <1>6, <1>8, Zenon DEF EspOwned
  <2> QED
    BY <1>1, <1>3, <2>1, Zenon DEF Reached
<1>9. EspTypes'
  BY <1>1, <1>3, <1>4, Zenon DEF EspTypes
<1>10. \A d \in Callers : Creating(d)' =>
         slot'[esp_call'[d].slot].named /\ slot'[esp_call'[d].slot].host_fiber = NoHandle
  BY <1>1, <1>3, <1>7, Zenon DEF EspOwned, Creating
<1>11. \A d \in Callers : Creating(d)' <=> Creating(d)
  BY <1>1, Zenon DEF Creating
<1> QED
  BY <1>1, <1>5, <1>8, <1>9, <1>10, <1>11, Zenon DEF EspOwned

\* The steps of the tasks themselves, by the trampoline and task_sleep.
LEMMA TaskMoves ==
    ASSUME EspTypes, EspOwned, NEW h \in FrtHandles,
           TaskStarts(h) \/ TaskReturns(h) \/ DeletesItself(h) \/ task_sleep(h)
    PROVE  EspTypes' /\ EspOwned'
<1>1. frt[h] \in {"runs", "delayed"} /\ Live(h)
  BY Zenon DEF TaskStarts, TaskReturns, DeletesItself, task_sleep, Live
<1>2. frt_arg[h] \in EspSlots
  BY <1>1, Zenon DEF EspOwned, Reached
<1>3. UNCHANGED <<frt_arg, esp_call>>
  BY Zenon DEF TaskStarts, TaskReturns, DeletesItself, task_sleep
<1>4. /\ slot' \in [EspSlots -> Tcbs]
      /\ \A j \in EspSlots : slot'[j].named = slot[j].named
                             /\ slot'[j].host_fiber = slot[j].host_fiber
  <2>1. CASE slot' = slot
    BY <2>1, Zenon DEF EspTypes
  <2>2. CASE \E s \in {"RUNNING", "TERMINATED"} : slot' = [slot EXCEPT ![frt_arg[h]].state = s]
    BY <1>2, <2>2 DEF EspTypes, Tcbs
  <2> QED
    BY <2>1, <2>2, Zenon DEF TaskStarts, TaskReturns, DeletesItself, task_sleep
<1>5. /\ frt' \in [FrtHandles -> {"runs", "suspended", "delayed", "gone"}]
      /\ \A g \in FrtHandles : g # h => frt'[g] = frt[g]
  BY Zenon DEF TaskStarts, TaskReturns, DeletesItself, task_sleep, EspTypes
<1>6. \A g \in FrtHandles : Live(g)' => Live(g)
  BY <1>1, <1>5, Zenon DEF Live
<1>7. EspOwned'
  BY <1>3, <1>4, <1>6, EspQuiet, Zenon
<1> QED
  BY <1>3, <1>4, <1>5, <1>7, Zenon DEF EspTypes

\* task_wake, and the first half of task_suspend and task_resume.
LEMMA CallsMove ==
    ASSUME EspTypes, EspOwned, NEW c \in Callers, NEW i \in EspSlots, ~esp_undef',
           task_wake(c, i) \/ task_suspend(c, i) \/ task_resume(c, i)
    PROVE  EspTypes' /\ EspOwned'
<1>1. CASE task_wake(c, i)
  <2> DEFINE k == slot[i].host_fiber
  <2>1. /\ Live(k) /\ k \in FrtHandles /\ UNCHANGED <<slot, frt_arg, esp_call>>
        /\ frt' = [frt EXCEPT ![k] = IF @ = "delayed" THEN "runs" ELSE @]
    BY <1>1, Zenon DEF task_wake, Handled, Owned, EspTypes, Tcbs
  <2> HIDE DEF k
  <2>2. /\ frt' \in [FrtHandles -> {"runs", "suspended", "delayed", "gone"}]
        /\ \A g \in FrtHandles : g # k => frt'[g] = frt[g]
    BY <2>1, Zenon DEF EspTypes
  <2>3. \A g \in FrtHandles : Live(g)' => Live(g)
    BY <2>1, <2>2, Zenon DEF Live
  <2>4. EspOwned'
    BY <2>1, <2>3, EspQuiet, Zenon
  <2> QED
    BY <2>1, <2>2, <2>4, Zenon DEF EspTypes
<1>2. ASSUME NEW op \in {"suspend", "resume"}, NEW s \in {"SUSPENDED", "READY"},
             SetsState(c, i, op, s)
      PROVE  EspTypes' /\ EspOwned'
  <2>1. /\ esp_call[c].op = "out"
        /\ slot' = [slot EXCEPT ![i].state = s]
        /\ esp_call' = [esp_call EXCEPT ![c] = [op |-> op, slot |-> i, handle |-> NoHandle]]
        /\ UNCHANGED <<frt, frt_arg>>
    BY <1>2, Zenon DEF SetsState, Handled
  <2>2. /\ slot' \in [EspSlots -> Tcbs]
        /\ \A j \in EspSlots : slot'[j].named = slot[j].named
                               /\ slot'[j].host_fiber = slot[j].host_fiber
    BY <2>1 DEF EspTypes, Tcbs
  <2>3. /\ esp_call' \in [Callers -> EspCalls]
        /\ \A d \in Callers : d # c => esp_call'[d] = esp_call[d]
        /\ esp_call'[c].op = op /\ esp_call'[c].slot = i
    BY <2>1, Zenon DEF EspTypes, EspCalls, EspOps
  <2>4. ~Creating(c) /\ ~Creating(c)'
    BY <2>1, <2>3, Zenon DEF Creating
  <2>5. EspOwned'
    BY <2>1, <2>2, <2>3, <2>4, EspQuiet, Zenon DEF Live
  <2> QED
    BY <2>1, <2>2, <2>3, <2>5, Zenon DEF EspTypes
<1> QED
  BY <1>1, <1>2, Zenon DEF task_suspend, task_resume

\* The second half of task_suspend and task_resume.
LEMMA TellsMoves ==
    ASSUME EspTypes, EspOwned, NEW c \in Callers, TellsFreeRtos(c), ~esp_undef'
    PROVE  EspTypes' /\ EspOwned'
<1> DEFINE i == esp_call[c].slot
           k == slot[i].host_fiber
<1>1. /\ esp_call[c].op \in {"suspend", "resume"} /\ i \in EspSlots
      /\ UNCHANGED <<slot, frt_arg>> /\ k \in FrtHandles \cup {NoHandle}
  BY Zenon DEF TellsFreeRtos, EspOwned, EspTypes, Tcbs
<1>2. PICK r \in {Out, [Out EXCEPT !.op = "parked"], [Out EXCEPT !.op = "out"]} :
         esp_call' = [esp_call EXCEPT ![c] = r]
  BY Zenon DEF TellsFreeRtos
<1>3. r \in EspCalls /\ r.op \in {"out", "parked"}
  BY <1>2 DEF Out, EspCalls, EspOps
<1>4. /\ esp_call' \in [Callers -> EspCalls]
      /\ \A d \in Callers : d # c => esp_call'[d] = esp_call[d]
      /\ esp_call'[c].op \in {"out", "parked"}
  BY <1>2, <1>3, Zenon DEF EspTypes
<1>5. /\ frt' \in [FrtHandles -> {"runs", "suspended", "delayed", "gone"}]
      /\ \A g \in FrtHandles : Live(g)' => Live(g)
  <2>1. CASE k = NoHandle
    BY <2>1, Zenon DEF TellsFreeRtos, EspTypes, Live
  <2>2. CASE k # NoHandle
    <3>1. Live(k) /\ k \in FrtHandles
      BY <1>1, <2>2, Zenon DEF TellsFreeRtos, Owned
    <3>2. PICK x : /\ frt' = [frt EXCEPT ![k] = x]
                   /\ x \in {"suspended", "runs", frt[k]}
      <4>1. frt' = [frt EXCEPT ![k] = IF esp_call[c].op = "suspend" THEN "suspended"
                                      ELSE IF frt[k] = "suspended" THEN "runs" ELSE frt[k]]
        BY <2>2, Zenon DEF TellsFreeRtos
      <4> QED
        BY <4>1, ZenonT(40)
    <3> HIDE DEF k
    <3>3. x \in {"runs", "suspended", "delayed", "gone"}
      BY <3>1, <3>2, Zenon DEF EspTypes
    <3>4. /\ frt' \in [FrtHandles -> {"runs", "suspended", "delayed", "gone"}]
          /\ \A g \in FrtHandles : g # k => frt'[g] = frt[g]
      BY <3>1, <3>2, <3>3, Zenon DEF EspTypes
    <3> QED
      BY <3>1, <3>4, Zenon DEF Live
  <2> QED
    BY <2>1, <2>2, Zenon
<1>6. ~Creating(c) /\ ~Creating(c)'
  BY <1>1, <1>4, Zenon DEF Creating
<1>7. EspOwned'
  BY <1>1, <1>4, <1>5, <1>6, EspQuiet, Zenon
<1> QED
  BY <1>1, <1>4, <1>5, <1>7, Zenon DEF EspTypes

\* Once something undefined has happened it stays so.
LEMMA UndefStays ==
    ASSUME EspInv, [EspNext]_espVars
    PROVE  esp_undef' \in BOOLEAN /\ (esp_undef => esp_undef')
<1>1. CASE esp_undef' = esp_undef
  BY <1>1, Zenon DEF EspInv
<1>2. CASE \E b \in BOOLEAN : esp_undef' = (esp_undef \/ b)
  BY <1>2, Zenon DEF EspInv
<1> QED
  BY <1>1, <1>2, Zenon DEF EspNext, espVars, EspInv, task_create, CreateFills, CreateFails, CreateStores,
     TellsFreeRtos, CreateSpawns, TaskStarts, TaskReturns, DeletesItself, task_sleep, task_delete,
     task_wake, task_suspend, task_resume, SetsState

\* Every FreeRTOS task keeps a slot of its own, named and holding its handle
\* (task_create, task_delete, task_suspend, task_resume, esp32_task_trampoline).
THEOREM SlotsKeepTheirTasks == EspSpec => []SlotsFollowTasks
<1>1. EspInit => EspInv
  BY EspInitInv, Zenon
<1>2. EspInv /\ [EspNext]_espVars => EspInv'
  <2> SUFFICES ASSUME EspInv, [EspNext]_espVars PROVE EspInv'
    BY Zenon
  <2>1. esp_undef' \in BOOLEAN /\ (esp_undef => esp_undef')
    BY UndefStays, Zenon
  <2>2. CASE esp_undef'
    BY <2>1, <2>2, Zenon DEF EspInv
  <2>3. CASE ~esp_undef'
    <3>1. EspTypes /\ EspOwned
      BY <2>1, <2>3, Zenon DEF EspInv
    <3>2. ASSUME EspNext PROVE EspTypes' /\ EspOwned'
      <4>1. CASE \E c \in Callers : \/ task_create(c) \/ CreateFills(c) \/ CreateFails(c)
                                    \/ CreateStores(c) \/ TellsFreeRtos(c)
        BY <2>3, <3>1, <4>1, CreateTakes, CreateFillsIt, CreateFailsIt, CreateStoresIt, TellsMoves, Zenon
      <4>2. CASE \E c \in Callers, h \in FrtHandles : CreateSpawns(c, h)
        BY <3>1, <4>2, CreateSpawnsIt, Zenon
      <4>3. CASE \E h \in FrtHandles :
                   TaskStarts(h) \/ TaskReturns(h) \/ DeletesItself(h) \/ task_sleep(h)
        BY <3>1, <4>3, TaskMoves, Zenon
      <4>4. CASE \E c \in Callers, i \in EspSlots :
                   task_delete(c, i) \/ task_wake(c, i) \/ task_suspend(c, i) \/ task_resume(c, i)
        BY <2>3, <3>1, <4>4, DeleteFrees, CallsMove, ZenonT(40)
      <4> QED
        BY <3>2, <4>1, <4>2, <4>3, <4>4, Zenon DEF EspNext
    <3>3. ASSUME UNCHANGED espVars PROVE EspTypes' /\ EspOwned'
      <4>1. UNCHANGED <<slot, frt, frt_arg, esp_call>>
        BY <3>3, Zenon DEF espVars
      <4>2. EspTypes'
        BY <3>1, <4>1, Zenon DEF EspTypes
      <4>3. EspOwned'
        BY <3>1, <4>1, EspQuiet, Zenon DEF Live
      <4> QED BY <4>2, <4>3, Zenon
    <3> QED
      BY <2>1, <3>2, <3>3, Zenon DEF EspInv
  <2> QED
    BY <2>2, <2>3, Zenon
<1>3. EspInv => SlotsFollowTasks
  BY Zenon DEF EspInv, EspOwned, Reached, SlotsFollowTasks
<1> QED
  BY <1>1, <1>2, <1>3, PTL DEF EspSpec

-----------------------------------------------------------------------------
(* The settings.                                                           *)

EntryRecord == [key_hash : Nat, type : Types, offset : Nat, size : Nat]

Apart(e, f) == e.offset + e.size <= f.offset \/ f.offset + f.size <= e.offset

\* The entries of a table: each has a hash of its own and a place of its own in
\* the data.
Laid(es, data) ==
    /\ es \in Seq(EntryRecord) /\ data \in Seq(Cells)
    /\ \A i \in 1..Len(es) : es[i].offset + es[i].size <= Len(data)
    /\ \A i, j \in 1..Len(es) : i # j => (es[i].key_hash # es[j].key_hash /\ Apart(es[i], es[j]))

\* n cells of the data.
Place(data, o, n) == SubSeq(data, o + 1, o + n)

Value(e, data) == [type |-> e.type, cells |-> SubSeq(data, e.offset + 1, e.offset + e.size)]

\* v is what a table holds for a hash.
Reads(es, data, h, v) ==
    \/ \E i \in 1..Len(es) : es[i].key_hash = h /\ v = Value(es[i], data)
    \/ (\A i \in 1..Len(es) : es[i].key_hash # h) /\ v = None

\* The table holds the last value of every key with a hash of its own.
Shows(es, data, last) ==
    \A k \in Keys : OwnHash(k) => Reads(es, data, hash_key(k), last[k])

\* The entry config_find_entry finds, and the value of it.
LEMMA GetReads ==
    ASSUME NEW s, Laid(s.entries, s.data), NEW k \in Keys
    PROVE  /\ \/ /\ config_find_entry(s, k) \in 1..Len(s.entries)
                 /\ s.entries[config_find_entry(s, k)].key_hash = hash_key(k)
              \/ /\ config_find_entry(s, k) = 0
                 /\ \A i \in 1..Len(s.entries) : s.entries[i].key_hash # hash_key(k)
           /\ \A v : Reads(s.entries, s.data, hash_key(k), v) => config_get(s, k) = v
<1> DEFINE es == s.entries
           h == hash_key(k)
           f == config_find_entry(s, k)
           hits == {i \in DOMAIN es : es[i].key_hash = h}
<1>1. /\ es \in Seq(EntryRecord) /\ DOMAIN es = 1..Len(es) /\ Len(es) \in Nat
      /\ \A i, j \in 1..Len(es) : i # j => es[i].key_hash # es[j].key_hash
  BY LenProperties, Zenon DEF Laid
<1>2. f = IF hits = {} THEN 0 ELSE First(hits)
  BY Zenon DEF config_find_entry
<1>3. hits \subseteq Nat
  BY <1>1
<1>4. hits # {} => First(hits) \in hits
  BY <1>3, FirstIsFirst, Zenon
<1>5. config_get(s, k) = IF f = 0 THEN None ELSE Value(es[f], s.data)
  BY Zenon DEF config_get, Value
<1>6. \A i \in hits : i \in 1..Len(es) /\ i # 0 /\ es[i].key_hash = h
  BY <1>1
<1>7. \A i \in 1..Len(es) : es[i].key_hash = h => i \in hits
  BY <1>1, Zenon
<1> HIDE DEF hits, f
<1>8. CASE hits = {}
  <2>1. f = 0 /\ \A i \in 1..Len(es) : es[i].key_hash # h
    BY <1>2, <1>7, <1>8, Zenon
  <2>2. \A v : Reads(es, s.data, h, v) => config_get(s, k) = v
    BY <1>5, <2>1, Zenon DEF Reads
  <2> QED
    BY <2>1, <2>2, Zenon DEF f
<1>9. CASE hits # {}
  <2>1. f \in 1..Len(es) /\ f # 0 /\ es[f].key_hash = h
    BY <1>2, <1>4, <1>6, <1>9, Zenon
  <2>2. \A v : Reads(es, s.data, h, v) => config_get(s, k) = v
    BY <1>1, <1>5, <2>1, Zenon DEF Reads
  <2> QED
    BY <2>1, <2>2, Zenon DEF f
<1> QED
  BY <1>8, <1>9, Zenon

\* Without one of its entries a table holds nothing for its hash, and for the
\* others what it held.
LEMMA RemovedReads ==
    ASSUME NEW es, NEW data, Laid(es, data), NEW m \in 1..Len(es)
    PROVE  /\ Laid(Without(es, m), data) /\ Len(Without(es, m)) = Len(es) - 1
           /\ \A i \in 1..(Len(es) - 1) : Without(es, m)[i].key_hash # es[m].key_hash
           /\ \A h, v : (h # es[m].key_hash /\ Reads(es, data, h, v)) => Reads(Without(es, m), data, h, v)
<1> DEFINE n == Without(es, m)
           From(i) == IF i < m THEN i ELSE i + 1
<1>1. es \in Seq(EntryRecord) /\ data \in Seq(Cells) /\ Len(es) \in Nat
  BY DEF Laid
<1>2. /\ n \in Seq(EntryRecord) /\ Len(n) = Len(es) - 1
      /\ \A i \in 1..(Len(es) - 1) : n[i] = IF i < m THEN es[i] ELSE es[i + 1]
  BY <1>1, RemovedAt, Zenon
<1> HIDE DEF n
<1>3. \A i \in 1..(Len(es) - 1) : n[i] = es[From(i)] /\ From(i) \in 1..Len(es) /\ From(i) # m
  BY <1>1, <1>2, SMTT(30)
<1>4. \A i, j \in 1..(Len(es) - 1) : i # j => From(i) # From(j)
  BY <1>1
<1>5. \A i \in 1..Len(es) : i # m => \E j \in 1..(Len(es) - 1) : From(j) = i
  <2>1. ASSUME NEW i \in 1..Len(es), i # m
        PROVE  \E j \in 1..(Len(es) - 1) : From(j) = i
    <3>1. CASE i < m
      <4>1. i \in 1..(Len(es) - 1) /\ From(i) = i
        BY <1>1, <3>1
      <4> QED
        BY <4>1, Zenon
    <3>2. CASE ~(i < m)
      <4>1. i - 1 \in 1..(Len(es) - 1) /\ From(i - 1) = i
        BY <1>1, <2>1, <3>2
      <4> QED
        BY <4>1, Zenon
    <3> QED
      BY <3>1, <3>2, Zenon
  <2> QED
    BY <2>1, Zenon
<1> HIDE DEF From
<1>6. Laid(n, data)
  <2>1. \A i \in 1..Len(n) : n[i].offset + n[i].size <= Len(data)
    BY <1>2, <1>3, Zenon DEF Laid
  <2>2. \A i, j \in 1..Len(n) : i # j => (n[i].key_hash # n[j].key_hash /\ Apart(n[i], n[j]))
    <3>1. ASSUME NEW i \in 1..Len(n), NEW j \in 1..Len(n), i # j
          PROVE  n[i].key_hash # n[j].key_hash /\ Apart(n[i], n[j])
      <4>1. /\ n[i] = es[From(i)] /\ From(i) \in 1..Len(es)
            /\ n[j] = es[From(j)] /\ From(j) \in 1..Len(es) /\ From(i) # From(j)
        <5>1. i \in 1..(Len(es) - 1) /\ j \in 1..(Len(es) - 1)
          BY <1>2, Zenon
        <5> QED
          BY <1>3, <1>4, <3>1, <5>1, Zenon
      <4>2. es[From(i)].key_hash # es[From(j)].key_hash /\ Apart(es[From(i)], es[From(j)])
        <5> DEFINE x == From(i)
                   y == From(j)
        <5>1. x \in 1..Len(es) /\ y \in 1..Len(es) /\ x # y
          BY <4>1, Zenon
        <5> HIDE DEF x, y
        <5>2. es[x].key_hash # es[y].key_hash /\ Apart(es[x], es[y])
          BY <5>1, Zenon DEF Laid
        <5> QED
          BY <5>2, Zenon DEF x, y
      <4> QED
        BY <4>1, <4>2
    <3> QED
      BY <3>1, Zenon
  <2> QED
    BY <1>1, <1>2, <2>1, <2>2, Zenon DEF Laid
<1>7. \A i \in 1..(Len(es) - 1) : n[i].key_hash # es[m].key_hash
  BY <1>3, SMTT(30) DEF Laid
<1>8. ASSUME NEW h, NEW v, h # es[m].key_hash, Reads(es, data, h, v)
      PROVE  Reads(n, data, h, v)
  <2>1. CASE \E i \in 1..Len(es) : es[i].key_hash = h /\ v = Value(es[i], data)
    <3>1. PICK i \in 1..Len(es) : es[i].key_hash = h /\ v = Value(es[i], data)
      BY <2>1, Zenon
    <3>2. PICK j \in 1..(Len(es) - 1) : From(j) = i
      BY <1>5, <1>8, <3>1, Zenon
    <3>3. n[j].key_hash = h /\ v = Value(n[j], data)
      BY <1>3, <3>1, <3>2, Zenon
    <3> QED
      BY <1>2, <3>3, Zenon DEF Reads
  <2>2. CASE (\A i \in 1..Len(es) : es[i].key_hash # h) /\ v = None
    BY <1>2, <1>3, <2>2, Zenon DEF Reads
  <2> QED
    BY <1>8, <2>1, <2>2, Zenon DEF Reads
<1> QED
  BY <1>2, <1>6, <1>7, <1>8, Zenon DEF n

\* The cells of a place.
LEMMA CellsOfPlace ==
    ASSUME NEW S, NEW d \in Seq(S), NEW o \in Nat, NEW n \in Nat, o + n <= Len(d)
    PROVE  /\ SubSeq(d, o + 1, o + n) \in Seq(S) /\ Len(SubSeq(d, o + 1, o + n)) = n
           /\ \A i \in 1..n : SubSeq(d, o + 1, o + n)[i] = d[o + i]
<1> DEFINE a == o + 1
           b == o + n
           r == SubSeq(d, a, b)
<1>1. Len(d) \in Nat /\ a \in Int /\ b \in Int
  BY LenProperties
<1>2. \A i \in a..b : d[i] \in S
  BY <1>1, ElementOfSeq
<1>3. b - a + 1 = n /\ (a <= b <=> n # 0)
  OBVIOUS
<1>4. \A i \in 1..n : a + i - 1 = o + i
  OBVIOUS
<1> HIDE DEF a, b
<1>5. /\ r \in Seq(S) /\ Len(r) = IF a <= b THEN b - a + 1 ELSE 0
      /\ \A i \in 1..(b - a + 1) : r[i] = d[a + i - 1]
  BY <1>1, <1>2, SubSeqProperties
<1> HIDE DEF r
<1>6. Len(r) = n
  BY <1>3, <1>5, Zenon
<1>7. \A i \in 1..n : r[i] = d[o + i]
  BY <1>3, <1>4, <1>5, Zenon
<1> QED
  BY <1>5, <1>6, <1>7, Zenon DEF r, a, b

\* Written over a place of the data, cells are read there and nowhere else.
LEMMA WrittenReads ==
    ASSUME NEW data \in Seq(Cells), NEW cells \in Seq(Cells), NEW offset \in Nat,
           offset + Len(cells) <= Len(data)
    PROVE  LET d == Written(data, offset, cells)
           IN  /\ d \in Seq(Cells) /\ Len(d) = Len(data)
               /\ SubSeq(d, offset + 1, offset + Len(cells)) = cells
               /\ \A i \in 1..Len(data) :
                    i \notin (offset + 1)..(offset + Len(cells)) => d[i] = data[i]
<1> DEFINE d == Written(data, offset, cells)
           N == Len(data)
           C == Len(cells)
<1>1. N \in Nat /\ C \in Nat /\ offset + C <= N
  BY LenProperties, Zenon
<1>2. d = [i \in 1..N |-> IF i \in (offset + 1)..(offset + C) THEN cells[i - offset] ELSE data[i]]
  BY Zenon DEF Written
<1>3. \A i \in 1..N : (IF i \in (offset + 1)..(offset + C) THEN cells[i - offset] ELSE data[i]) \in Cells
  <2>1. ASSUME NEW i \in 1..N
        PROVE  (IF i \in (offset + 1)..(offset + C) THEN cells[i - offset] ELSE data[i]) \in Cells
    <3>1. data[i] \in Cells
      BY ElementOfSeq, Zenon
    <3>2. i \in (offset + 1)..(offset + C) => cells[i - offset] \in Cells
      BY <1>1, ElementOfSeq
    <3> QED
      BY <3>1, <3>2, Zenon
  <2> QED
    BY <2>1, Zenon
<1>4. /\ \A i \in 1..N : d[i] \in Cells
      /\ \A i \in 1..N : i \in (offset + 1)..(offset + C) => d[i] = cells[i - offset]
      /\ \A i \in 1..N : i \notin (offset + 1)..(offset + C) => d[i] = data[i]
  BY <1>2, <1>3, Zenon
<1>5. d \in [1..N -> Cells]
  BY <1>2, <1>3, Zenon
<1>6. d \in Seq(Cells) /\ Len(d) = N
  BY <1>1, <1>5, SMTT(30)
<1> HIDE DEF d, N, C
<1>7. SubSeq(d, offset + 1, offset + C) = cells
  <2> DEFINE r == SubSeq(d, offset + 1, offset + C)
  <2>1. \A i \in (offset + 1)..(offset + C) : d[i] \in Cells
    BY <1>1, <1>4
  <2>2. /\ r \in Seq(Cells) /\ Len(r) = C
        /\ \A i \in 1..C : r[i] = d[offset + i]
    BY <1>1, <1>6, CellsOfPlace, ZenonT(40)
  <2>3. ASSUME NEW i \in 1..C
        PROVE  d[offset + i] = cells[i]
    <3>1. offset + i \in 1..N /\ offset + i \in (offset + 1)..(offset + C) /\ (offset + i) - offset = i
      BY <1>1
    <3> QED
      BY <1>4, <3>1, Zenon
  <2> HIDE DEF r
  <2>4. \A i \in 1..C : r[i] = cells[i]
    BY <2>2, <2>3, Zenon
  <2>5. r = cells
    BY <2>2, <2>4, SeqEqual, Zenon DEF C
  <2> QED
    BY <2>5, Zenon DEF r
<1> QED
  BY <1>4, <1>6, <1>7, Zenon DEF d, N, C

\* Nothing else is written.
LEMMA WrittenElsewhere ==
    ASSUME NEW data \in Seq(Cells), NEW cells \in Seq(Cells), NEW offset \in Nat,
           offset + Len(cells) <= Len(data),
           NEW o \in Nat, NEW n \in Nat, o + n <= Len(data),
           o + n <= offset \/ offset + Len(cells) <= o
    PROVE  Place(Written(data, offset, cells), o, n) = Place(data, o, n)
<1> DEFINE d == Written(data, offset, cells)
           r == SubSeq(d, o + 1, o + n)
           q == SubSeq(data, o + 1, o + n)
<1>1. Len(data) \in Nat /\ Len(cells) \in Nat
  BY LenProperties, Zenon
<1>2. /\ d \in Seq(Cells) /\ Len(d) = Len(data)
      /\ \A i \in 1..Len(data) :
           i \notin (offset + 1)..(offset + Len(cells)) => d[i] = data[i]
  BY WrittenReads
<1> HIDE DEF d
<1>3. /\ r \in Seq(Cells) /\ Len(r) = n
      /\ \A i \in 1..n : r[i] = d[o + i]
  BY <1>2, CellsOfPlace
<1>4. /\ q \in Seq(Cells) /\ Len(q) = n
      /\ \A i \in 1..n : q[i] = data[o + i]
  BY CellsOfPlace
<1>5. ASSUME NEW i \in 1..n
      PROVE  d[o + i] = data[o + i]
  <2>1. o + i \in 1..Len(data) /\ o + i \notin (offset + 1)..(offset + Len(cells))
    BY <1>1
  <2> QED
    BY <1>2, <2>1, Zenon
<1> HIDE DEF r, q
<1>6. \A i \in 1..n : r[i] = q[i]
  BY <1>3, <1>4, <1>5, Zenon
<1>7. r = q
  BY <1>3, <1>4, <1>6, SeqEqual, Zenon
<1> QED
  BY <1>7, Zenon DEF r, q, d, Place

\* Put behind the data, cells are read there, and what was there is.
LEMMA AppendedReads ==
    ASSUME NEW data \in Seq(Cells), NEW cells \in Seq(Cells)
    PROVE  LET d == data \o cells
           IN  /\ d \in Seq(Cells) /\ Len(d) = Len(data) + Len(cells)
               /\ SubSeq(d, Len(data) + 1, Len(data) + Len(cells)) = cells
               /\ \A o, n \in Nat : o + n <= Len(data)
                      => SubSeq(d, o + 1, o + n) = SubSeq(data, o + 1, o + n)
<1> DEFINE d == data \o cells
           N == Len(data)
           C == Len(cells)
<1>1. N \in Nat /\ C \in Nat
  BY LenProperties, Zenon
<1>2. /\ d \in Seq(Cells) /\ Len(d) = N + C
      /\ \A i \in 1..(N + C) : d[i] = IF i <= N THEN data[i] ELSE cells[i - N]
  BY ConcatProperties, Zenon
<1>3. \A i \in 1..(N + C) : d[i] \in Cells
  BY <1>2, ElementOfSeq, Zenon
<1>4. \A i \in 1..N : data[i] \in Cells
  BY ElementOfSeq, Zenon
<1> HIDE DEF d, N, C
<1>5. SubSeq(d, N + 1, N + C) = cells
  <2> DEFINE r == SubSeq(d, N + 1, N + C)
  <2>1. \A i \in (N + 1)..(N + C) : d[i] \in Cells
    BY <1>1, <1>3
  <2>2. /\ r \in Seq(Cells) /\ Len(r) = C
        /\ \A i \in 1..C : r[i] = d[N + i]
    BY <1>1, <2>1, SubSeqProperties
  <2>3. \A i \in 1..C : d[N + i] = cells[i]
    BY <1>1, <1>2
  <2> HIDE DEF r
  <2>4. \A i \in 1..C : r[i] = cells[i]
    BY <2>2, <2>3, Zenon
  <2>5. r = cells
    BY <2>2, <2>4, SeqEqual, Zenon DEF C
  <2> QED
    BY <2>5, Zenon DEF r
<1>6. ASSUME NEW o \in Nat, NEW n \in Nat, o + n <= N
      PROVE  SubSeq(d, o + 1, o + n) = SubSeq(data, o + 1, o + n)
  <2> DEFINE r == SubSeq(d, o + 1, o + n)
             q == SubSeq(data, o + 1, o + n)
  <2>1. \A i \in (o + 1)..(o + n) : i \in 1..(N + C) /\ i \in 1..N
    BY <1>1, <1>6
  <2>2. /\ r \in Seq(Cells) /\ Len(r) = n
        /\ \A i \in 1..n : r[i] = d[o + i]
    BY <1>3, <2>1, SubSeqProperties
  <2>3. /\ q \in Seq(Cells) /\ Len(q) = n
        /\ \A i \in 1..n : q[i] = data[o + i]
    BY <1>4, <2>1, SubSeqProperties
  <2>4. \A i \in 1..n : d[o + i] = data[o + i]
    BY <1>1, <1>2, <1>6
  <2> HIDE DEF r, q
  <2>5. \A i \in 1..n : r[i] = q[i]
    BY <2>2, <2>3, <2>4, Zenon
  <2>6. r = q
    BY <2>2, <2>3, <2>5, SeqEqual, Zenon
  <2> QED
    BY <2>6, Zenon DEF r, q
<1> QED
  BY <1>2, <1>5, <1>6, Zenon DEF d, N, C

\* A value written over the place of a longer one.
LEMMA OverwrittenTable ==
    ASSUME NEW es, NEW data, Laid(es, data), NEW m \in 1..Len(es), NEW v \in Values,
           Len(v.cells) <= es[m].size,
           NEW n \in Seq(EntryRecord), Len(n) = Len(es),
           \A i \in 1..Len(es) : i # m => n[i] = es[i],
           n[m].key_hash = es[m].key_hash, n[m].offset = es[m].offset,
           n[m].size = Len(v.cells), n[m].type = v.type
    PROVE  LET d == Written(data, es[m].offset, v.cells)
           IN  /\ Laid(n, d) /\ Reads(n, d, es[m].key_hash, v)
               /\ \A h, w : (h # es[m].key_hash /\ Reads(es, data, h, w)) => Reads(n, d, h, w)
<1> DEFINE o == es[m].offset
           c == v.cells
           d == Written(data, o, c)
<1>1. /\ es \in Seq(EntryRecord) /\ data \in Seq(Cells) /\ Len(es) \in Nat /\ Len(data) \in Nat
      /\ \A i \in 1..Len(es) : es[i].offset + es[i].size <= Len(data)
      /\ \A i, j \in 1..Len(es) : i # j => (es[i].key_hash # es[j].key_hash /\ Apart(es[i], es[j]))
  <2>1. /\ es \in Seq(EntryRecord) /\ data \in Seq(Cells)
        /\ \A i \in 1..Len(es) : es[i].offset + es[i].size <= Len(data)
        /\ \A i, j \in 1..Len(es) : i # j => (es[i].key_hash # es[j].key_hash /\ Apart(es[i], es[j]))
    BY Zenon DEF Laid
  <2>2. Len(es) \in Nat /\ Len(data) \in Nat
    BY ONLY <2>1
  <2> QED BY <2>1, <2>2, Zenon
<1>2. \A i \in 1..Len(es) : es[i] \in EntryRecord /\ n[i] \in EntryRecord
  BY <1>1
<1>3. c \in Seq(Cells) /\ v = [type |-> v.type, cells |-> c] /\ Len(c) \in Nat
  BY ConfigAssumption
<1>4. o \in Nat /\ es[m].size \in Nat /\ o + Len(c) <= Len(data) /\ o + es[m].size <= Len(data)
  BY <1>1, <1>2, <1>3 DEF EntryRecord
<1>5. d \in Seq(Cells) /\ Len(d) = Len(data) /\ SubSeq(d, o + 1, o + Len(c)) = c
  <2>1. data \in Seq(Cells) /\ c \in Seq(Cells) /\ o \in Nat /\ o + Len(c) <= Len(data)
    BY <1>1, <1>3, <1>4, Zenon
  <2> HIDE DEF o, c
  <2>2. d \in Seq(Cells) /\ Len(d) = Len(data)
    BY ONLY <2>1, WrittenReads, Zenon DEF d
  <2>3. SubSeq(d, o + 1, o + Len(c)) = c
    BY ONLY <2>1, WrittenReads, Zenon DEF d
  <2> QED
    BY <2>2, <2>3, Zenon
<1> HIDE DEF d
<1>6. \A i \in 1..Len(es) : n[i].key_hash = es[i].key_hash /\ n[i].offset = es[i].offset
  BY Zenon
<1>7. ASSUME NEW i \in 1..Len(es)
      PROVE  n[i].size <= es[i].size /\ n[i].size \in Nat /\ es[i].size \in Nat /\ es[i].offset \in Nat
  <2>1. n[i].size \in Nat /\ es[i].size \in Nat /\ es[i].offset \in Nat
    BY <1>2, Zenon DEF EntryRecord
  <2>2. n[i] = es[i] \/ i = m
    BY Zenon
  <2> QED
    BY <2>1, <2>2
<1>8. ASSUME NEW i \in 1..Len(n)
      PROVE  n[i].offset + n[i].size <= Len(d)
  <2>1. /\ n[i].offset = es[i].offset /\ es[i].offset + es[i].size <= Len(data)
        /\ n[i].size <= es[i].size
    BY <1>1, <1>6, <1>7, Zenon
  <2>2. n[i].size \in Nat /\ es[i].size \in Nat /\ es[i].offset \in Nat
    BY <1>7, Zenon
  <2> QED
    BY <1>1, <1>5, <2>1, <2>2, SMTT(30)
<1>9. ASSUME NEW i \in 1..Len(n), NEW j \in 1..Len(n), i # j
      PROVE  n[i].key_hash # n[j].key_hash /\ Apart(n[i], n[j])
  <2>1. es[i].key_hash # es[j].key_hash /\ Apart(es[i], es[j])
    BY <1>1, <1>9, Zenon
  <2>2. n[i].offset = es[i].offset /\ n[j].offset = es[j].offset
        /\ n[i].key_hash = es[i].key_hash /\ n[j].key_hash = es[j].key_hash
        /\ n[i].size <= es[i].size /\ n[j].size <= es[j].size
    BY <1>6, <1>7, Zenon
  <2>3. n[i].size \in Nat /\ es[i].size \in Nat /\ es[i].offset \in Nat
        /\ n[j].size \in Nat /\ es[j].size \in Nat /\ es[j].offset \in Nat
    BY <1>7, Zenon
  <2>4. Apart(n[i], n[j])
    <3> DEFINE a == es[i].offset
               b == es[j].offset
               x == es[i].size
               y == es[j].size
               nx == n[i].size
               ny == n[j].size
    <3>1. a + x <= b \/ b + y <= a
      BY <2>1, Zenon DEF Apart
    <3>2. a \in Nat /\ b \in Nat /\ x \in Nat /\ y \in Nat /\ nx \in Nat /\ ny \in Nat
      BY <2>3, Zenon
    <3>3. nx <= x /\ ny <= y
      BY <2>2, Zenon
    <3>4. Apart(n[i], n[j]) <=> (a + nx <= b \/ b + ny <= a)
      BY <2>2, Zenon DEF Apart
    <3> HIDE DEF a, b, x, y, nx, ny
    <3>5. a + nx <= b \/ b + ny <= a
      BY <3>1, <3>2, <3>3, SMTT(30)
    <3> QED
      BY <3>4, <3>5, Zenon
  <2> QED
    BY <2>1, <2>2, <2>4, Zenon
<1>10. Laid(n, d)
  BY <1>5, <1>8, <1>9, Zenon DEF Laid
<1>11. Value(n[m], d) = v
  BY <1>3, <1>5, Zenon DEF Value
<1>12. Reads(n, d, es[m].key_hash, v)
  BY <1>6, <1>11, Zenon DEF Reads
<1>13. ASSUME NEW i \in 1..Len(es), i # m
       PROVE  Value(n[i], d) = Value(es[i], data)
  <2>1. Apart(es[i], es[m]) /\ es[i].offset + es[i].size <= Len(data)
    BY <1>1, <1>13, Zenon
  <2> DEFINE p == es[i].offset
             q == es[i].size
  <2>2. p \in Nat /\ q \in Nat /\ p + q <= Len(data)
    BY <1>7, <2>1, Zenon
  <2>3. p + q <= o \/ o + Len(c) <= p
    BY <1>3, <1>4, <2>1, <2>2, SMTT(30) DEF Apart
  <2>4. SubSeq(d, p + 1, p + q) = SubSeq(data, p + 1, p + q)
    <3>1. data \in Seq(Cells) /\ c \in Seq(Cells) /\ o \in Nat /\ o + Len(c) <= Len(data)
      BY <1>1, <1>3, <1>4, Zenon
    <3> HIDE DEF o, c, p, q
    <3>2. Place(d, p, q) = Place(data, p, q)
      BY ONLY <2>2, <2>3, <3>1, WrittenElsewhere, SMTT(30) DEF d
    <3> QED
      BY <3>2, Zenon DEF Place
  <2>5. n[i] = es[i]
    BY <1>13, Zenon
  <2> QED
    BY <2>4, <2>5, Zenon DEF Value
<1>14. ASSUME NEW h, NEW w, h # es[m].key_hash, Reads(es, data, h, w)
       PROVE  Reads(n, d, h, w)
  <2>1. CASE \E i \in 1..Len(es) : es[i].key_hash = h /\ w = Value(es[i], data)
    <3>1. PICK i \in 1..Len(es) : es[i].key_hash = h /\ w = Value(es[i], data)
      BY <2>1, Zenon
    <3>2. n[i].key_hash = h /\ w = Value(n[i], d)
      BY <1>6, <1>13, <1>14, <3>1, Zenon
    <3> QED
      BY <3>2, Zenon DEF Reads
  <2>2. CASE (\A i \in 1..Len(es) : es[i].key_hash # h) /\ w = None
    BY <1>6, <2>2, Zenon DEF Reads
  <2> QED
    BY <1>14, <2>1, <2>2, Zenon DEF Reads
<1> QED
  BY <1>10, <1>12, <1>14, Zenon DEF d

\* A value behind the others, under a hash the table does not have.
LEMMA AppendedTable ==
    ASSUME NEW es, NEW data, Laid(es, data), NEW h \in Nat, NEW v \in Values,
           \A i \in 1..Len(es) : es[i].key_hash # h
    PROVE  LET n == Append(es, [key_hash |-> h, type |-> v.type,
                                offset |-> Len(data), size |-> Len(v.cells)])
               d == data \o v.cells
           IN  /\ Laid(n, d) /\ Reads(n, d, h, v)
               /\ \A g, w : (g # h /\ Reads(es, data, g, w)) => Reads(n, d, g, w)
<1> DEFINE c == v.cells
           e == [key_hash |-> h, type |-> v.type, offset |-> Len(data), size |-> Len(c)]
           n == Append(es, e)
           d == data \o c
           L == Len(es)
<1>1. /\ es \in Seq(EntryRecord) /\ data \in Seq(Cells) /\ L \in Nat /\ Len(data) \in Nat
      /\ \A i \in 1..L : es[i].offset + es[i].size <= Len(data)
      /\ \A i, j \in 1..L : i # j => (es[i].key_hash # es[j].key_hash /\ Apart(es[i], es[j]))
  BY DEF Laid
<1>2. \A i \in 1..L : es[i] \in EntryRecord
  BY <1>1
<1>3. c \in Seq(Cells) /\ v = [type |-> v.type, cells |-> c] /\ Len(c) \in Nat /\ v.type \in Types
  BY ConfigAssumption
<1>4. /\ d \in Seq(Cells) /\ Len(d) = Len(data) + Len(c)
      /\ SubSeq(d, Len(data) + 1, Len(data) + Len(c)) = c
      /\ \A p, q \in Nat : p + q <= Len(data)
            => SubSeq(d, p + 1, p + q) = SubSeq(data, p + 1, p + q)
  BY <1>1, <1>3, AppendedReads, Zenon
<1>5. /\ e \in EntryRecord /\ e.key_hash = h /\ e.offset = Len(data) /\ e.size = Len(c)
      /\ e.type = v.type
  BY <1>1, <1>3, Zenon DEF EntryRecord
<1> HIDE DEF e, d
<1>6. n \in Seq(EntryRecord) /\ Len(n) = L + 1 /\ (\A i \in 1..L : n[i] = es[i]) /\ n[L + 1] = e
  BY <1>1, <1>5, AppendProperties
<1> HIDE DEF n, L
<1>7. \A i \in 1..L : es[i].offset \in Nat /\ es[i].size \in Nat
  BY <1>2, Zenon DEF EntryRecord
<1>8. ASSUME NEW i \in 1..(L + 1)
      PROVE  n[i].offset + n[i].size <= Len(d)
  <2>1. CASE i \in 1..L
    <3>1. n[i] = es[i] /\ es[i].offset + es[i].size <= Len(data)
      BY <1>1, <1>6, <2>1, Zenon
    <3>2. es[i].offset \in Nat /\ es[i].size \in Nat
      BY <1>7, <2>1, Zenon
    <3> QED
      BY <1>1, <1>3, <1>4, <3>1, <3>2, SMTT(30)
  <2>2. CASE i = L + 1
    BY <1>4, <1>5, <1>6, <2>2, SMTT(30)
  <2> QED
    BY <1>1, <2>1, <2>2
<1>9. ASSUME NEW i \in 1..(L + 1), NEW j \in 1..(L + 1), i # j
      PROVE  n[i].key_hash # n[j].key_hash /\ Apart(n[i], n[j])
  <2>1. \A k \in 1..L : es[k].key_hash # e.key_hash /\ Apart(es[k], e) /\ Apart(e, es[k])
    BY <1>1, <1>5, <1>7, Zenon DEF Apart, L
  <2>2. CASE i \in 1..L /\ j \in 1..L
    BY <1>1, <1>6, <1>9, <2>2, Zenon
  <2>3. CASE i \in 1..L /\ j = L + 1
    BY <1>6, <2>1, <2>3, Zenon
  <2>4. CASE i = L + 1 /\ j \in 1..L
    BY <1>6, <2>1, <2>4, Zenon
  <2> QED
    BY <1>1, <1>9, <2>2, <2>3, <2>4, SMTT(30)
<1>10. Laid(n, d)
  BY <1>4, <1>6, <1>8, <1>9, Zenon DEF Laid
<1>11. Reads(n, d, h, v)
  <2>1. Value(n[L + 1], d) = v
    BY <1>3, <1>4, <1>5, <1>6, Zenon DEF Value
  <2>2. L + 1 \in 1..Len(n) /\ n[L + 1].key_hash = h
    BY <1>1, <1>5, <1>6
  <2> QED
    BY <2>1, <2>2, Zenon DEF Reads
<1>12. ASSUME NEW g, NEW w, g # h, Reads(es, data, g, w)
       PROVE  Reads(n, d, g, w)
  <2>1. CASE \E i \in 1..L : es[i].key_hash = g /\ w = Value(es[i], data)
    <3>1. PICK i \in 1..L : es[i].key_hash = g /\ w = Value(es[i], data)
      BY <2>1, Zenon
    <3> DEFINE p == es[i].offset
               q == es[i].size
    <3>2. SubSeq(d, p + 1, p + q) = SubSeq(data, p + 1, p + q)
      BY <1>1, <1>4, <1>7, Zenon
    <3>3. n[i] = es[i] /\ i \in 1..Len(n)
      BY <1>1, <1>6
    <3>4. n[i].key_hash = g /\ w = Value(n[i], d)
      BY <3>1, <3>2, <3>3, Zenon DEF Value
    <3> QED
      BY <3>3, <3>4, Zenon DEF Reads
  <2>2. CASE (\A i \in 1..L : es[i].key_hash # g) /\ w = None
    <3>1. \A i \in 1..(L + 1) : n[i].key_hash # g
      BY <1>1, <1>5, <1>6, <1>12, <2>2, SMTT(30)
    <3> QED
      BY <1>6, <2>2, <3>1, Zenon DEF Reads
  <2> QED
    BY <1>12, <2>1, <2>2, Zenon DEF Reads, L
<1> QED
  BY <1>10, <1>11, <1>12, Zenon DEF n, d, e

StoreRecord ==
    [open : BOOLEAN, entries : Seq(EntryRecord), room : Int, data : Seq(Cells), dirty : BOOLEAN]

\* The table of a store is laid out, and for every hash but one it reads as
\* that of another store.
Follows(d, s, h) ==
    /\ d \in StoreRecord /\ d.open = s.open /\ d.room = s.room /\ Laid(d.entries, d.data)
    /\ \A g, w : (g # h /\ Reads(s.entries, s.data, g, w)) => Reads(d.entries, d.data, g, w)

\* A hash is a number.
LEMMA HashType == \A k \in Keys : hash_key(k) \in Nat
  BY ConfigAssumption, SMTT(30) DEF hash_key

\* A deleted key is gone and no other is.
LEMMA DeleteKeeps ==
    ASSUME NEW s \in StoreRecord, Laid(s.entries, s.data), NEW k \in Keys
    PROVE  LET d == config_delete(s, k)
           IN  /\ Follows(d, s, hash_key(k)) /\ d.data = s.data
               /\ Len(d.entries) <= Len(s.entries)
               /\ \A i \in 1..Len(d.entries) : d.entries[i].key_hash # hash_key(k)
<1> DEFINE d == config_delete(s, k)
           i == config_find_entry(s, k)
           es == s.entries
           n == Without(es, i)
<1>1. s.entries \in Seq(EntryRecord) /\ Len(es) \in Nat
  BY DEF StoreRecord
<1>2. \/ i \in 1..Len(es) /\ es[i].key_hash = hash_key(k)
      \/ i = 0 /\ \A j \in 1..Len(es) : es[j].key_hash # hash_key(k)
  BY GetReads, Zenon
<1>3. d = IF i = 0 THEN s ELSE [s EXCEPT !.entries = n, !.dirty = TRUE]
  BY Zenon DEF config_delete, StoreRecord
<1> HIDE DEF d, i
<1>4. CASE i = 0
  <2>1. d = s /\ \A j \in 1..Len(es) : es[j].key_hash # hash_key(k)
    BY <1>2, <1>3, <1>4, SMTT(30)
  <2> QED
    BY <1>1, <2>1 DEF Follows, d
<1>5. CASE i # 0
  <2>1. i \in 1..Len(es) /\ es[i].key_hash = hash_key(k)
    BY <1>2, <1>5, Zenon
  <2>2. /\ Laid(n, s.data) /\ Len(n) = Len(es) - 1
        /\ \A j \in 1..(Len(es) - 1) : n[j].key_hash # es[i].key_hash
        /\ \A h, v : (h # es[i].key_hash /\ Reads(es, s.data, h, v)) => Reads(n, s.data, h, v)
    BY <2>1, RemovedReads, Zenon
  <2>3. d = [s EXCEPT !.entries = n, !.dirty = TRUE]
    BY <1>3, <1>5, Zenon
  <2> HIDE DEF n
  <2>4. n \in Seq(EntryRecord)
    BY <2>2, Zenon DEF Laid
  <2>5. /\ d \in StoreRecord /\ d.open = s.open /\ d.room = s.room /\ d.entries = n
        /\ d.data = s.data
    BY <2>3, <2>4, Zenon DEF StoreRecord
  <2>6. Follows(d, s, hash_key(k))
    BY <2>1, <2>2, <2>5, Zenon DEF Follows
  <2> QED
    BY <1>1, <2>1, <2>2, <2>5, <2>6, SMTT(30) DEF d
<1> QED
  BY <1>4, <1>5, Zenon

\* A value set is the one read, or it is gone; no other is touched.
LEMMA SetKeeps ==
    ASSUME NEW s \in StoreRecord, Laid(s.entries, s.data), NEW k \in Keys, NEW v \in Values
    PROVE  LET r == config_set(s, k, v)
           IN  /\ Follows(r.store, s, hash_key(k))
               /\ Reads(r.store.entries, r.store.data, hash_key(k), IF r.ok THEN v ELSE None)
<1> DEFINE i == config_find_entry(s, k)
           h == hash_key(k)
           d == config_delete(s, k)
           es == s.entries
           c == v.cells
<1>1. s.entries \in Seq(EntryRecord) /\ Len(es) \in Nat /\ s.data \in Seq(Cells) /\ h \in Nat
  BY HashType DEF StoreRecord
<1>2. \/ i \in 1..Len(es) /\ es[i].key_hash = h
      \/ i = 0 /\ \A j \in 1..Len(es) : es[j].key_hash # h
  BY GetReads, Zenon
<1>3. /\ Follows(d, s, h) /\ d.data = s.data
      /\ \A j \in 1..Len(d.entries) : d.entries[j].key_hash # h
  BY DeleteKeeps, Zenon
<1>4. Len(c) \in Nat /\ v.type \in Types
  BY ConfigAssumption
<1> HIDE DEF h
<1>5. CASE i # 0 /\ es[i].size >= Len(c)
  <2> DEFINE o == es[i].offset
             w == Written(s.data, o, c)
             e == [es[i] EXCEPT !.size = Len(c), !.type = v.type]
             n == [es EXCEPT ![i] = e]
             x == Overwritten(s, i, v)
  <2>2. i \in 1..Len(es) /\ es[i].key_hash = h
    BY <1>2, <1>5, Zenon
  <2>3. es[i] \in EntryRecord
    BY <1>1, <2>2
  <2>1. config_set(s, k, v) = [store |-> x, ok |-> TRUE]
    <3>1. ~(i = 0 \/ es[i].size < Len(c))
      BY <1>4, <1>5, <2>3 DEF EntryRecord
    <3> QED
      BY <1>5, <3>1, Zenon DEF config_set
  <2>4. /\ e \in EntryRecord /\ e.key_hash = h /\ e.offset = o /\ e.size = Len(c)
        /\ e.type = v.type
    BY <1>4, <2>2, <2>3, Zenon DEF EntryRecord
  <2>5. x = [s EXCEPT !.data = w, !.entries = n, !.dirty = TRUE]
    <3>1. DOMAIN es = 1..Len(es)
      BY <1>1
    <3> QED
      BY <2>2, <2>3, <3>1, ZenonT(40) DEF Overwritten, StoreRecord, EntryRecord
  <2> HIDE DEF x, e, i
  <2>6. n \in Seq(EntryRecord) /\ Len(n) = Len(es) /\ n[i] = e
        /\ \A j \in 1..Len(es) : j # i => n[j] = es[j]
    BY <1>1, <2>2, <2>4, ExceptSeq, SMTT(30)
  <2> HIDE DEF n
  <2>7. Len(c) <= es[i].size
    BY <1>4, <1>5, <2>3, Zenon DEF EntryRecord
  <2>8. /\ Laid(n, w) /\ Reads(n, w, es[i].key_hash, v)
        /\ \A g, u : (g # es[i].key_hash /\ Reads(es, s.data, g, u)) => Reads(n, w, g, u)
    BY <2>2, <2>4, <2>6, <2>7, OverwrittenTable, Zenon
  <2> HIDE DEF w
  <2>9. w \in Seq(Cells)
    BY <2>8, Zenon DEF Laid
  <2>10. x \in StoreRecord /\ x.open = s.open /\ x.room = s.room /\ x.entries = n /\ x.data = w
    BY <2>5, <2>6, <2>9, Zenon DEF StoreRecord
  <2>11. Follows(x, s, h)
    BY <2>2, <2>8, <2>10, Zenon DEF Follows
  <2>12. Reads(x.entries, x.data, h, v)
    BY <2>2, <2>8, <2>10, Zenon
  <2> QED
    BY <2>1, <2>11, <2>12, SMTT(30) DEF h
<1>6. CASE /\ ~(i # 0 /\ es[i].size >= Len(c))
           /\ Len(d.entries) < MaxEntries /\ config_reserve_data(d, Len(c))
  <2> DEFINE x == Appended(d, k, v)
             e == [key_hash |-> h, type |-> v.type, offset |-> Len(d.data), size |-> Len(c)]
             n == Append(d.entries, e)
             w == d.data \o c
  <2>1. config_set(s, k, v) = [store |-> x, ok |-> TRUE]
    <3>1. i = 0 \/ es[i].size < Len(c)
      <4>1. i # 0 => es[i].size \in Nat
        <5>1. i # 0 => es[i] \in EntryRecord
          BY <1>1, <1>2, SMTT(30)
        <5> QED
          BY <5>1, Zenon DEF EntryRecord
      <4> QED
        BY <1>4, <1>6, <4>1
    <3> QED
      BY <1>6, <3>1, Zenon DEF config_set
  <2>2. d \in StoreRecord /\ Laid(d.entries, d.data)
    BY <1>3, Zenon DEF Follows
  <2>3. x = [d EXCEPT !.entries = n, !.data = w, !.dirty = TRUE]
    BY <2>2, Zenon DEF Appended, h, StoreRecord
  <2> HIDE DEF d, x
  <2>4. /\ Laid(n, w) /\ Reads(n, w, h, v)
        /\ \A g, u : (g # h /\ Reads(d.entries, d.data, g, u)) => Reads(n, w, g, u)
    BY <1>1, <1>3, <2>2, AppendedTable, Zenon
  <2> HIDE DEF n, w
  <2>5. n \in Seq(EntryRecord) /\ w \in Seq(Cells)
    BY <2>4, Zenon DEF Laid
  <2>6. x \in StoreRecord /\ x.open = d.open /\ x.room = d.room /\ x.entries = n /\ x.data = w
    BY <2>2, <2>3, <2>5, Zenon DEF StoreRecord
  <2>7. Follows(x, s, h)
    BY <1>3, <2>4, <2>6, Zenon DEF Follows
  <2>8. Reads(x.entries, x.data, h, v)
    BY <2>4, <2>6, Zenon
  <2> QED
    BY <2>1, <2>7, <2>8 DEF h
<1>7. CASE /\ ~(i # 0 /\ es[i].size >= Len(c))
           /\ ~(Len(d.entries) < MaxEntries /\ config_reserve_data(d, Len(c)))
  <2>1. config_set(s, k, v) = [store |-> d, ok |-> FALSE]
    BY <1>7, Zenon DEF config_set
  <2> HIDE DEF d
  <2>2. Reads(d.entries, d.data, h, None)
    BY <1>3, Zenon DEF Reads
  <2> QED
    BY <1>3, <2>1, <2>2 DEF h
<1> QED
  BY <1>5, <1>6, <1>7, Zenon

FileRecord == [header : BOOLEAN, entries : Seq(EntryRecord), data : Seq(Cells)]

\* A store that is in use holds the values last set.
StoreHolds(s, last) == Laid(s.entries, s.data) /\ Shows(s.entries, s.data, last)

ConfigInv ==
    /\ cfg \in StoreRecord /\ flash \in FileRecord /\ cfg_fault \in BOOLEAN
    /\ cfg_last \in [Keys -> Values \cup {None}] /\ cfg_saved \in [Keys -> Values \cup {None}]
    /\ cfg.open => (cfg.room >= Len(cfg.entries) \/ cfg.room = -1)
    /\ InUse => StoreHolds(cfg, cfg_last)
    /\ ~cfg_fault => StoreHolds(config_store_init(flash), cfg_saved)

\* What a store opened from a file is.
LEMMA InitType ==
    ASSUME NEW f \in FileRecord
    PROVE  LET s == config_store_init(f)
           IN  /\ s \in StoreRecord /\ s.open /\ s.room \in Nat /\ s.room >= Len(s.entries)
               /\ f.header => s.entries = f.entries /\ s.data = f.data
<1>1. f.entries \in Seq(EntryRecord) /\ f.data \in Seq(Cells) /\ Len(f.entries) \in Nat
  BY DEF FileRecord
<1>2. MaxEntries \in Nat
  BY ConfigAssumption, Zenon
<1>3. CASE f.header
  <2> DEFINE z == [open |-> TRUE, entries |-> f.entries, room |-> Len(f.entries), data |-> f.data,
                  dirty |-> FALSE]
  <2>1. config_store_init(f) = z
    BY <1>3, Zenon DEF config_store_init
  <2>2. z \in StoreRecord /\ z.open /\ z.room \in Nat /\ z.room >= Len(z.entries)
    BY <1>1 DEF StoreRecord
  <2> QED
    BY <1>3, <2>1, <2>2
<1>4. CASE ~f.header
  <2> DEFINE z == [open |-> TRUE, entries |-> <<>>, room |-> MaxEntries, data |-> <<>>,
                  dirty |-> FALSE]
  <2>1. config_store_init(f) = z
    BY <1>4, Zenon DEF config_store_init, Shut
  <2>2. z \in StoreRecord /\ z.open /\ z.room \in Nat /\ z.room >= Len(z.entries)
    BY <1>2 DEF StoreRecord
  <2> QED
    BY <1>4, <2>1, <2>2, Zenon
<1> QED
  BY <1>3, <1>4, Zenon

\* The values of the keys with a hash of their own, after one of them was set or
\* deleted.
LEMMA ShowsAfter ==
    ASSUME NEW s, NEW d, NEW last \in [Keys -> Values \cup {None}], NEW k \in Keys, NEW w,
           StoreHolds(s, last), Follows(d, s, hash_key(k)),
           OwnHash(k) => Reads(d.entries, d.data, hash_key(k), w)
    PROVE  StoreHolds(d, [last EXCEPT ![k] = w])
<1> DEFINE new == [last EXCEPT ![k] = w]
<1>1. new[k] = w /\ \A j \in Keys : j # k => new[j] = last[j]
  BY Zenon
<1> HIDE DEF new
<1>2. ASSUME NEW j \in Keys, OwnHash(j)
      PROVE  Reads(d.entries, d.data, hash_key(j), new[j])
  <2>1. CASE j = k
    BY <1>1, <1>2, <2>1, Zenon
  <2>2. CASE j # k
    <3>1. hash_key(j) # hash_key(k)
      BY <1>2, <2>2, Zenon DEF OwnHash
    <3>2. Reads(s.entries, s.data, hash_key(j), last[j])
      BY <1>2, Zenon DEF StoreHolds, Shows
    <3>3. new[j] = last[j]
      BY <1>1, <2>2, Zenon
    <3> QED
      BY <3>1, <3>2, <3>3, Zenon DEF Follows
  <2> QED
    BY <2>1, <2>2, Zenon
<1>3. StoreHolds(d, new)
  BY <1>2, Zenon DEF StoreHolds, Shows, Follows
<1> QED
  BY <1>3, Zenon DEF new

\* A flush leaves the table as it is, and the file as it was or as the table.
LEMMA FlushKeeps ==
    ASSUME NEW s \in StoreRecord, NEW f \in FileRecord, NEW r \in config_store_flush(s, f)
    PROVE  /\ r.store \in StoreRecord /\ r.store.entries = s.entries /\ r.store.data = s.data
           /\ r.store.open = s.open /\ r.store.room = s.room
           /\ r.flash \in FileRecord
           /\ r.done => s.dirty /\ r.flash.header
                        /\ r.flash.entries = s.entries /\ r.flash.data = s.data
           /\ ~r.done => r.flash = f
<1> DEFINE c == [s EXCEPT !.dirty = FALSE]
           g == [header |-> TRUE, entries |-> s.entries, data |-> s.data]
<1>1. /\ c \in StoreRecord /\ c.entries = s.entries /\ c.data = s.data
      /\ c.open = s.open /\ c.room = s.room
  BY Zenon DEF StoreRecord
<1>2. g \in FileRecord /\ g.header /\ g.entries = s.entries /\ g.data = s.data
  BY Zenon DEF StoreRecord, FileRecord
<1>3. \/ r = [store |-> s, done |-> FALSE, torn |-> FALSE, flash |-> f]
      \/ r = [store |-> c, done |-> TRUE, torn |-> FALSE, flash |-> g] /\ s.dirty
      \/ r = [store |-> s, done |-> FALSE, torn |-> TRUE, flash |-> f]
  BY Zenon DEF config_store_flush
<1> HIDE DEF c, g
<1> QED
  BY <1>1, <1>2, <1>3

\* The first store is shut and its file new.
LEMMA ConfigInitInv == ConfigInit => ConfigInv
<1> SUFFICES ASSUME ConfigInit PROVE ConfigInv
  BY Zenon
<1>1. cfg \in StoreRecord /\ ~cfg.open
  BY DEF ConfigInit, Shut, StoreRecord
<1>2. flash \in FileRecord /\ ~flash.header
  BY DEF ConfigInit, NewFile, FileRecord
<1>3. cfg_last \in [Keys -> Values \cup {None}] /\ cfg_saved \in [Keys -> Values \cup {None}]
  BY Zenon DEF ConfigInit, Blank
<1>4. config_store_init(flash).entries = <<>> /\ config_store_init(flash).data = <<>>
  BY <1>2, Zenon DEF config_store_init, Shut
<1>5. StoreHolds(config_store_init(flash), cfg_saved)
  <2>1. Laid(<<>>, <<>>)
    BY DEF Laid
  <2>2. \A k \in Keys : cfg_saved[k] = None
    BY Zenon DEF ConfigInit, Blank
  <2>3. \A h : Reads(<<>>, <<>>, h, None)
    BY DEF Reads
  <2> QED
    BY <1>4, <2>1, <2>2, <2>3, Zenon DEF StoreHolds, Shows
<1> QED
  BY <1>1, <1>2, <1>3, <1>5, Zenon DEF ConfigInv, InUse, ConfigInit

\* What a flush of a store in use leaves in the file.
LEMMA SavedKeeps ==
    ASSUME ConfigInv, NEW r \in config_store_flush(cfg, flash), Saved(r),
           ~cfg_fault, r.done => InUse
    PROVE  /\ flash' \in FileRecord /\ cfg_saved' \in [Keys -> Values \cup {None}]
           /\ StoreHolds(config_store_init(flash'), cfg_saved')
<1>1. cfg \in StoreRecord /\ flash \in FileRecord
  BY Zenon DEF ConfigInv
<1>2. /\ r.flash \in FileRecord
      /\ r.done => r.flash.header /\ r.flash.entries = cfg.entries /\ r.flash.data = cfg.data
      /\ ~r.done => r.flash = flash
  BY <1>1, FlushKeeps
<1>3. flash' = r.flash /\ cfg_saved' = IF r.done THEN cfg_last ELSE cfg_saved
  BY Zenon DEF Saved
<1>4. CASE r.done
  <2>1. StoreHolds(cfg, cfg_last)
    BY <1>4, Zenon DEF ConfigInv
  <2>2. config_store_init(flash').entries = cfg.entries /\ config_store_init(flash').data = cfg.data
    BY <1>2, <1>3, <1>4, InitType, Zenon
  <2> QED
    BY <1>2, <1>3, <1>4, <2>1, <2>2, Zenon DEF StoreHolds, ConfigInv
<1>5. CASE ~r.done
  BY <1>2, <1>3, <1>5, Zenon DEF ConfigInv
<1> QED
  BY <1>4, <1>5, Zenon

\* A set keeps the store: what it touches and what it does not.
LEMMA SetValueKeeps ==
    ASSUME ConfigInv, NEW k \in Keys, NEW v \in Values, SetValue(k, v)
    PROVE  ConfigInv'
<1> DEFINE r == config_set(cfg, k, v)
           w == IF r.ok /\ OwnHash(k) THEN v ELSE None
<1>1. /\ cfg \in StoreRecord /\ StoreHolds(cfg, cfg_last) /\ ~cfg_fault /\ InUse
      /\ cfg_last \in [Keys -> Values \cup {None}] /\ cfg.room >= Len(cfg.entries)
  BY Zenon DEF ConfigInv, SetValue, InUse
<1>2. /\ Follows(r.store, cfg, hash_key(k))
      /\ Reads(r.store.entries, r.store.data, hash_key(k), IF r.ok THEN v ELSE None)
  BY <1>1, SetKeeps, Zenon DEF StoreHolds
<1>3. flash' = flash /\ cfg_saved' = cfg_saved
  BY Zenon DEF SetValue
<1>4. CASE /\ Len(r.store.entries) <= cfg.room
           /\ cfg' = r.store
           /\ cfg_last' = [cfg_last EXCEPT ![k] = w]
           /\ UNCHANGED cfg_fault
  <2> HIDE DEF r
  <2>1. OwnHash(k) => Reads(r.store.entries, r.store.data, hash_key(k), w)
    BY <1>2, Zenon
  <2>2. w \in Values \cup {None}
    BY Zenon
  <2> HIDE DEF w
  <2>3. StoreHolds(r.store, [cfg_last EXCEPT ![k] = w])
    BY <1>1, <1>2, <2>1, ShowsAfter, Zenon
  <2>4. r.store \in StoreRecord /\ r.store.room = cfg.room
    BY <1>2, Zenon DEF Follows
  <2>5. cfg'.room >= Len(cfg'.entries)
    <3>1. cfg.room \in Int /\ Len(r.store.entries) \in Nat
      BY <1>1, <2>4, SMTT(30) DEF StoreRecord
    <3> QED
      BY <1>4, <2>4, <3>1, Zenon
  <2>6. cfg_last' \in [Keys -> Values \cup {None}]
    BY <1>1, <1>4, <2>2, Zenon
  <2> QED
    BY <1>1, <1>3, <1>4, <2>3, <2>4, <2>5, <2>6, Zenon DEF ConfigInv
<1>5. CASE cfg_fault' = TRUE /\ UNCHANGED <<cfg, cfg_last>>
  BY <1>3, <1>5, Zenon DEF ConfigInv, InUse
<1> QED
  BY <1>4, <1>5, Zenon DEF SetValue

\* So does a delete.
LEMMA DeleteValueKeeps ==
    ASSUME ConfigInv, NEW k \in Keys, DeleteValue(k)
    PROVE  ConfigInv'
<1> DEFINE d == config_delete(cfg, k)
<1>1. /\ cfg \in StoreRecord /\ StoreHolds(cfg, cfg_last) /\ ~cfg_fault
      /\ cfg_last \in [Keys -> Values \cup {None}] /\ cfg.room >= Len(cfg.entries)
  BY Zenon DEF ConfigInv, DeleteValue, InUse
<1>2. /\ Follows(d, cfg, hash_key(k)) /\ Len(d.entries) <= Len(cfg.entries)
      /\ \A i \in 1..Len(d.entries) : d.entries[i].key_hash # hash_key(k)
  BY <1>1, DeleteKeeps, Zenon DEF StoreHolds
<1>3. /\ cfg' = d /\ cfg_last' = [cfg_last EXCEPT ![k] = None]
      /\ flash' = flash /\ cfg_saved' = cfg_saved /\ cfg_fault' = cfg_fault
  BY Zenon DEF DeleteValue
<1> HIDE DEF d
<1>4. Reads(d.entries, d.data, hash_key(k), None)
  BY <1>2, Zenon DEF Reads
<1>5. StoreHolds(d, [cfg_last EXCEPT ![k] = None])
  BY <1>1, <1>2, <1>4, ShowsAfter, Zenon
<1>6. d \in StoreRecord /\ d.room = cfg.room
  BY <1>2, Zenon DEF Follows
<1>7. d.room >= Len(d.entries)
  BY <1>1, <1>2, <1>6 DEF StoreRecord
<1>8. cfg_last' \in [Keys -> Values \cup {None}]
  BY <1>1, <1>3, Zenon
<1> QED
  BY <1>1, <1>3, <1>5, <1>6, <1>7, <1>8, Zenon DEF ConfigInv

\* A flush, a deinit and a close write the table of a store in use and no other.
LEMMA FlushesKeep ==
    ASSUME ConfigInv, config_flush \/ config_store_deinit \/ config_store_close
    PROVE  ConfigInv'
<1>1. cfg \in StoreRecord /\ flash \in FileRecord /\ ~cfg_fault /\ cfg.open /\ cfg_last' = cfg_last
  BY Zenon DEF ConfigInv, config_flush, config_store_deinit, config_store_close, InUse
<1>2. Shut \in StoreRecord /\ ~Shut.open
  BY SMTT(30) DEF Shut, StoreRecord
<1>3. CASE config_flush
  <2>1. PICK r \in config_store_flush(cfg, flash) : cfg' = r.store /\ Saved(r)
    BY <1>3, Zenon DEF config_flush
  <2>2. InUse /\ cfg_fault' = cfg_fault
    BY <1>3, Zenon DEF config_flush
  <2>3. /\ r.store \in StoreRecord /\ r.store.entries = cfg.entries /\ r.store.data = cfg.data
        /\ r.store.room = cfg.room
    BY <1>1, FlushKeeps
  <2>4. /\ flash' \in FileRecord /\ cfg_saved' \in [Keys -> Values \cup {None}]
        /\ StoreHolds(config_store_init(flash'), cfg_saved')
    BY <1>1, <2>1, <2>2, SavedKeeps, Zenon
  <2>5. StoreHolds(cfg', cfg_last') /\ cfg'.room >= Len(cfg'.entries)
    BY <1>1, <2>1, <2>2, <2>3, Zenon DEF ConfigInv, StoreHolds, InUse
  <2> QED
    BY <1>1, <2>1, <2>2, <2>3, <2>4, <2>5, Zenon DEF ConfigInv
<1>4. CASE config_store_deinit
  <2>1. PICK r \in config_store_flush(cfg, flash) :
           /\ cfg' = [Shut EXCEPT !.open = TRUE, !.room = -1, !.dirty = r.store.dirty]
           /\ Saved(r)
    BY <1>4, Zenon DEF config_store_deinit
  <2>2. InUse /\ cfg_fault' = cfg_fault
    BY <1>4, Zenon DEF config_store_deinit
  <2>3. r.store \in StoreRecord
    BY <1>1, FlushKeeps, Zenon
  <2>4. /\ flash' \in FileRecord /\ cfg_saved' \in [Keys -> Values \cup {None}]
        /\ StoreHolds(config_store_init(flash'), cfg_saved')
    BY <1>1, <2>1, <2>2, SavedKeeps, Zenon
  <2> DEFINE dirty == r.store.dirty
             c == [Shut EXCEPT !.open = TRUE, !.room = -1, !.dirty = dirty]
  <2>5. dirty \in BOOLEAN /\ -1 \in Int
    BY <2>3 DEF StoreRecord
  <2>6. cfg' = c
    BY <2>1, Zenon
  <2> HIDE DEF dirty
  <2>7. c \in StoreRecord /\ c.room = -1 /\ c.entries = Shut.entries
    BY <1>2, <2>5, Zenon DEF StoreRecord
  <2> HIDE DEF c
  <2>8. ~(c.room >= Len(c.entries))
    BY <2>7 DEF Shut
  <2>9. ~InUse'
    BY <2>6, <2>8, Zenon DEF InUse
  <2> QED
    BY <1>1, <2>2, <2>4, <2>6, <2>7, <2>9, Zenon DEF ConfigInv
<1>5. CASE config_store_close
  <2>1. PICK r \in config_store_flush(cfg, flash) :
           /\ Saved(r) /\ cfg_fault' = (cfg_torn' \/ (cfg.dirty /\ cfg.room = -1))
    BY <1>5, Zenon DEF config_store_close
  <2>2. cfg' = Shut
    BY <1>5, Zenon DEF config_store_close
  <2>3. r.flash \in FileRecord /\ (r.done => cfg.dirty)
    BY <1>1, FlushKeeps, Zenon
  <2>4. flash' = r.flash /\ cfg_saved' = IF r.done THEN cfg_last ELSE cfg_saved
    BY <2>1, Zenon DEF Saved
  <2>5. cfg_saved' \in [Keys -> Values \cup {None}] /\ flash' \in FileRecord /\ cfg_fault' \in BOOLEAN
    BY <2>1, <2>3, <2>4, Zenon DEF ConfigInv
  <2>6. ASSUME ~cfg_fault'
        PROVE  StoreHolds(config_store_init(flash'), cfg_saved')
    <3>1. r.done => cfg.room # -1
      BY <2>1, <2>3, <2>6, Zenon
    <3>2. r.done => InUse
      BY <1>1, <3>1, Zenon DEF ConfigInv, InUse
    <3> QED
      BY <1>1, <2>1, <3>2, SavedKeeps, Zenon
  <2> QED
    BY <1>1, <1>2, <2>2, <2>5, <2>6, SMTT(30) DEF ConfigInv, InUse
<1> QED
  BY <1>3, <1>4, <1>5, Zenon

\* Every step of the store keeps its invariant.
LEMMA ConfigNextInv == ConfigInv /\ [ConfigNext]_cfgVars => ConfigInv'
<1> SUFFICES ASSUME ConfigInv, [ConfigNext]_cfgVars PROVE ConfigInv'
  BY Zenon
<1>1. Shut \in StoreRecord /\ ~Shut.open
  BY DEF Shut, StoreRecord
<1>2. CASE config_store_open
  <2> DEFINE s == config_store_init(flash)
  <2>1. flash \in FileRecord /\ ~cfg_fault /\ StoreHolds(s, cfg_saved)
    BY <1>2, Zenon DEF ConfigInv, config_store_open
  <2>2. s \in StoreRecord /\ s.room >= Len(s.entries)
    BY <2>1, InitType, Zenon
  <2>3. /\ cfg' = s /\ cfg_last' = cfg_saved /\ flash' = flash /\ cfg_saved' = cfg_saved
        /\ cfg_fault' = cfg_fault
    BY <1>2, Zenon DEF config_store_open
  <2> HIDE DEF s
  <2>4. StoreHolds(config_store_init(flash'), cfg_saved')
    BY <2>1, <2>3, Zenon DEF s
  <2> QED
    BY <2>1, <2>2, <2>3, <2>4, Zenon DEF ConfigInv
<1>3. CASE ConfigCrash
  BY <1>1, <1>3, Zenon DEF ConfigCrash, ConfigInv, InUse
<1>4. CASE UNCHANGED cfgVars
  BY <1>4, Zenon DEF cfgVars, ConfigInv, InUse
<1> QED
  BY <1>2, <1>3, <1>4, SetValueKeeps, DeleteValueKeeps, FlushesKeep, Zenon DEF ConfigNext

\* The invariant holds in every state of the store.
LEMMA ConfigInvHolds == ConfigSpec => []ConfigInv
  BY ConfigInitInv, ConfigNextInv, PTL DEF ConfigSpec

\* A store that holds the last values reads them back.
LEMMA HoldsReads ==
    ASSUME NEW s, NEW last, StoreHolds(s, last)
    PROVE  \A k \in Keys : OwnHash(k) => config_get(s, k) = last[k]
  BY GetReads, Zenon DEF StoreHolds, Shows

\* config_store.c reads back what was last set, for every set of keys and values,
\* every hash and every size of the table and the data.
THEOREM SettingsReadBack == ConfigSpec => []LookupIsLastSet
<1>1. ConfigInv => LookupIsLastSet
  BY HoldsReads, Zenon DEF ConfigInv, LookupIsLastSet
<1> QED
  BY <1>1, ConfigInvHolds, PTL

\* The file holds the values of the last complete flush, through every failed
\* write and power cut.
THEOREM SettingsSurvive == ConfigSpec => []FlushedSurvives
<1>1. ConfigInv => FlushedSurvives
  BY HoldsReads, Zenon DEF ConfigInv, FlushedSurvives
<1> QED
  BY <1>1, ConfigInvHolds, PTL

-----------------------------------------------------------------------------
(* The clock.                                                              *)

\* The file agrees with g_saved, and both with the last time the service was asked
\* to keep, while no write has failed.
ClockInv ==
    /\ rtc \in Nat /\ clock_dat \in Nat /\ g_saved \in Nat /\ clk_known \in Nat
    /\ clock_on \in BOOLEAN /\ clk_failed \in BOOLEAN
    /\ ~clk_failed /\ g_saved # 0 =>
         clock_dat = IF IsSet(g_saved) THEN g_saved ELSE 0
    /\ ~clk_failed /\ IsSet(clk_known - Minute) =>
         IsSet(clock_dat) /\ clock_dat <= clk_known /\ clk_known - clock_dat < Minute

\* A write of the time re-establishes the agreement or is known to have failed.
LEMMA WriteAgrees ==
    ASSUME ClockInv, NEW t \in Nat, NEW otherwise \in Nat, write_saved(t, otherwise),
           rtc' \in Nat, clock_on' \in BOOLEAN
    PROVE  ClockInv'
<1>1. clk_known' = t /\ clk_known' \in Nat
  BY Zenon DEF write_saved
<1>2. CASE /\ clock_dat' = IF IsSet(t) THEN t ELSE 0
           /\ g_saved' = t /\ clk_failed' = FALSE
  <2>1. clk_failed' \in BOOLEAN /\ clock_dat' \in Nat /\ g_saved' \in Nat
    BY <1>2, Zenon
  <2>2. g_saved' # 0 => clock_dat' = IF IsSet(g_saved') THEN g_saved' ELSE 0
    BY <1>2, Zenon
  <2>3. IsSet(clk_known' - Minute) =>
          IsSet(clock_dat') /\ clock_dat' <= clk_known' /\ clk_known' - clock_dat' < Minute
    BY <1>1, <1>2, ClockAssumption DEF IsSet
  <2> QED
    BY <1>1, <2>1, <2>2, <2>3, Zenon DEF ClockInv, IsSet
<1>3. CASE /\ clock_dat' \in {0, clock_dat}
           /\ g_saved' = otherwise /\ clk_failed' = TRUE
  BY <1>1, <1>3 DEF ClockInv
<1> QED
  BY <1>2, <1>3, Zenon DEF write_saved

\* clock_service_start takes the saved time whenever there is one.
LEMMA StartAgrees ==
    ASSUME ClockInv, NEW compiled \in {0, Compiled}, clock_service_start(compiled)
    PROVE  ClockInv'
<1> DEFINE chosen == IF IsSet(clock_dat) THEN clock_dat
                     ELSE IF IsSet(rtc) THEN rtc
                     ELSE IF IsSet(compiled) THEN compiled ELSE 0
<1>1. chosen \in Nat /\ rtc' \in Nat /\ clock_on' \in BOOLEAN
  BY ClockAssumption DEF clock_service_start, ClockInv
<1>2. CASE IsSet(clock_dat)
  BY <1>1, <1>2, ClockAssumption, Zenon DEF clock_service_start, ClockInv, IsSet
<1>3. CASE ~IsSet(clock_dat) /\ chosen # 0
  <2>1. write_saved(chosen, chosen)
    BY <1>3, Zenon DEF clock_service_start
  <2> QED
    BY <1>1, <2>1, WriteAgrees, Zenon
<1>4. CASE ~IsSet(clock_dat) /\ chosen = 0
  BY <1>1, <1>4, Zenon DEF clock_service_start, ClockInv, IsSet
<1> QED
  BY <1>2, <1>3, <1>4, Zenon

\* The tick of the Clock app writes, or lets up to a minute go by.
LEMMA TickAgrees ==
    ASSUME ClockInv, ClockAppTick
    PROVE  ClockInv'
<1>1. CASE g_saved # 0 /\ rtc >= g_saved /\ rtc - g_saved < Minute
  BY <1>1, ClockAssumption DEF ClockAppTick, clock_service_checkpoint, ClockInv, IsSet
<1>2. CASE ~(g_saved # 0 /\ rtc >= g_saved /\ rtc - g_saved < Minute)
  BY <1>2, WriteAgrees, Zenon DEF ClockAppTick, clock_service_checkpoint, ClockInv
<1> QED
  BY <1>1, <1>2, Zenon

\* The agreement holds throughout.
LEMMA ClockInvHolds == ClockSpec => []ClockInv
<1>1. ClockInit => ClockInv
  <2> SUFFICES ASSUME ClockInit PROVE ClockInv
    BY Zenon
  <2>1. clock_on \in BOOLEAN /\ clk_failed \in BOOLEAN /\ g_saved = 0 /\ clk_known = 0
    BY Zenon DEF ClockInit
  <2>2. rtc \in Nat /\ clock_dat \in Nat /\ ~IsSet(clk_known - Minute)
    BY <2>1, ClockAssumption DEF ClockInit, IsSet
  <2> QED
    BY <2>1, <2>2, Zenon DEF ClockInv
<1>2. ClockInv /\ [ClockNext]_clockVars => ClockInv'
  <2> SUFFICES ASSUME ClockInv, [ClockNext]_clockVars PROVE ClockInv'
    BY Zenon
  <2>1. ASSUME NEW c \in {0, Compiled}, clock_service_start(c) PROVE ClockInv'
    BY <2>1, StartAgrees, Zenon
  <2>2. ASSUME NEW t \in 0..LastTime, clock_service_set(t) PROVE ClockInv'
    BY <2>2, WriteAgrees DEF clock_service_set, ClockInv
  <2>3. ASSUME NEW d \in Shifts, clock_service_shift(d) PROVE ClockInv'
    <3>1. rtc + d \in Nat /\ rtc' = rtc + d /\ clock_on' = clock_on /\ g_saved \in Nat
      BY <2>3, ClockAssumption DEF clock_service_shift, ClockInv
    <3>2. write_saved(rtc + d, g_saved)
      BY <2>3, Zenon DEF clock_service_shift
    <3>3. clock_on' \in BOOLEAN
      BY <3>1, Zenon DEF ClockInv
    <3> QED
      BY <3>1, <3>2, <3>3, WriteAgrees, Zenon
  <2>4. CASE ClockAppTick
    BY <2>4, TickAgrees, Zenon
  <2>5. CASE ClockAppOpen \/ ClockSecond \/ ClockRestart
    <3>1. clock_on' \in BOOLEAN /\ clk_failed' = clk_failed
      BY <2>5, Zenon DEF ClockAppOpen, ClockSecond, ClockRestart, ClockInv
    <3>2. /\ rtc' \in Nat /\ g_saved' \in {0, g_saved}
          /\ clock_dat' = clock_dat /\ clk_known' = clk_known
      BY <2>5 DEF ClockAppOpen, ClockSecond, ClockRestart, ClockInv
    <3> QED
      BY <3>1, <3>2 DEF ClockInv, IsSet
  <2>6. CASE UNCHANGED clockVars
    BY <2>6, Zenon DEF clockVars, ClockInv, IsSet
  <2> QED
    BY <2>1, <2>2, <2>3, <2>4, <2>5, <2>6, Zenon DEF ClockNext
<1> QED
  BY <1>1, <1>2, PTL DEF ClockSpec

\* A board whose clock stopped starts again within a minute of the last time the
\* service was asked to keep, for every length of the minute, every build stamp and
\* every sequence of sets, shifts, ticks, failed writes and power cuts.
THEOREM RestartsKeepTime == ClockSpec => RestartKeepsTime
<1> DEFINE Kept ==
      (clock_on' /\ ~clock_on /\ rtc = 0 /\ IsSet(clk_known - Minute) /\ ~clk_failed)
         => (rtc' <= clk_known /\ clk_known - rtc' < Minute)
<1>1. ClockInv /\ [ClockNext]_clockVars => [Kept]_clockVars
  <2> SUFFICES ASSUME ClockInv, ClockNext, clock_on', ~clock_on, rtc = 0,
                      IsSet(clk_known - Minute), ~clk_failed
               PROVE  rtc' <= clk_known /\ clk_known - rtc' < Minute
    BY Zenon
  <2>1. PICK c \in {0, Compiled} : clock_service_start(c)
    BY Zenon DEF ClockNext, clock_service_set, clock_service_shift, ClockAppTick, ClockAppOpen,
           ClockSecond, ClockRestart
  <2>2. /\ IsSet(clock_dat) /\ clock_dat <= clk_known /\ clk_known - clock_dat < Minute
        /\ ~IsSet(rtc) /\ clock_dat # 0
    BY ClockAssumption DEF ClockInv, IsSet
  <2>3. rtc' = clock_dat
    BY <2>1, <2>2, Zenon DEF clock_service_start, os_clock_stamp
  <2> QED
    BY <2>2, <2>3, Zenon
<1> QED
  BY <1>1, ClockInvHolds, PTL DEF ClockSpec, RestartKeepsTime

-----------------------------------------------------------------------------
(* The updates.                                                            *)

Byte == 0..255
Update == [open : {TRUE}, partition : Partitions, expected_size : Nat, written : Nat,
           crc32 : Seq(Byte), alone : BOOLEAN]
Meta == [magic : {TRUE}, sequence : Nat, active_partition : {0}, next_partition : Partitions,
         next_size : Nat, next_crc32 : Seq(Byte), next_state : {"new", "pending"}]

OtaTypes ==
    /\ ota \in [Handles -> Update \cup {Closed}]
    /\ image \in [Partitions -> Seq(Byte)]
    /\ meta \in Meta \cup {NoMeta}
    /\ ota_mixed \in SUBSET Partitions

\* The image holds the n bytes that the checksum was taken of.
Holds(bytes, n, crc) ==
    Len(crc) = n /\ n <= Len(bytes) /\ \A i \in 1..n : bytes[i] = crc[i]

OtaInv ==
    /\ OtaTypes
    \* a partition with an update under way is mixed, and no update that is alone
    \* shares its partition
    /\ \A h \in Handles : ota[h].open => ota[h].partition \in ota_mixed
    /\ \A g, h \in Handles : ota[g].open /\ ota[h].open /\ ota[h].alone /\ g # h =>
         ota[g].partition # ota[h].partition
    \* what was written is in the image
    /\ \A h \in Handles : ota[h].open =>
         /\ ota[h].written <= ota[h].expected_size
         /\ ota[h].written <= Len(image[ota[h].partition])
         /\ ota[h].alone => Holds(image[ota[h].partition], ota[h].written, ota[h].crc32)
    /\ meta.magic /\ meta.next_partition \notin ota_mixed =>
         Holds(image[meta.next_partition], meta.next_size, meta.next_crc32)

\* What a write leaves: the bytes before it, its own, and nothing shorter.
LEMMA StoredBytes ==
    ASSUME NEW bytes \in Seq(Byte), NEW at \in 0..Len(bytes), NEW new \in Seq(Byte)
    PROVE  /\ Stored(bytes, at, new) \in Seq(Byte)
           /\ Len(Stored(bytes, at, new)) >= Len(bytes)
           /\ Len(Stored(bytes, at, new)) >= at + Len(new)
           /\ \A i \in 1..at : Stored(bytes, at, new)[i] = bytes[i]
           /\ \A i \in (at + 1)..(at + Len(new)) : Stored(bytes, at, new)[i] = new[i - at]
<1> DEFINE n == IF at + Len(new) > Len(bytes) THEN at + Len(new) ELSE Len(bytes)
           f == [i \in 1..n |-> IF i \in (at + 1)..(at + Len(new)) THEN new[i - at] ELSE bytes[i]]
<1>1. n \in Nat /\ n >= Len(bytes) /\ n >= at + Len(new)
  OBVIOUS
<1>2. Stored(bytes, at, new) = f
  BY Zenon DEF Stored
<1>3. ASSUME NEW i \in 1..n
      PROVE  (IF i \in (at + 1)..(at + Len(new)) THEN new[i - at] ELSE bytes[i]) \in Byte
  BY <1>3
<1>4. f \in Seq(Byte) /\ Len(f) = n
  BY <1>1, <1>3
<1>5. /\ \A i \in 1..at : f[i] = bytes[i]
      /\ \A i \in (at + 1)..(at + Len(new)) : f[i] = new[i - at]
  BY <1>1
<1> QED
  BY <1>1, <1>2, <1>4, <1>5, Zenon

\* A chunk that fits, and a part of it, are sequences of bytes.
LEMMA FittedBytes ==
    ASSUME NEW u \in Update, u.written <= u.expected_size, NEW data \in Chunks
    PROVE  /\ Fitted(u, data) \in Seq(Byte)
           /\ u.written + Len(Fitted(u, data)) <= u.expected_size
           /\ \A n \in 0..Len(Fitted(u, data)) :
                SubSeq(Fitted(u, data), 1, n) \in Seq(Byte)
<1>1. data \in Seq(Byte) /\ u.written \in Nat /\ u.expected_size \in Nat
  BY OtaAssumption DEF Byte, Update
<1>2. Fitted(u, data) \in Seq(Byte) /\ u.written + Len(Fitted(u, data)) <= u.expected_size
  <2>1. CASE u.written + Len(data) > u.expected_size
    <3>1. u.expected_size - u.written \in 0..Len(data)
      BY <1>1, <2>1, SMTT(30)
    <3> QED
      BY <1>1, <2>1, <3>1, SubSeqProperties, SMTT(30) DEF Fitted
  <2>2. CASE ~(u.written + Len(data) > u.expected_size)
    BY <1>1, <2>2 DEF Fitted
  <2> QED
    BY <2>1, <2>2, Zenon
<1> QED
  BY <1>2, SubSeqProperties

\* An open handle is an update.
LEMMA OpenIsUpdate ==
    ASSUME OtaTypes, NEW h \in Handles, ota[h].open
    PROVE  ota[h] \in Update /\ ota[h].partition \in Partitions /\ ota[h].written \in Nat
<1>1. ota[h] \in Update \cup {Closed} /\ ota[h] # Closed
  BY DEF OtaTypes, Closed
<1>2. ota[h] \in Update
  BY <1>1, Zenon
<1> QED
  BY <1>2, Zenon DEF Update

\* ota_begin: the partition is mixed from now on, and updates already on it are
\* no longer alone.
LEMMA BeginKeeps ==
    ASSUME OtaInv, NEW h \in Handles, NEW p \in Partitions, NEW n \in ImageSizes,
           ota_begin(h, p, n)
    PROVE  OtaInv'
<1> DEFINE u == [open |-> TRUE, partition |-> p, expected_size |-> n,
                 written |-> 0, crc32 |-> <<>>, alone |-> OnPartition(p) = {}]
<1>1. /\ ~ota[h].open /\ image' = image /\ meta' = meta /\ ota_mixed' = ota_mixed \cup {p}
      /\ ota' = [g \in Handles |-> IF g = h THEN u
                                   ELSE IF g \in OnPartition(p) THEN [ota[g] EXCEPT !.alone = FALSE]
                                   ELSE ota[g]]
  BY Zenon DEF ota_begin
<1>2. u \in Update
  <2>1. <<>> \in Seq(Byte) /\ n \in Nat
    BY OtaAssumption DEF Byte
  <2> QED
    BY <2>1, Zenon DEF Update
<1>3. ASSUME NEW g \in Handles, g # h
      PROVE  /\ ota'[g] \in Update \cup {Closed}
             /\ ota'[g].open = ota[g].open
             /\ ota[g].open => /\ ota'[g].partition = ota[g].partition
                               /\ ota'[g].written = ota[g].written
                               /\ ota'[g].expected_size = ota[g].expected_size
                               /\ ota'[g].crc32 = ota[g].crc32
                               /\ ota'[g].alone => ota[g].alone /\ ota[g].partition # p
  <2>1. ota[g] \in Update \cup {Closed}
    BY Zenon DEF OtaInv, OtaTypes
  <2>2. CASE g \in OnPartition(p)
    <3>1. ota[g] \in Update /\ ota'[g] = [ota[g] EXCEPT !.alone = FALSE]
      BY <1>1, <1>3, <2>1, <2>2 DEF OnPartition, Closed
    <3> QED
      BY <3>1, ZenonT(40) DEF Update
  <2>3. CASE g \notin OnPartition(p)
    BY <1>1, <1>3, <2>1, <2>3, Zenon DEF OnPartition
  <2> QED
    BY <2>2, <2>3, Zenon
<1>4. /\ ota'[h] = u /\ u.open /\ u.partition = p /\ u.written = 0 /\ u.expected_size = n
      /\ u.crc32 = <<>> /\ (u.alone <=> OnPartition(p) = {})
  BY <1>1, Zenon
<1> HIDE DEF u
<1>5. OtaTypes'
  BY <1>1, <1>2, <1>3, <1>4 DEF OtaInv, OtaTypes
<1>6. \A g \in Handles : ota'[g].open => ota'[g].partition \in ota_mixed'
  BY <1>1, <1>3, <1>4 DEF OtaInv
<1>7. ASSUME NEW g \in Handles, NEW k \in Handles, ota'[g].open, ota'[k].open, ota'[k].alone, g # k
      PROVE  ota'[g].partition # ota'[k].partition
  <2>1. CASE k = h
    BY <1>3, <1>4, <1>7, <2>1, Zenon DEF OnPartition
  <2>2. CASE g = h
    BY <1>3, <1>4, <1>7, <2>2, ZenonT(40)
  <2>3. CASE g # h /\ k # h
    <3>1. ota[g].open /\ ota'[g].partition = ota[g].partition
      BY <1>3, <1>7, <2>3, Zenon
    <3>2. ota[k].open /\ ota'[k].partition = ota[k].partition /\ ota[k].alone
      BY <1>3, <1>7, <2>3, Zenon
    <3>3. ota[g].open /\ ota[k].open /\ ota[k].alone => ota[g].partition # ota[k].partition
      BY <1>7, Zenon DEF OtaInv
    <3> QED
      BY <3>1, <3>2, <3>3, Zenon
  <2> QED
    BY <2>1, <2>2, <2>3, Zenon
<1>8. ASSUME NEW g \in Handles, ota'[g].open
      PROVE  /\ ota'[g].written <= ota'[g].expected_size
             /\ ota'[g].written <= Len(image'[ota'[g].partition])
             /\ ota'[g].alone => Holds(image'[ota'[g].partition], ota'[g].written, ota'[g].crc32)
  <2>1. CASE g = h
    <3>1. image[p] \in Seq(Byte) /\ n \in Nat
      BY OtaAssumption DEF OtaInv, OtaTypes
    <3> QED
      BY <1>1, <1>4, <2>1, <3>1 DEF Holds
  <2>2. CASE g # h
    BY <1>1, <1>3, <1>8, <2>2, Zenon DEF OtaInv
  <2> QED
    BY <2>1, <2>2, Zenon
<1>9. meta'.magic /\ meta'.next_partition \notin ota_mixed' =>
         Holds(image'[meta'.next_partition], meta'.next_size, meta'.next_crc32)
  BY <1>1, Zenon DEF OtaInv
<1> QED
  BY <1>5, <1>6, <1>7, <1>8, <1>9, Zenon DEF OtaInv

\* ota_write: the storage takes the chunk whole, or fails with a part of it.
LEMMA WriteKeeps ==
    ASSUME OtaInv, NEW h \in Handles, NEW data \in Chunks, ota_write(h, data)
    PROVE  OtaInv'
<1> DEFINE u == ota[h]
           p == u.partition
           new == Fitted(u, data)
<1>1. u.open /\ meta' = meta /\ ota_mixed' = ota_mixed
  BY Zenon DEF ota_write
<1>2. /\ u \in Update /\ p \in Partitions /\ u.written \in Nat /\ image[p] \in Seq(Byte)
      /\ u.written <= u.expected_size /\ u.written \in 0..Len(image[p]) /\ p \in ota_mixed
      /\ u.crc32 \in Seq(Byte) /\ u.alone \in BOOLEAN
  <2>1. u \in Update /\ p \in Partitions /\ u.written \in Nat
    BY <1>1, OpenIsUpdate, Zenon DEF OtaInv
  <2>2. image[p] \in Seq(Byte) /\ Len(image[p]) \in Nat
    BY <2>1 DEF OtaInv, OtaTypes
  <2>3. u.written <= u.expected_size /\ u.written <= Len(image[p]) /\ p \in ota_mixed
    BY <1>1, Zenon DEF OtaInv
  <2>4. u.crc32 \in Seq(Byte) /\ u.alone \in BOOLEAN
    BY <2>1, Zenon DEF Update
  <2> HIDE DEF u, p
  <2> QED
    BY <2>1, <2>2, <2>3, <2>4
<1>3. /\ new \in Seq(Byte) /\ u.written + Len(new) <= u.expected_size
      /\ \A n \in 0..Len(new) : SubSeq(new, 1, n) \in Seq(Byte)
  BY <1>2, FittedBytes, Zenon
<1>4. SubSeq(new, 1, Len(new)) = new
  BY <1>3, SMTT(30)
<1>5. PICK part \in Seq(Byte) :
        /\ image' = [image EXCEPT ![p] = Stored(image[p], u.written, part)]
        /\ \/ ota' = ota
           \/ /\ part = new
              /\ ota' = [ota EXCEPT ![h].crc32 = ota_crc32_update(u.crc32, new),
                                    ![h].written = u.written + Len(new)]
  <2>1. CASE ota' = ota /\ \E n \in 0..Len(new) :
               image' = [image EXCEPT ![p] = Stored(image[p], u.written, SubSeq(new, 1, n))]
    BY <1>3, <2>1, Zenon
  <2>2. CASE /\ image' = [image EXCEPT ![p] = Stored(image[p], u.written, SubSeq(new, 1, Len(new)))]
             /\ ota' = [ota EXCEPT ![h].crc32 = ota_crc32_update(u.crc32, new),
                                   ![h].written = u.written + Len(new)]
    BY <1>3, <1>4, <2>2, Zenon
  <2> QED
    BY <2>1, <2>2, Zenon DEF ota_write
<1> DEFINE after == Stored(image[p], u.written, part)
<1>6. /\ after \in Seq(Byte) /\ Len(after) >= Len(image[p])
      /\ Len(after) >= u.written + Len(part)
      /\ \A i \in 1..u.written : after[i] = image[p][i]
      /\ \A i \in (u.written + 1)..(u.written + Len(part)) : after[i] = part[i - u.written]
  <2> DEFINE bytes == image[p]
             at == u.written
  <2>1. bytes \in Seq(Byte) /\ at \in 0..Len(bytes) /\ part \in Seq(Byte)
    BY <1>2, <1>5, Zenon
  <2> HIDE DEF bytes, at
  <2>2. /\ Stored(bytes, at, part) \in Seq(Byte)
        /\ Len(Stored(bytes, at, part)) >= Len(bytes)
        /\ Len(Stored(bytes, at, part)) >= at + Len(part)
        /\ \A i \in 1..at : Stored(bytes, at, part)[i] = bytes[i]
        /\ \A i \in (at + 1)..(at + Len(part)) : Stored(bytes, at, part)[i] = part[i - at]
    BY ONLY <2>1, StoredBytes, Zenon
  <2> QED
    BY <2>2, Zenon DEF bytes, at
<1> HIDE DEF after
<1>7. /\ image' \in [Partitions -> Seq(Byte)] /\ image'[p] = after
      /\ \A q \in Partitions : q # p => image'[q] = image[q]
  BY <1>2, <1>5, <1>6, ZenonT(40) DEF OtaInv, OtaTypes, after
<1> DEFINE v == [u EXCEPT !.crc32 = u.crc32 \o new, !.written = u.written + Len(new)]
<1>8. \/ ota' = ota
      \/ part = new /\ ota' = [ota EXCEPT ![h] = v]
  BY <1>2, <1>5, Zenon DEF ota_crc32_update, OtaInv, OtaTypes, Update
<1>9. /\ u.crc32 \o new \in Seq(Byte) /\ Len(u.crc32 \o new) = Len(u.crc32) + Len(new)
      /\ \A i \in 1..Len(u.crc32) : (u.crc32 \o new)[i] = u.crc32[i]
      /\ \A i \in (Len(u.crc32) + 1)..(Len(u.crc32) + Len(new)) :
           (u.crc32 \o new)[i] = new[i - Len(u.crc32)]
  <2> DEFINE c == u.crc32
  <2>1. c \in Seq(Byte) /\ new \in Seq(Byte)
    BY <1>2, <1>3, Zenon
  <2> HIDE DEF c, new
  <2>2. /\ c \o new \in Seq(Byte) /\ Len(c \o new) = Len(c) + Len(new)
        /\ \A i \in 1..Len(c) : (c \o new)[i] = c[i]
        /\ \A i \in (Len(c) + 1)..(Len(c) + Len(new)) : (c \o new)[i] = new[i - Len(c)]
    BY ONLY <2>1
  <2> QED
    BY <2>2, Zenon DEF c
<1> DEFINE crc == u.crc32 \o new
<1> HIDE DEF crc
<1>10. /\ v \in Update /\ v.open /\ v.partition = p /\ v.expected_size = u.expected_size
       /\ v.crc32 = crc /\ v.written = u.written + Len(new) /\ v.alone = u.alone
  <2>1. crc \in Seq(Byte) /\ v = [u EXCEPT !.crc32 = crc, !.written = u.written + Len(new)]
    BY <1>9, Zenon DEF crc
  <2> DEFINE n == u.written + Len(new)
  <2>2. n \in Nat
    BY <1>2, <1>3
  <2>3. u \in Update /\ u.partition = p
    BY <1>2, Zenon
  <2> HIDE DEF n, u, p, new, v
  <2>4. v = [u EXCEPT !.crc32 = crc, !.written = n]
    BY <2>1, Zenon DEF n
  <2>5. /\ v \in Update /\ v.open /\ v.partition = u.partition
        /\ v.expected_size = u.expected_size
        /\ v.crc32 = crc /\ v.written = n /\ v.alone = u.alone
    BY ONLY <2>1, <2>2, <2>3, <2>4, Zenon DEF Update
  <2> QED
    BY <2>3, <2>5, Zenon DEF n
<1> HIDE DEF new, v, p
<1>11. OtaTypes'
  BY <1>1, <1>7, <1>8, <1>10, Zenon DEF OtaInv, OtaTypes
<1>12. ASSUME NEW g \in Handles
       PROVE  /\ ota'[g].open = ota[g].open
              /\ ota[g].open => /\ ota'[g].partition = ota[g].partition
                                /\ ota'[g].alone = ota[g].alone
  <2>1. CASE g = h /\ ota' # ota
    <3>1. ota'[g] = v /\ ota[g] = u
      BY <1>8, <2>1, Zenon DEF OtaInv, OtaTypes
    <3> QED
      BY <1>2, <1>10, <3>1, Zenon DEF p, Update
  <2>2. CASE g # h \/ ota' = ota
    BY <1>8, <2>2, Zenon DEF OtaInv, OtaTypes
  <2> QED
    BY <2>1, <2>2, Zenon
<1>13. ASSUME NEW g \in Handles, ota[g].open, ota[g].partition # p
       PROVE  ota'[g] = ota[g] /\ image'[ota[g].partition] = image[ota[g].partition]
  <2>1. g # h /\ ota[g].partition \in Partitions
    BY <1>13, OpenIsUpdate, Zenon DEF p, OtaInv
  <2>2. ota'[g] = ota[g]
    BY <1>8, <2>1, Zenon DEF OtaInv, OtaTypes
  <2>3. image'[ota[g].partition] = image[ota[g].partition]
    BY <1>7, <1>13, <2>1, Zenon
  <2> QED
    BY <2>2, <2>3, Zenon
<1>14. \A g \in Handles : ota'[g].open => ota'[g].partition \in ota_mixed'
  BY <1>1, <1>12, Zenon DEF OtaInv
<1>15. ASSUME NEW g \in Handles, NEW k \in Handles, ota'[g].open, ota'[k].open, ota'[k].alone, g # k
       PROVE  ota'[g].partition # ota'[k].partition
  <2>1. /\ ota[g].open /\ ota'[g].partition = ota[g].partition
        /\ ota[k].open /\ ota'[k].partition = ota[k].partition /\ ota[k].alone
    BY <1>12, <1>15, Zenon
  <2> QED BY <1>15, <2>1, Zenon DEF OtaInv
<1>16. ASSUME NEW g \in Handles, ota'[g].open
       PROVE  /\ ota'[g].written <= ota'[g].expected_size
              /\ ota'[g].written <= Len(image'[ota'[g].partition])
              /\ ota'[g].alone => Holds(image'[ota'[g].partition], ota'[g].written, ota'[g].crc32)
  <2>1. CASE ota[g].partition # p
    <3>1. ota[g].open /\ ota'[g] = ota[g] /\ image'[ota[g].partition] = image[ota[g].partition]
      BY <1>12, <1>13, <1>16, <2>1, Zenon
    <3> QED BY <3>1, Zenon DEF OtaInv
  <2>2. CASE ota[g].partition = p /\ g # h
    <3>1. ota'[g] = ota[g] /\ ~ota[g].alone
      BY <1>1, <1>8, <1>12, <1>16, <2>2, Zenon DEF OtaInv, OtaTypes, p
    <3>2. ota[g].open /\ ota[g].written \in Nat /\ ota[g].written <= Len(image[p])
      BY <1>12, <1>16, <2>2, OpenIsUpdate, Zenon DEF OtaInv
    <3>3. ota[g].written <= Len(image'[p])
      BY <1>2, <1>6, <1>7, <3>2
    <3> QED
      BY <1>12, <1>16, <2>2, <3>1, <3>3, Zenon DEF OtaInv
  <2>3. CASE g = h /\ ota' = ota
    <3>1. u.written <= Len(image'[p])
      BY <1>2, <1>6, <1>7 DEF p
    <3>2. u.alone => Holds(image[p], u.written, u.crc32)
      BY <1>1, Zenon DEF OtaInv, p
    <3>3. u.alone => Holds(image'[p], u.written, u.crc32)
      BY <1>6, <1>7, <3>1, <3>2, Zenon DEF Holds
    <3> QED
      BY <1>2, <2>3, <3>1, <3>3, Zenon DEF p
  <2>4. CASE g = h /\ part = new /\ ota' = [ota EXCEPT ![h] = v]
    <3>1. ota'[g] = v
      BY <2>4, Zenon DEF OtaInv, OtaTypes
    <3>2. /\ v.written <= v.expected_size
          /\ v.written <= Len(image'[p])
      BY <1>3, <1>6, <1>7, <1>10, <2>4, Zenon
    <3>3. u.alone => Holds(image[p], u.written, u.crc32)
      BY <1>1, Zenon DEF OtaInv, p
    <3>4. ASSUME u.alone PROVE Holds(after, u.written + Len(new), crc)
      <4>1. Len(u.crc32) = u.written /\ \A i \in 1..u.written : image[p][i] = u.crc32[i]
        BY <3>3, <3>4, Zenon DEF Holds
      <4>2. Len(crc) = u.written + Len(new) /\ u.written + Len(new) <= Len(after)
        BY <1>6, <1>9, <2>4, <4>1, Zenon DEF crc
      <4>3. ASSUME NEW i \in 1..(u.written + Len(new)) PROVE after[i] = crc[i]
        <5>1. u.written \in Nat /\ Len(new) \in Nat
          BY <1>2, <1>3, SMTT(30)
        <5>2. CASE i <= u.written
          BY <1>6, <1>9, <4>1, <5>1, <5>2, SMTT(30) DEF crc
        <5>3. CASE i > u.written
          <6>1. i \in (u.written + 1)..(u.written + Len(new))
            BY <5>1, <5>3
          <6>2. after[i] = new[i - u.written]
            BY <1>6, <2>4, <6>1, Zenon
          <6>3. crc[i] = new[i - u.written]
            BY <1>9, <4>1, <6>1, Zenon DEF crc
          <6> QED
            BY <6>2, <6>3, Zenon
        <5> QED
          BY <5>1, <5>2, <5>3, SMTT(30)
      <4> QED
        BY <4>2, <4>3, Zenon DEF Holds
    <3> QED
      BY <1>7, <1>10, <3>1, <3>2, <3>4, Zenon
  <2> QED
    BY <1>8, <2>1, <2>2, <2>3, <2>4, Zenon
<1>17. ASSUME meta'.magic, meta'.next_partition \notin ota_mixed'
       PROVE  Holds(image'[meta'.next_partition], meta'.next_size, meta'.next_crc32)
  <2>1. meta \in Meta
    <3>1. meta \in Meta \cup {NoMeta} /\ meta' = meta
      BY <1>1, Zenon DEF OtaInv, OtaTypes
    <3>2. ~NoMeta.magic
      BY Zenon DEF NoMeta
    <3> QED BY <1>17, <3>1, <3>2, Zenon
  <2>2. meta.next_partition \in Partitions /\ meta.next_partition # p
    BY <1>1, <1>2, <1>17, <2>1, Zenon DEF Meta, p
  <2> QED
    BY <1>1, <1>7, <1>17, <2>2, Zenon DEF OtaInv
<1> QED
  BY <1>11, <1>14, <1>15, <1>16, <1>17, Zenon DEF OtaInv

\* ota_end and ota_abort close the handle; what stays open is as it was.
LEMMA CloseKeeps ==
    ASSUME OtaInv, NEW h \in Handles, ota[h].open, ota' = [ota EXCEPT ![h] = Closed],
           image' = image
    PROVE  /\ ota' \in [Handles -> Update \cup {Closed}]
           /\ \A g \in Handles : ota'[g].open => g # h /\ ota'[g] = ota[g] /\ ota[g].open
           /\ \A g, k \in Handles : ota'[g].open /\ ota'[k].open /\ ota'[k].alone /\ g # k =>
                ota'[g].partition # ota'[k].partition
           /\ \A g \in Handles : ota'[g].open =>
                /\ ota'[g].written <= ota'[g].expected_size
                /\ ota'[g].written <= Len(image'[ota'[g].partition])
                /\ ota'[g].alone =>
                     Holds(image'[ota'[g].partition], ota'[g].written, ota'[g].crc32)
<1>1. ota' \in [Handles -> Update \cup {Closed}]
  BY Zenon DEF OtaInv, OtaTypes
<1>2. ASSUME NEW g \in Handles, ota'[g].open
      PROVE  g # h /\ ota'[g] = ota[g] /\ ota[g].open
  BY <1>2, Zenon DEF OtaInv, OtaTypes, Closed
<1> QED
  BY <1>1, <1>2 DEF OtaInv

\* ota_abort leaves the image and the record alone.
LEMMA AbortKeeps ==
    ASSUME OtaInv, NEW h \in Handles, ota_abort(h)
    PROVE  OtaInv'
BY CloseKeeps, Zenon DEF ota_abort, OtaInv, OtaTypes

\* ota_end: the record written is of the image the handle wrote, and the
\* partition stops being mixed only for an update that was alone on it.
LEMMA EndKeeps ==
    ASSUME OtaInv, NEW h \in Handles, NEW verify_signature \in BOOLEAN,
           ota_end(h, verify_signature)
    PROVE  OtaInv'
<1> DEFINE u == ota[h]
           r == Record(u, verify_signature)
<1>1. u.open /\ ota' = [ota EXCEPT ![h] = Closed] /\ image' = image
  BY Zenon DEF ota_end
<1>2. u \in Update /\ u.partition \in Partitions /\ u.written \in Nat /\ u.crc32 \in Seq(Byte)
  BY <1>1, OpenIsUpdate, Zenon DEF OtaInv, Update
<1>3. /\ ota' \in [Handles -> Update \cup {Closed}]
      /\ \A g \in Handles : ota'[g].open => g # h /\ ota'[g] = ota[g] /\ ota[g].open
      /\ \A g, k \in Handles : ota'[g].open /\ ota'[k].open /\ ota'[k].alone /\ g # k =>
           ota'[g].partition # ota'[k].partition
      /\ \A g \in Handles : ota'[g].open =>
           /\ ota'[g].written <= ota'[g].expected_size
           /\ ota'[g].written <= Len(image'[ota'[g].partition])
           /\ ota'[g].alone =>
                Holds(image'[ota'[g].partition], ota'[g].written, ota'[g].crc32)
  BY <1>1, CloseKeeps, Zenon
<1>4. CASE meta' = meta /\ ota_mixed' = ota_mixed
  BY <1>1, <1>3, <1>4, Zenon DEF OtaInv, OtaTypes
<1>5. CASE /\ meta' = r
           /\ ota_mixed' = IF u.alone THEN ota_mixed \ {u.partition} ELSE ota_mixed
  <2>1. /\ r \in Meta /\ r.next_partition = u.partition
        /\ \/ r.next_size = u.written /\ r.next_crc32 = u.crc32
           \/ r.next_size = 0 /\ r.next_crc32 = <<>>
    <3>1. CASE meta.magic
      <4>1. meta \in Meta
        BY <3>1 DEF OtaInv, OtaTypes, NoMeta
      <4> DEFINE n == meta.sequence + 1
                 st == IF verify_signature THEN "pending" ELSE "new"
      <4>2. n \in Nat /\ st \in {"new", "pending"}
        BY <4>1 DEF Meta
      <4>3. r = [meta EXCEPT !.sequence = n, !.next_partition = u.partition,
                             !.next_size = u.written, !.next_crc32 = u.crc32,
                             !.next_state = st]
        BY <3>1, <4>1, Zenon DEF Record, Meta
      <4> HIDE DEF u, r, n, st
      <4> QED
        BY <1>2, <4>1, <4>2, <4>3, Zenon DEF Meta
    <3>2. CASE ~meta.magic
      <4>1. r = [magic |-> TRUE, sequence |-> 1, active_partition |-> 0,
                 next_partition |-> u.partition, next_size |-> 0, next_crc32 |-> <<>>,
                 next_state |-> "new"]
        BY <3>2, Zenon DEF Record
      <4>2. <<>> \in Seq(Byte)
        OBVIOUS
      <4> HIDE DEF u, r
      <4> QED
        BY <1>2, <4>1, <4>2, Zenon DEF Meta
    <3> QED
      BY <3>1, <3>2, Zenon
  <2> HIDE DEF r
  <2>2. OtaTypes'
    BY <1>1, <1>3, <1>5, <2>1, Zenon DEF OtaInv, OtaTypes
  <2>3. \A g \in Handles : ota'[g].open => ota'[g].partition \in ota_mixed'
    BY <1>1, <1>3, <1>5, Zenon DEF OtaInv
  <2>4. ASSUME meta'.next_partition \notin ota_mixed'
        PROVE  Holds(image'[meta'.next_partition], meta'.next_size, meta'.next_crc32)
    <3>1. u.alone
      BY <1>1, <1>5, <2>1, <2>4, Zenon DEF OtaInv
    <3>2. Holds(image[u.partition], u.written, u.crc32)
      BY <1>1, <3>1, Zenon DEF OtaInv
    <3>3. image[u.partition] \in Seq(Byte)
      BY <1>2, Zenon DEF OtaInv, OtaTypes
    <3>4. Holds(image[u.partition], 0, <<>>)
      BY <3>3 DEF Holds
    <3> QED
      BY <1>1, <1>5, <2>1, <3>2, <3>4, Zenon
  <2> QED
    BY <1>3, <2>2, <2>3, <2>4, Zenon DEF OtaInv
<1> QED
  BY <1>4, <1>5, Zenon DEF ota_end

\* The bytes an image holds are its first ones.
LEMMA HoldsIsPrefix ==
    ASSUME NEW bytes \in Seq(Byte), NEW n \in Nat, NEW crc \in Seq(Byte), Holds(bytes, n, crc)
    PROVE  SubSeq(bytes, 1, n) = crc
<1>1. Len(crc) = n /\ n <= Len(bytes) /\ \A i \in 1..n : bytes[i] = crc[i]
  BY Zenon DEF Holds
<1>2. SubSeq(bytes, 1, n) = [i \in 1..n |-> bytes[i]]
  BY <1>1
<1>3. crc = [i \in 1..n |-> crc[i]]
  BY <1>1
<1> QED
  BY <1>1, <1>2, <1>3, Zenon

\* A firmware record always describes the image of its partition: whatever writes
\* failed half way, whatever was retried, aborted or written to the other
\* partition, the bytes the record counts are the bytes its checksum was taken of.
THEOREM RecordsDescribeImages == OtaSpec => []RecordDescribesImage
<1>1. OtaInit => OtaInv
  <2> SUFFICES ASSUME OtaInit PROVE OtaInv
    BY Zenon
  <2>1. \A h \in Handles : ota[h] = Closed /\ ~ota[h].open
    BY Zenon DEF OtaInit, Closed
  <2>2. ~meta.magic
    BY Zenon DEF OtaInit, NoMeta
  <2>3. OtaTypes
    BY DEF OtaInit, OtaTypes
  <2> QED
    BY <2>1, <2>2, <2>3, Zenon DEF OtaInv
<1>2. OtaInv /\ [OtaNext]_otaVars => OtaInv'
  <2> SUFFICES ASSUME OtaInv, [OtaNext]_otaVars PROVE OtaInv'
    BY Zenon
  <2>1. CASE UNCHANGED otaVars
    BY <2>1, Zenon DEF otaVars, OtaInv, OtaTypes
  <2>2. ASSUME NEW h \in Handles,
               \/ \E p \in Partitions, n \in ImageSizes : ota_begin(h, p, n)
               \/ \E c \in Chunks : ota_write(h, c)
               \/ \E v \in BOOLEAN : ota_end(h, v)
               \/ ota_abort(h)
        PROVE  OtaInv'
    BY <2>2, BeginKeeps, WriteKeeps, EndKeeps, AbortKeeps, Zenon
  <2> QED
    BY <2>1, <2>2, Zenon DEF OtaNext
<1>3. OtaInv => RecordDescribesImage
  <2> SUFFICES ASSUME OtaInv, meta.magic, meta.next_partition \notin ota_mixed
               PROVE  SubSeq(image[meta.next_partition], 1, meta.next_size) = meta.next_crc32
    BY Zenon DEF RecordDescribesImage
  <2>1. meta \in Meta
    BY DEF OtaInv, OtaTypes, NoMeta
  <2>2. /\ meta.next_partition \in Partitions /\ meta.next_size \in Nat
        /\ meta.next_crc32 \in Seq(Byte)
    BY <2>1, Zenon DEF Meta
  <2>3. image[meta.next_partition] \in Seq(Byte)
    BY <2>2, Zenon DEF OtaInv, OtaTypes
  <2>4. Holds(image[meta.next_partition], meta.next_size, meta.next_crc32)
    BY Zenon DEF OtaInv
  <2> QED
    BY <2>2, <2>3, <2>4, HoldsIsPrefix, Zenon
<1> QED
  BY <1>1, <1>2, <1>3, PTL DEF OtaSpec

=============================================================================
