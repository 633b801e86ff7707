--------------------------- MODULE AppPowerProofs ---------------------------
(***************************************************************************)
(* Proofs about the apps and the power they ask for.                       *)
(*                                                                         *)
(* For every number of apps, task slots and pins: the apps and their tasks *)
(* agree, the kit keeps no pointer to a dead context, and the power demand *)
(* follows the focus. Agree is the inductive invariant, as a predicate on  *)
(* the parts of a world and the task c that runs. It adds to the           *)
(* properties that every live task is the task of its app, that its        *)
(* context is registered once it is past its entry, and that only c is     *)
(* RUNNING. While c runs, its app may already be suspended by its own      *)
(* frame, or its context taken off the registry by its own exit; KitInv    *)
(* says it is neither between two steps.                                   *)
(*                                                                         *)
(* The power governor for every board and every input (GovInv, and what a  *)
(* window may do to the level), and the drivers of the sleep calls         *)
(* (SleepInv, which is AwakeAtRest with the types of the variables).       *)
(***************************************************************************)
EXTENDS AppKit, PowerGovernor, Sleep, TLAPS

-----------------------------------------------------------------------------
(* The apps and their tasks.                                               *)

Slot == TaskSlots \cup {Nil}
Life == [TaskSlots -> LifeStates]
AppLife == [Apps -> AppStates]
AppSlots == [Apps -> Slot]
Places == [TaskSlots -> {"entry", "loop", "frame"}]
Owners == [TaskSlots -> Apps \cup {Nil}]

Gone == {"FREE", "TERMINATED"}

Agree(s, app, task, at, own, reg, fg, home, c) ==
    /\ \A t \in TaskSlots : s[t] = "RUNNING" <=> t = c
    /\ \A t \in TaskSlots : s[t] \notin Gone =>
         /\ own[t] \in Apps
         /\ task[own[t]] = t
         /\ t # c /\ at[t] # "entry" => reg[own[t]] = t
    /\ \A a \in Apps : app[a] \in {"RUNNING", "SUSPENDED"} <=> task[a] # Nil
    /\ \A a \in Apps : task[a] # Nil =>
         /\ own[task[a]] = a
         /\ s[task[a]] \notin Gone
         /\ task[a] # c => (s[task[a]] = "SUSPENDED" <=> app[a] = "SUSPENDED")
    /\ \A a \in Apps : reg[a] # Nil => reg[a] = task[a] /\ at[reg[a]] # "entry"
    /\ home # Nil => home = reg[Home]
    /\ fg # Nil => s[fg] \notin Gone /\ at[fg] # "entry" /\ reg[own[fg]] = fg

-----------------------------------------------------------------------------
(* What apps/app.c does to the agreement. *)

\* app_start takes a free slot for an app that has none.
LEMMA StartAgrees ==
    ASSUME NEW s \in Life, NEW app \in AppLife, NEW task \in AppSlots, NEW at \in Places,
           NEW own \in Owners, NEW reg \in AppSlots, NEW fg \in Slot, NEW home \in Slot, NEW c,
           Agree(s, app, task, at, own, reg, fg, home, c),
           NEW a \in Apps, NEW t \in TaskSlots,
           app[a] \in {"INSTALLED", "STOPPED"}, s[t] = "FREE"
    PROVE  Agree([s EXCEPT ![t] = "READY"], [app EXCEPT ![a] = "RUNNING"],
                 [task EXCEPT ![a] = t], [at EXCEPT ![t] = "entry"], [own EXCEPT ![t] = a],
                 reg, fg, home, c)
<1> DEFINE s2 == [s EXCEPT ![t] = "READY"]
           app2 == [app EXCEPT ![a] = "RUNNING"]
           task2 == [task EXCEPT ![a] = t]
           at2 == [at EXCEPT ![t] = "entry"]
           own2 == [own EXCEPT ![t] = a]
<1>1. /\ \A x \in TaskSlots : /\ s2[x] = IF x = t THEN "READY" ELSE s[x]
                              /\ at2[x] = IF x = t THEN "entry" ELSE at[x]
                              /\ own2[x] = IF x = t THEN a ELSE own[x]
      /\ \A b \in Apps : /\ app2[b] = IF b = a THEN "RUNNING" ELSE app[b]
                         /\ task2[b] = IF b = a THEN t ELSE task[b]
  BY Zenon DEF Life, AppLife, AppSlots, Places, Owners
<1>2. task[a] = Nil /\ reg[a] = Nil /\ t # Nil /\ t # c /\ t # fg
  BY NilAssumption, SMTT(30) DEF Agree, Gone, AppSlots, Slot
<1>3. \A b \in Apps : task[b] # t /\ task[b] \in Slot /\ reg[b] \in Slot
  BY <1>2 DEF Agree, Gone, AppSlots
<1>4. \A x \in TaskSlots : s[x] \notin Gone => own[x] # a
  BY <1>2, NilAssumption DEF Agree
<1> HIDE DEF s2, app2, task2, at2, own2
<1>5. ASSUME NEW x \in TaskSlots PROVE s2[x] = "RUNNING" <=> x = c
  <2>1. CASE x = t
    BY <1>1, <1>2, <2>1, Zenon
  <2>2. CASE x # t
    BY <1>1, <2>2, SMTT(30) DEF Agree
  <2> QED
    BY <2>1, <2>2, Zenon
<1>6. \A x \in TaskSlots : s2[x] \notin Gone =>
         own2[x] \in Apps /\ task2[own2[x]] = x /\ (x # c /\ at2[x] # "entry" => reg[own2[x]] = x)
  BY <1>1, <1>4, SMTT(30) DEF Agree
<1>7. \A b \in Apps : app2[b] \in {"RUNNING", "SUSPENDED"} <=> task2[b] # Nil
  BY <1>1, <1>2, SMTT(30) DEF Agree
<1>8. \A b \in Apps : task2[b] # Nil =>
         /\ own2[task2[b]] = b
         /\ s2[task2[b]] \notin Gone
         /\ task2[b] # c => (s2[task2[b]] = "SUSPENDED" <=> app2[b] = "SUSPENDED")
  <2> SUFFICES ASSUME NEW b \in Apps, task2[b] # Nil
               PROVE  /\ own2[task2[b]] = b
                      /\ s2[task2[b]] \notin Gone
                      /\ task2[b] # c => (s2[task2[b]] = "SUSPENDED" <=> app2[b] = "SUSPENDED")
    BY Zenon
  <2>1. CASE b = a
    BY <1>1, <2>1, Zenon DEF Gone
  <2>2. CASE b # a
    <3>1. task[b] \in TaskSlots /\ task[b] # t /\ task2[b] = task[b] /\ app2[b] = app[b]
      BY <1>1, <1>3, <2>2, SMTT(30) DEF Slot
    <3>2. s2[task[b]] = s[task[b]] /\ own2[task[b]] = own[task[b]]
      BY <1>1, <3>1, Zenon
    <3> QED
      BY <3>1, <3>2, SMTT(30) DEF Agree
  <2> QED
    BY <2>1, <2>2, Zenon
<1>9. \A b \in Apps : reg[b] # Nil => reg[b] = task2[b] /\ at2[reg[b]] # "entry"
  <2> SUFFICES ASSUME NEW b \in Apps, reg[b] # Nil
               PROVE  reg[b] = task2[b] /\ at2[reg[b]] # "entry"
    BY Zenon
  <2>1. b # a
    BY <1>2, Zenon
  <2>2. reg[b] = task[b] /\ at[reg[b]] # "entry" /\ reg[b] \in TaskSlots /\ reg[b] # t
    BY <1>3, SMTT(30) DEF Agree, Slot
  <2> QED
    BY <1>1, <2>1, <2>2, Zenon
<1>10. fg # Nil => s2[fg] \notin Gone /\ at2[fg] # "entry" /\ reg[own2[fg]] = fg
  BY <1>1, <1>2 DEF Agree, Slot
<1> QED
  BY <1>5, <1>6, <1>7, <1>8, <1>9, <1>10, Zenon DEF Agree, s2, app2, task2, at2, own2

\* app_suspend parks the task of a running app, unless it is the one that runs.
LEMMA SuspendAgrees ==
    ASSUME NEW s \in Life, NEW app \in AppLife, NEW task \in AppSlots, NEW at \in Places,
           NEW own \in Owners, NEW reg \in AppSlots, NEW fg \in Slot, NEW home \in Slot, NEW c,
           Agree(s, app, task, at, own, reg, fg, home, c),
           NEW a \in Apps, app[a] = "RUNNING",
           NEW s2 \in Life,
           s2 = IF task[a] # Nil /\ s[task[a]] \in {"READY", "BLOCKED"}
                THEN [s EXCEPT ![task[a]] = "SUSPENDED"] ELSE s
    PROVE  Agree(s2, [app EXCEPT ![a] = "SUSPENDED"], task, at, own, reg, fg, home, c)
<1> DEFINE app2 == [app EXCEPT ![a] = "SUSPENDED"]
           t == task[a]
<1>1. \A b \in Apps : app2[b] = IF b = a THEN "SUSPENDED" ELSE app[b]
  BY Zenon DEF AppLife
<1>2. t \in TaskSlots /\ t # Nil /\ own[t] = a /\ s[t] \notin Gone /\ s[t] \in LifeStates
  BY NilAssumption, SMTT(30) DEF Agree, AppSlots, Slot, Life
<1>3. \A x \in TaskSlots : s2[x] = IF x = t /\ s[x] \in {"READY", "BLOCKED"} THEN "SUSPENDED" ELSE s[x]
  BY <1>2, Zenon DEF Life
<1>4. t # c => s[t] \in {"READY", "BLOCKED"}
  BY <1>2, Zenon DEF Agree, LifeStates, Gone
<1>5. \A b \in Apps : b # a /\ task[b] # Nil => task[b] \in TaskSlots /\ task[b] # t
  BY <1>2, SMTT(30) DEF Agree, AppSlots, Slot
<1> HIDE DEF app2, t
<1>6. ASSUME NEW x \in TaskSlots
      PROVE  (s2[x] \in Gone <=> s[x] \in Gone) /\ (s2[x] = "RUNNING" <=> s[x] = "RUNNING")
  <2>1. CASE s2[x] = s[x]
    BY <2>1, Zenon
  <2>2. CASE s2[x] # s[x]
    <3>1. s2[x] \notin Gone /\ s2[x] # "RUNNING" /\ s[x] \notin Gone /\ s[x] # "RUNNING"
      BY <1>3, <2>2, SMTT(30) DEF Gone
    <3> QED
      BY <3>1, Zenon
  <2> QED
    BY <2>1, <2>2, Zenon
<1>7. \A b \in Apps : app2[b] \in {"RUNNING", "SUSPENDED"} <=> app[b] \in {"RUNNING", "SUSPENDED"}
  BY <1>1, Zenon
<1>8. ASSUME NEW b \in Apps, task[b] # Nil, task[b] # c
      PROVE  s2[task[b]] = "SUSPENDED" <=> app2[b] = "SUSPENDED"
  <2>1. CASE b = a
    BY <1>1, <1>2, <1>3, <1>4, <1>8, <2>1, Zenon DEF t
  <2>2. CASE b # a
    BY <1>1, <1>3, <1>5, <1>8, <2>2 DEF Agree
  <2> QED
    BY <2>1, <2>2, Zenon
<1>9. \A b \in Apps : task[b] # Nil => task[b] \in TaskSlots
  BY Zenon DEF AppSlots, Slot
<1>10. fg # Nil => fg \in TaskSlots
  BY Zenon DEF Slot
<1> HIDE DEF app2
<1>11. Agree(s2, app2, task, at, own, reg, fg, home, c)
  BY <1>6, <1>7, <1>8, <1>9, <1>10 DEF Agree
<1> QED
  BY <1>11, Zenon DEF app2

\* app_resume makes a parked task ready.
LEMMA ResumeAgrees ==
    ASSUME NEW s \in Life, NEW app \in AppLife, NEW task \in AppSlots, NEW at \in Places,
           NEW own \in Owners, NEW reg \in AppSlots, NEW fg \in Slot, NEW home \in Slot, NEW c,
           Agree(s, app, task, at, own, reg, fg, home, c),
           NEW a \in Apps, app[a] = "SUSPENDED",
           NEW s2 \in Life,
           s2 = IF task[a] # Nil /\ s[task[a]] = "SUSPENDED"
                THEN [s EXCEPT ![task[a]] = "READY"] ELSE s
    PROVE  Agree(s2, [app EXCEPT ![a] = "RUNNING"], task, at, own, reg, fg, home, c)
<1> DEFINE app2 == [app EXCEPT ![a] = "RUNNING"]
           t == task[a]
<1>1. \A b \in Apps : app2[b] = IF b = a THEN "RUNNING" ELSE app[b]
  BY Zenon DEF AppLife
<1>2. t \in TaskSlots /\ t # Nil /\ own[t] = a /\ s[t] \notin Gone
  BY NilAssumption, SMTT(30) DEF Agree, AppSlots, Slot
<1>3. \A x \in TaskSlots : s2[x] = IF x = t /\ s[x] = "SUSPENDED" THEN "READY" ELSE s[x]
  BY <1>2, Zenon DEF Life
<1>4. \A b \in Apps : b # a /\ task[b] # Nil => task[b] \in TaskSlots /\ task[b] # t
  BY <1>2, SMTT(30) DEF Agree, AppSlots, Slot
<1> HIDE DEF app2, t
<1>5. ASSUME NEW x \in TaskSlots
      PROVE  (s2[x] \in Gone <=> s[x] \in Gone) /\ (s2[x] = "RUNNING" <=> s[x] = "RUNNING")
  <2>1. CASE s2[x] = s[x]
    BY <2>1, Zenon
  <2>2. CASE s2[x] # s[x]
    <3>1. s2[x] \notin Gone /\ s2[x] # "RUNNING" /\ s[x] \notin Gone /\ s[x] # "RUNNING"
      BY <1>3, <2>2, SMTT(30) DEF Gone
    <3> QED
      BY <3>1, Zenon
  <2> QED
    BY <2>1, <2>2, Zenon
<1>6. \A b \in Apps : app2[b] \in {"RUNNING", "SUSPENDED"} <=> app[b] \in {"RUNNING", "SUSPENDED"}
  BY <1>1, Zenon
<1>7. ASSUME NEW b \in Apps, task[b] # Nil, task[b] # c
      PROVE  s2[task[b]] = "SUSPENDED" <=> app2[b] = "SUSPENDED"
  <2>1. CASE b = a
    BY <1>1, <1>2, <1>3, <1>7, <2>1, SMTT(30) DEF t
  <2>2. CASE b # a
    BY <1>1, <1>3, <1>4, <1>7, <2>2 DEF Agree
  <2> QED
    BY <2>1, <2>2, Zenon
<1>8. \A b \in Apps : task[b] # Nil => task[b] \in TaskSlots
  BY Zenon DEF AppSlots, Slot
<1>9. fg # Nil => fg \in TaskSlots
  BY Zenon DEF Slot
<1>10. Agree(s2, app2, task, at, own, reg, fg, home, c)
  BY <1>5, <1>6, <1>7, <1>8, <1>9 DEF Agree
<1> QED
  BY <1>10, Zenon DEF app2

\* app_stop of an app whose task has not run yet frees the task's slot.
LEMMA StopAgrees ==
    ASSUME NEW s \in Life, NEW app \in AppLife, NEW task \in AppSlots, NEW at \in Places,
           NEW own \in Owners, NEW reg \in AppSlots, NEW fg \in Slot, NEW home \in Slot, NEW c,
           Agree(s, app, task, at, own, reg, fg, home, c),
           NEW a \in Apps, app[a] = "RUNNING", reg[a] = Nil, task[a] # c
    PROVE  Agree([s EXCEPT ![task[a]] = "FREE"], [app EXCEPT ![a] = "STOPPED"],
                 [task EXCEPT ![a] = Nil], at, own, reg, fg, home, c)
<1> DEFINE t == task[a]
           s2 == [s EXCEPT ![t] = "FREE"]
           app2 == [app EXCEPT ![a] = "STOPPED"]
           task2 == [task EXCEPT ![a] = Nil]
<1>1. t \in TaskSlots /\ t # Nil /\ own[t] = a /\ s[t] \notin Gone
  BY NilAssumption, SMTT(30) DEF Agree, AppSlots, Slot
<1>2. \A b \in Apps : b # a /\ task[b] # Nil => task[b] \in TaskSlots /\ task[b] # t
  BY <1>1, SMTT(30) DEF Agree, AppSlots, Slot
<1>3. at[t] = "entry" /\ fg # t
  BY <1>1, NilAssumption DEF Agree
<1>4. /\ \A x \in TaskSlots : s2[x] = IF x = t THEN "FREE" ELSE s[x]
      /\ \A b \in Apps : /\ app2[b] = IF b = a THEN "STOPPED" ELSE app[b]
                         /\ task2[b] = IF b = a THEN Nil ELSE task[b]
  BY Zenon DEF Life, AppLife, AppSlots
<1> HIDE DEF s2, app2, task2, t
<1>5. ASSUME NEW x \in TaskSlots PROVE s2[x] = "RUNNING" <=> x = c
  <2>1. CASE x = t
    BY <1>1, <1>4, <2>1, Zenon DEF t
  <2>2. CASE x # t
    BY <1>4, <2>2 DEF Agree
  <2> QED
    BY <2>1, <2>2, Zenon
<1>6. \A x \in TaskSlots : s2[x] \notin Gone =>
         own[x] \in Apps /\ task2[own[x]] = x /\ (x # c /\ at[x] # "entry" => reg[own[x]] = x)
  <2> SUFFICES ASSUME NEW x \in TaskSlots, s2[x] \notin Gone
               PROVE  own[x] \in Apps /\ task2[own[x]] = x /\ (x # c /\ at[x] # "entry" => reg[own[x]] = x)
    BY Zenon
  <2>1. x # t /\ s[x] \notin Gone
    BY <1>4, Zenon DEF Gone
  <2>2. own[x] \in Apps /\ task[own[x]] = x /\ (x # c /\ at[x] # "entry" => reg[own[x]] = x)
    BY <2>1, Zenon DEF Agree
  <2>3. own[x] # a
    BY <2>1, <2>2, Zenon DEF t
  <2> QED
    BY <1>4, <2>2, <2>3, Zenon
<1>7. \A b \in Apps : app2[b] \in {"RUNNING", "SUSPENDED"} <=> task2[b] # Nil
  BY <1>4, SMTT(30) DEF Agree
<1>8. \A b \in Apps : task2[b] # Nil =>
         /\ own[task2[b]] = b
         /\ s2[task2[b]] \notin Gone
         /\ task2[b] # c => (s2[task2[b]] = "SUSPENDED" <=> app2[b] = "SUSPENDED")
  <2> SUFFICES ASSUME NEW b \in Apps, task2[b] # Nil
               PROVE  /\ own[task2[b]] = b
                      /\ s2[task2[b]] \notin Gone
                      /\ task2[b] # c => (s2[task2[b]] = "SUSPENDED" <=> app2[b] = "SUSPENDED")
    BY Zenon
  <2>1. b # a /\ task2[b] = task[b] /\ app2[b] = app[b]
    BY <1>4, Zenon
  <2>2. s2[task[b]] = s[task[b]]
    BY <1>2, <1>4, <2>1, Zenon
  <2> QED
    BY <2>1, <2>2, SMTT(30) DEF Agree
<1>9. \A b \in Apps : reg[b] # Nil => reg[b] = task2[b] /\ at[reg[b]] # "entry"
  BY <1>4, SMTT(30) DEF Agree
<1>10. fg # Nil => s2[fg] \notin Gone /\ at[fg] # "entry" /\ reg[own[fg]] = fg
  BY <1>3, <1>4, SMTT(30) DEF Agree, Slot
<1>11. Agree(s2, app2, task2, at, own, reg, fg, home, c)
  BY <1>5, <1>6, <1>7, <1>8, <1>9, <1>10, Zenon DEF Agree
<1> QED
  BY <1>11, Zenon DEF s2, app2, task2, t

-----------------------------------------------------------------------------
(* Worlds, and what each function of the kit makes of one. *)

Worlds ==
    [st : Life, app : AppLife, task : AppSlots, pc : Places, owner : Owners,
     running : SUBSET Slot, retired : SUBSET Slot, reg : AppSlots, fg : Slot, home : Slot,
     demand : SUBSET Slot, fgd : BOOLEAN]

AgreeIn(w, c) == Agree(w.st, w.app, w.task, w.pc, w.owner, w.reg, w.fg, w.home, c)

\* The demand of the context in front is the only one raised.
DemandOf(w) ==
    /\ w.demand \subseteq {w.fg}
    /\ w.fgd <=> w.fg \in w.demand
    /\ HasDemand(w.fg) <=> w.fg \in w.demand

\* From w to v no task past its entry has changed its app, and no slot in use
\* has been given away.
Keeps(w, v) ==
    \A t \in TaskSlots :
      w.st[t] # "FREE" => v.st[t] # "FREE" /\ v.owner[t] = w.owner[t] /\ v.pc[t] = w.pc[t]
Back(w, v) ==
    \A t \in TaskSlots : v.pc[t] # "entry" => w.pc[t] # "entry" /\ v.owner[t] = w.owner[t]

\* A function of the kit that leads from w to v is sound.
Good(w, v) ==
    /\ v \in Worlds /\ AgreeIn(v, cur)
    /\ DemandOf(w) => DemandOf(v)
    /\ Keeps(w, v) /\ Back(w, v)
    /\ v.reg = w.reg /\ v.home = w.home

\* The fields of a world.
LEMMA WorldFields ==
    ASSUME NEW w \in Worlds
    PROVE  /\ w.st \in Life /\ w.app \in AppLife /\ w.task \in AppSlots /\ w.pc \in Places
           /\ w.owner \in Owners /\ w.running \in SUBSET Slot /\ w.retired \in SUBSET Slot
           /\ w.reg \in AppSlots /\ w.fg \in Slot /\ w.home \in Slot
           /\ w.demand \in SUBSET Slot /\ w.fgd \in BOOLEAN
BY Zenon DEF Worlds

\* A function of the kit that does nothing is sound.
LEMMA GoodItself ==
    ASSUME NEW w \in Worlds, AgreeIn(w, cur)
    PROVE  Good(w, w)
BY Zenon DEF Good, Keeps, Back

\* Two sound calls one after the other are sound.
LEMMA GoodTrans ==
    ASSUME NEW w, NEW v, NEW x, Good(w, v), Good(v, x)
    PROVE  Good(w, x)
<1>1. Keeps(w, x)
  BY Zenon DEF Good, Keeps
<1>2. Back(w, x)
  BY Zenon DEF Good, Back
<1>3. DemandOf(w) => DemandOf(x)
  BY Zenon DEF Good
<1> QED
  BY <1>1, <1>2, <1>3, Zenon DEF Good

\* app_start, whether or not it finds the app stopped and a slot free.
LEMMA GoodStart ==
    ASSUME NEW w \in Worlds, AgreeIn(w, cur), NEW a \in Apps
    PROVE  Good(w, app_start(w, a))
<1>1. CASE ~CanStart(w, a)
  BY <1>1, GoodItself, Zenon DEF app_start
<1>2. CASE CanStart(w, a)
  <2> DEFINE t == CHOOSE x \in FreeSlots(w) : TRUE
             s2 == [w.st EXCEPT ![t] = "READY"]
             own2 == [w.owner EXCEPT ![t] = a]
             pc2 == [w.pc EXCEPT ![t] = "entry"]
             task2 == [w.task EXCEPT ![a] = t]
             app2 == [w.app EXCEPT ![a] = "RUNNING"]
             v == [w EXCEPT !.st = s2, !.owner = own2, !.pc = pc2, !.task = task2, !.app = app2]
  <2>1. t \in TaskSlots /\ w.st[t] = "FREE" /\ w.app[a] \in {"INSTALLED", "STOPPED"}
    BY <1>2, Zenon DEF CanStart, FreeSlots
  <2>2. app_start(w, a) = v
    BY <1>2, SMTT(30) DEF app_start
  <2> HIDE DEF t
  <2>3. s2 \in Life /\ own2 \in Owners /\ pc2 \in Places /\ task2 \in AppSlots /\ app2 \in AppLife
    BY <2>1, WorldFields, Zenon DEF Life, Owners, Places, AppSlots, AppLife, Slot, LifeStates, AppStates
  <2>4. \A x \in TaskSlots :
           /\ s2[x] = IF x = t THEN "READY" ELSE w.st[x]
           /\ pc2[x] = IF x = t THEN "entry" ELSE w.pc[x]
           /\ own2[x] = IF x = t THEN a ELSE w.owner[x]
    BY WorldFields, Zenon DEF Life, Owners, Places
  <2>5. Agree(s2, app2, task2, pc2, own2, w.reg, w.fg, w.home, cur)
    BY ONLY <2>1, WorldFields, StartAgrees, AgreeIn(w, cur), w \in Worlds, a \in Apps, ZenonT(40) DEF AgreeIn
  <2> HIDE DEF s2, own2, pc2, task2, app2
  <2>6. /\ v \in Worlds /\ v.app = app2 /\ v.st = s2
        /\ v.task = task2 /\ v.pc = pc2 /\ v.owner = own2
        /\ v.reg = w.reg /\ v.fg = w.fg /\ v.home = w.home
        /\ v.demand = w.demand /\ v.fgd = w.fgd
    BY <2>3, Zenon DEF Worlds
  <2> HIDE DEF v
  <2>7. AgreeIn(v, cur)
    BY <2>5, <2>6, Zenon DEF AgreeIn
  <2>8. Keeps(w, v) /\ Back(w, v)
    BY <2>1, <2>4, <2>6, Zenon DEF Keeps, Back
  <2>9. DemandOf(w) => DemandOf(v)
    BY <2>6, Zenon DEF DemandOf
  <2> QED
    BY <2>2, <2>6, <2>7, <2>8, <2>9, Zenon DEF Good
<1> QED
  BY <1>1, <1>2, Zenon

\* app_suspend, of a running app or of one that is not.
LEMMA GoodSuspend ==
    ASSUME NEW w \in Worlds, AgreeIn(w, cur), NEW a \in Apps
    PROVE  Good(w, app_suspend(w, a))
<1>1. CASE w.app[a] # "RUNNING"
  BY <1>1, GoodItself, Zenon DEF app_suspend
<1>2. CASE w.app[a] = "RUNNING"
  <2> DEFINE t == w.task[a]
             app2 == [w.app EXCEPT ![a] = "SUSPENDED"]
             s2 == IF t # Nil /\ w.st[t] \in {"READY", "BLOCKED"}
                   THEN [w.st EXCEPT ![t] = "SUSPENDED"] ELSE w.st
             v == [w EXCEPT !.app = app2, !.st = s2]
  <2>1. app_suspend(w, a) = v
    BY <1>2, Zenon DEF app_suspend
  <2>2. app2 \in AppLife /\ s2 \in Life
    BY WorldFields, Zenon DEF AppLife, Life, AppStates, LifeStates
  <2>3. \A x \in TaskSlots : w.st[x] # "FREE" => s2[x] # "FREE"
    BY WorldFields, Zenon DEF Life
  <2>4. Agree(s2, app2, w.task, w.pc, w.owner, w.reg, w.fg, w.home, cur)
    BY ONLY <1>2, <2>2, WorldFields, SuspendAgrees, AgreeIn(w, cur), w \in Worlds, a \in Apps, ZenonT(40)
       DEF AgreeIn
  <2> HIDE DEF s2, app2
  <2>5. /\ v \in Worlds /\ v.app = app2 /\ v.st = s2
        /\ v.task = w.task /\ v.pc = w.pc /\ v.owner = w.owner
        /\ v.reg = w.reg /\ v.fg = w.fg /\ v.home = w.home
        /\ v.demand = w.demand /\ v.fgd = w.fgd
    BY <2>2, Zenon DEF Worlds
  <2> HIDE DEF v
  <2> QED
    BY <2>1, <2>3, <2>4, <2>5, Zenon DEF Good, AgreeIn, Keeps, Back, DemandOf
<1> QED
  BY <1>1, <1>2, Zenon

\* app_resume, of a suspended app or of one that is not.
LEMMA GoodResume ==
    ASSUME NEW w \in Worlds, AgreeIn(w, cur), NEW a \in Apps
    PROVE  Good(w, app_resume(w, a))
<1>1. CASE w.app[a] # "SUSPENDED"
  BY <1>1, GoodItself, Zenon DEF app_resume
<1>2. CASE w.app[a] = "SUSPENDED"
  <2> DEFINE t == w.task[a]
             app2 == [w.app EXCEPT ![a] = "RUNNING"]
             s2 == IF t # Nil /\ w.st[t] = "SUSPENDED"
                   THEN [w.st EXCEPT ![t] = "READY"] ELSE w.st
             v == [w EXCEPT !.app = app2, !.st = s2]
  <2>1. app_resume(w, a) = v
    BY <1>2, Zenon DEF app_resume
  <2>2. app2 \in AppLife /\ s2 \in Life
    BY WorldFields, Zenon DEF AppLife, Life, AppStates, LifeStates
  <2>3. \A x \in TaskSlots : w.st[x] # "FREE" => s2[x] # "FREE"
    BY WorldFields, Zenon DEF Life
  <2>4. Agree(s2, app2, w.task, w.pc, w.owner, w.reg, w.fg, w.home, cur)
    BY ONLY <1>2, <2>2, WorldFields, ResumeAgrees, AgreeIn(w, cur), w \in Worlds, a \in Apps, Zenon
       DEF AgreeIn
  <2> HIDE DEF s2, app2
  <2>5. /\ v \in Worlds /\ v.app = app2 /\ v.st = s2
        /\ v.task = w.task /\ v.pc = w.pc /\ v.owner = w.owner
        /\ v.reg = w.reg /\ v.fg = w.fg /\ v.home = w.home
        /\ v.demand = w.demand /\ v.fgd = w.fgd
    BY <2>2, Zenon DEF Worlds
  <2> HIDE DEF v
  <2> QED
    BY <2>1, <2>3, <2>4, <2>5, Zenon DEF Good, AgreeIn, Keeps, Back, DemandOf
<1> QED
  BY <1>1, <1>2, Zenon

\* The kit resumes or starts the app it is about to show.
LEMMA GoodResumeOrStart ==
    ASSUME NEW w \in Worlds, AgreeIn(w, cur), NEW a \in Apps
    PROVE  Good(w, ResumeOrStart(w, a))
BY GoodResume, GoodStart, Zenon DEF ResumeOrStart

\* A live context takes the focus.
LEMMA GoodFocus ==
    ASSUME NEW w \in Worlds, AgreeIn(w, cur), NEW c \in Slot,
           c # Nil => w.st[c] \notin Gone /\ w.pc[c] # "entry" /\ w.reg[w.owner[c]] = c
    PROVE  Good(w, app_kit_focus(w, c))
<1> DEFINE d2 == (w.demand \ {w.fg}) \cup (IF HasDemand(c) THEN {c} ELSE {})
           h == HasDemand(c)
           v == [w EXCEPT !.fg = c, !.demand = d2, !.fgd = h]
<1>1. app_kit_focus(w, c) = v
  BY Zenon DEF app_kit_focus
<1>2. d2 \in SUBSET Slot
  BY WorldFields, Zenon
<1>3. h \in BOOLEAN
  BY Zenon DEF HasDemand
<1>4. DemandOf(w) => d2 \subseteq {c} /\ (HasDemand(c) <=> c \in d2)
  BY Zenon DEF DemandOf
<1> HIDE DEF d2, h
<1>5. /\ v \in Worlds /\ v.app = w.app /\ v.st = w.st
      /\ v.task = w.task /\ v.pc = w.pc /\ v.owner = w.owner
      /\ v.reg = w.reg /\ v.fg = c /\ v.home = w.home
      /\ v.demand = d2 /\ v.fgd = h
  BY <1>2, <1>3, ZenonT(40) DEF Worlds
<1> HIDE DEF v
<1>6. AgreeIn(v, cur)
  BY <1>5 DEF AgreeIn, Agree
<1>7. DemandOf(w) => DemandOf(v)
  BY <1>4, <1>5, Zenon DEF DemandOf, h
<1> QED
  BY <1>1, <1>5, <1>6, <1>7, Zenon DEF Good, Keeps, Back

\* A registered context is live.
LEMMA RegisteredIsLive ==
    ASSUME NEW w \in Worlds, AgreeIn(w, cur), NEW a \in Apps, w.reg[a] # Nil
    PROVE  /\ w.reg[a] \in TaskSlots
           /\ w.st[w.reg[a]] \notin Gone
           /\ w.pc[w.reg[a]] # "entry"
           /\ w.owner[w.reg[a]] = a
<1>1. w.reg[a] \in TaskSlots
  BY WorldFields DEF AppSlots, Slot
<1> QED
  BY <1>1, SMTT(30) DEF AgreeIn, Agree

\* The launcher's context, if there is one, takes the focus.
LEMMA GoodFocusHome ==
    ASSUME NEW w \in Worlds, AgreeIn(w, cur)
    PROVE  Good(w, FocusHome(w))
<1>1. CASE w.home = Nil
  BY <1>1, GoodItself, Zenon DEF FocusHome
<1>2. CASE w.home # Nil
  <2>1. w.home = w.reg[Home] /\ w.home \in Slot
    BY <1>2, WorldFields, Zenon DEF AgreeIn, Agree
  <2>2. /\ w.st[w.home] \notin Gone /\ w.pc[w.home] # "entry"
        /\ w.reg[w.owner[w.home]] = w.home
    BY <1>2, <2>1, HomeAssumption, RegisteredIsLive
  <2> QED
    BY <1>2, <2>1, <2>2, GoodFocus, Zenon DEF FocusHome
<1> QED
  BY <1>1, <1>2, Zenon

\* The app's registered context, if there is one, takes the focus.
LEMMA GoodFocusRegistered ==
    ASSUME NEW w \in Worlds, AgreeIn(w, cur), NEW a \in Apps
    PROVE  Good(w, FocusRegistered(w, a))
<1>1. CASE w.reg[a] = Nil
  BY <1>1, GoodItself, Zenon DEF FocusRegistered
<1>2. CASE w.reg[a] # Nil
  BY <1>2, RegisteredIsLive, GoodFocus, Zenon DEF FocusRegistered, Slot
<1> QED
  BY <1>1, <1>2, Zenon

\* Bringing an app to the front: resume or start it, and focus its context.
LEMMA GoodShow ==
    ASSUME NEW w \in Worlds, AgreeIn(w, cur), NEW a \in Apps
    PROVE  /\ Good(w, FocusRegistered(ResumeOrStart(w, a), a))
           /\ Good(w, FocusHome(ResumeOrStart(w, Home)))
<1>1. \A b \in Apps : Good(w, ResumeOrStart(w, b))
  BY GoodResumeOrStart, Zenon
<1>2. \A b \in Apps : ResumeOrStart(w, b) \in Worlds /\ AgreeIn(ResumeOrStart(w, b), cur)
  BY <1>1, Zenon DEF Good
<1>3. Good(ResumeOrStart(w, a), FocusRegistered(ResumeOrStart(w, a), a))
  BY <1>2, GoodFocusRegistered, Zenon
<1>4. Good(ResumeOrStart(w, Home), FocusHome(ResumeOrStart(w, Home)))
  BY <1>2, HomeAssumption, GoodFocusHome, Zenon
<1> QED
  BY <1>1, <1>3, <1>4, HomeAssumption, GoodTrans, Zenon

\* The running flag of a context is not part of the agreement.
LEMMA GoodUnflag ==
    ASSUME NEW w \in Worlds, AgreeIn(w, cur), NEW r \in SUBSET Slot
    PROVE  Good(w, [w EXCEPT !.running = r])
<1> DEFINE v == [w EXCEPT !.running = r]
<1>1. /\ v \in Worlds /\ v.app = w.app /\ v.st = w.st
      /\ v.task = w.task /\ v.pc = w.pc /\ v.owner = w.owner
      /\ v.reg = w.reg /\ v.fg = w.fg /\ v.home = w.home
      /\ v.demand = w.demand /\ v.fgd = w.fgd
  BY Zenon DEF Worlds
<1> HIDE DEF v
<1>2. Good(w, v)
  BY <1>1, Zenon DEF Good, AgreeIn, Keeps, Back, DemandOf
<1> QED
  BY <1>2, Zenon DEF v

\* app_request_exit: the launcher is shown and the app suspended.
LEMMA GoodRequestExit ==
    ASSUME NEW w \in Worlds, AgreeIn(w, cur), NEW c, w.owner[c] \in Apps
    PROVE  Good(w, app_request_exit(w, c))
<1> DEFINE a == w.owner[c]
           w1 == FocusHome(ResumeOrStart(w, Home))
           v == [w1 EXCEPT !.running = w1.running \ {c}]
<1>1. app_request_exit(w, c) =
        IF a = Home THEN FocusHome(w)
        ELSE IF w1.app[a] = "RUNNING" THEN app_suspend(w1, a) ELSE v
  BY Zenon DEF app_request_exit
<1>2. Good(w, w1) /\ w1 \in Worlds /\ AgreeIn(w1, cur)
  BY GoodShow, HomeAssumption, Zenon DEF Good
<1>3. Good(w, FocusHome(w))
  BY GoodFocusHome, Zenon
<1> HIDE DEF w1
<1>4. Good(w1, app_suspend(w1, a))
  BY <1>2, GoodSuspend, Zenon
<1>5. Good(w1, v)
  <2>1. w1.running \ {c} \in SUBSET Slot
    BY <1>2, WorldFields, Zenon
  <2> QED
    BY <1>2, <2>1, GoodUnflag, Zenon
<1>6. Good(w, app_suspend(w1, a)) /\ Good(w, v)
  BY <1>2, <1>4, <1>5, GoodTrans, Zenon
<1> HIDE DEF v, a
<1> QED
  BY <1>1, <1>3, <1>6, Zenon

\* app_open: the other app is shown and the caller suspended.
LEMMA GoodOpen ==
    ASSUME NEW w \in Worlds, AgreeIn(w, cur), NEW c, w.owner[c] \in Apps, NEW a \in Apps
    PROVE  Good(w, app_open(w, c, a))
<1> DEFINE from == w.owner[c]
           w1 == FocusRegistered(ResumeOrStart(w, a), a)
<1>1. app_open(w, c, a) = w \/ app_open(w, c, a) = app_suspend(w1, from)
  BY Zenon DEF app_open
<1>2. Good(w, w1) /\ w1 \in Worlds /\ AgreeIn(w1, cur)
  BY GoodShow, Zenon DEF Good
<1> HIDE DEF w1
<1>3. Good(w1, app_suspend(w1, from))
  BY <1>2, GoodSuspend, Zenon
<1>4. Good(w, app_suspend(w1, from))
  BY <1>2, <1>3, GoodTrans, Zenon
<1> QED
  BY <1>1, <1>4, GoodItself, Zenon

\* app_kit_switch: the app is shown and the one in front suspended.
LEMMA GoodSwitch ==
    ASSUME NEW w \in Worlds, AgreeIn(w, cur), NEW a \in Apps
    PROVE  Good(w, app_kit_switch(w, a))
<1> DEFINE w1 == FocusRegistered(ResumeOrStart(w, a), a)
           old == w.owner[w.fg]
<1>1. \/ app_kit_switch(w, a) = w
      \/ app_kit_switch(w, a) = w1
      \/ w.fg # Nil /\ app_kit_switch(w, a) = app_suspend(w1, old)
  BY Zenon DEF app_kit_switch
<1>2. Good(w, w1) /\ w1 \in Worlds /\ AgreeIn(w1, cur)
  BY GoodShow, Zenon DEF Good
<1> HIDE DEF w1
<1>3. ASSUME w.fg # Nil PROVE Good(w, app_suspend(w1, old))
  <2>1. w.fg \in TaskSlots /\ w.st[w.fg] \notin Gone
    BY <1>3, WorldFields, Zenon DEF AgreeIn, Agree, Slot
  <2>2. old \in Apps
    BY <2>1, Zenon DEF AgreeIn, Agree
  <2>3. Good(w1, app_suspend(w1, old))
    BY <1>2, <2>2, GoodSuspend, Zenon
  <2> QED
    BY <1>2, <2>3, GoodTrans, Zenon
<1> QED
  BY <1>1, <1>2, <1>3, GoodItself, Zenon

\* The context c leaves the front, and the demand with it.
LEMMA GoodDrop ==
    ASSUME NEW w \in Worlds, AgreeIn(w, cur), NEW c \in TaskSlots
    PROVE  Good(w, DropFocus(w, c)) /\ DropFocus(w, c).fg # c
<1>1. CASE w.fg # c
  BY <1>1, GoodItself, Zenon DEF DropFocus
<1>2. CASE w.fg = c
  <2> DEFINE d2 == w.demand \ {c}
             v == [w EXCEPT !.fg = Nil, !.demand = d2, !.fgd = FALSE]
  <2>1. DropFocus(w, c) = v
    BY <1>2, Zenon DEF DropFocus
  <2>2. d2 \in SUBSET Slot /\ Nil \in Slot /\ Nil # c
    BY WorldFields, NilAssumption, Zenon DEF Slot
  <2>3. DemandOf(w) => d2 = {}
    BY <1>2, Zenon DEF DemandOf
  <2>4. ~HasDemand(Nil)
    BY Zenon DEF HasDemand
  <2> HIDE DEF d2
  <2>5. /\ v \in Worlds /\ v.app = w.app /\ v.st = w.st
        /\ v.task = w.task /\ v.pc = w.pc /\ v.owner = w.owner
        /\ v.reg = w.reg /\ v.fg = Nil /\ v.home = w.home
        /\ v.demand = d2 /\ v.fgd = FALSE
    BY <2>2, ZenonT(40) DEF Worlds
  <2> HIDE DEF v
  <2>6. AgreeIn(v, cur)
    BY <2>5, SMTT(30) DEF AgreeIn, Agree
  <2>7. DemandOf(w) => DemandOf(v)
    BY <2>3, <2>4, <2>5, Zenon DEF DemandOf
  <2> QED
    BY <2>1, <2>2, <2>5, <2>6, <2>7, Zenon DEF Good, Keeps, Back
<1> QED
  BY <1>1, <1>2, Zenon

\* app_kit_return_home shows the launcher, unless it is the one that leaves.
LEMMA GoodReturnHome ==
    ASSUME NEW w \in Worlds, AgreeIn(w, cur), NEW a \in Apps
    PROVE  Good(w, app_kit_return_home(w, a))
BY GoodItself, GoodShow, HomeAssumption, Zenon DEF app_kit_return_home

\* app_kit_request_stop: the context is retired and its task resumed.
LEMMA GoodRequestStop ==
    ASSUME NEW w \in Worlds, AgreeIn(w, cur), NEW a \in Apps, w.reg[a] # Nil
    PROVE  Good(w, app_kit_request_stop(w, a))
<1> DEFINE c == w.reg[a]
           w0 == DropFocus(w, c)
           w1 == [w0 EXCEPT !.running = w0.running \ {c}, !.retired = w0.retired \cup {c}]
           w2 == IF w.fg = c THEN app_kit_return_home(w1, a) ELSE w1
<1>1. app_kit_request_stop(w, a) = app_resume(w2, a)
  BY Zenon DEF app_kit_request_stop
<1>2. c \in TaskSlots
  BY RegisteredIsLive, Zenon
<1>3. Good(w, w0) /\ w0 \in Worlds /\ AgreeIn(w0, cur)
  BY <1>2, GoodDrop, Zenon DEF Good
<1> HIDE DEF c, w0
<1>4. Good(w0, w1) /\ w1 \in Worlds /\ AgreeIn(w1, cur)
  <2> DEFINE r == w0.running \ {c}
             q == w0.retired \cup {c}
  <2>1. r \in SUBSET Slot /\ q \in SUBSET Slot
    BY <1>2, <1>3, WorldFields, Zenon DEF Slot
  <2>2. w1 = [w0 EXCEPT !.running = r, !.retired = q]
    BY Zenon
  <2> HIDE DEF r, q
  <2>3. /\ w1 \in Worlds /\ w1.app = w0.app /\ w1.st = w0.st
        /\ w1.task = w0.task /\ w1.pc = w0.pc /\ w1.owner = w0.owner
        /\ w1.reg = w0.reg /\ w1.fg = w0.fg /\ w1.home = w0.home
        /\ w1.demand = w0.demand /\ w1.fgd = w0.fgd
    BY <1>3, <2>1, <2>2, Zenon DEF Worlds
  <2> HIDE DEF w1
  <2> QED
    BY <1>3, <2>3, Zenon DEF Good, AgreeIn, Keeps, Back, DemandOf
<1> HIDE DEF w1
<1>5. Good(w1, w2) /\ w2 \in Worlds /\ AgreeIn(w2, cur)
  <2>1. Good(w1, w2)
    BY <1>4, GoodReturnHome, GoodItself, Zenon
  <2> QED
    BY <2>1, Zenon DEF Good
<1> HIDE DEF w2
<1>6. Good(w2, app_resume(w2, a))
  BY <1>5, GoodResume, Zenon
<1> QED
  BY <1>1, <1>3, <1>4, <1>5, <1>6, GoodTrans, Zenon
\* Returning home touches no app but the launcher.
LEMMA HomeOnly ==
    ASSUME NEW w \in Worlds, NEW a \in Apps
    PROVE  app_kit_return_home(w, a).app[a] = w.app[a]
<1>1. CASE a = Home
  BY <1>1, Zenon DEF app_kit_return_home
<1>2. CASE a # Home
  <2> DEFINE w1 == ResumeOrStart(w, Home)
  <2>1. w1.app[a] = w.app[a]
    BY <1>2, HomeAssumption, WorldFields, Zenon
       DEF ResumeOrStart, app_resume, app_start, Worlds, AppLife
  <2>2. FocusHome(w1).app = w1.app
    <3>1. app_kit_focus(w1, w1.home).app = w1.app
      <4>1. w1 \in [DOMAIN w1 -> {w1[f] : f \in DOMAIN w1}] /\ "app" \in DOMAIN w1
        BY ZenonT(40) DEF ResumeOrStart, app_resume, app_start, Worlds
      <4> QED
        BY <4>1, Zenon DEF app_kit_focus
    <3> QED
      BY <3>1, Zenon DEF FocusHome
  <2> QED
    BY <1>2, <2>1, <2>2, Zenon DEF app_kit_return_home
<1> QED
  BY <1>1, <1>2, Zenon

\* A kill of an app without a context, from the main loop.
LEMMA KilledNowSound ==
    ASSUME NEW w \in Worlds, AgreeIn(w, cur), DemandOf(w), cur = NoTask,
           NEW a \in Apps, w.reg[a] = Nil
    PROVE  LET v == KilledNow(w, a)
           IN  v \in Worlds /\ AgreeIn(v, cur) /\ DemandOf(v) /\ Back(w, v)
<1> DEFINE w0 == app_resume(w, a)
           w1 == app_stop(w0, a)
<1>1. /\ Good(w, w0) /\ w0 \in Worlds /\ AgreeIn(w0, cur) /\ DemandOf(w0)
      /\ w0.reg[a] = Nil
  BY GoodResume, Zenon DEF Good
<1> HIDE DEF w0
<1>2. w1 \in Worlds /\ AgreeIn(w1, cur) /\ DemandOf(w1) /\ Back(w, w1)
  <2>1. CASE w0.app[a] # "RUNNING"
    BY <1>1, <2>1, Zenon DEF app_stop, Good
  <2>2. CASE w0.app[a] = "RUNNING"
    <3> DEFINE t == w0.task[a]
               s2 == [w0.st EXCEPT ![t] = "FREE"]
               app2 == [w0.app EXCEPT ![a] = "STOPPED"]
               task2 == [w0.task EXCEPT ![a] = Nil]
               v == [w0 EXCEPT !.st = s2, !.task = task2, !.app = app2]
    <3>1. t \in TaskSlots /\ t # Nil /\ t # cur
      <4>1. t \in Slot
        BY ONLY <1>1, WorldFields, a \in Apps, Zenon DEF AppSlots
      <4>2. t # Nil
        BY ONLY <1>1, <2>2, a \in Apps, Zenon DEF AgreeIn, Agree
      <4>3. cur \notin TaskSlots
        BY NoTaskAssumption, Zenon
      <4> QED BY ONLY <4>1, <4>2, <4>3, Zenon DEF Slot
    <3>2. w1 = v
      BY <2>2, <3>1, Zenon DEF app_stop
    <3>3. s2 \in Life /\ app2 \in AppLife /\ task2 \in AppSlots
      BY <1>1, <3>1, WorldFields, Zenon DEF Life, AppLife, AppSlots, Slot, LifeStates, AppStates
    <3>4. Agree(s2, app2, task2, w0.pc, w0.owner, w0.reg, w0.fg, w0.home, cur)
      BY ONLY <1>1, <2>2, <3>1, WorldFields, StopAgrees, a \in Apps, Zenon DEF AgreeIn
    <3> HIDE DEF s2, app2, task2
    <3>5. /\ v \in Worlds /\ v.app = app2 /\ v.st = s2
          /\ v.task = task2 /\ v.pc = w0.pc /\ v.owner = w0.owner
          /\ v.reg = w0.reg /\ v.fg = w0.fg /\ v.home = w0.home
          /\ v.demand = w0.demand /\ v.fgd = w0.fgd
      BY <1>1, <3>3, Zenon DEF Worlds
    <3> HIDE DEF v
    <3>6. Back(w, v)
      BY <1>1, <3>5, Zenon DEF Good, Back
    <3> QED
      BY <1>1, <3>2, <3>4, <3>5, <3>6, Zenon DEF AgreeIn, DemandOf
  <2> QED
    BY <2>1, <2>2, Zenon
<1>3. KilledNow(w, a) \in {w, w1, app_kit_switch(w1, Home)}
  BY Zenon DEF KilledNow, w0
<1> HIDE DEF w1
<1>4. Good(w1, app_kit_switch(w1, Home))
  BY <1>2, HomeAssumption, GoodSwitch, Zenon
<1>5. Back(w, app_kit_switch(w1, Home))
  BY <1>2, <1>4, Zenon DEF Good, Back
<1>6. Back(w, w)
  BY Zenon DEF Back
<1> QED
  BY <1>2, <1>3, <1>4, <1>5, <1>6, Zenon DEF Good
-----------------------------------------------------------------------------
(* The inductive invariant, and how a step keeps it. *)

\* The running task's app is RUNNING, and the task is registered past its entry.
Runs(w, c) == w.app[w.owner[c]] = "RUNNING" /\ (w.pc[c] # "entry" => w.reg[w.owner[c]] = c)

KitInv ==
    /\ World \in Worlds
    /\ AgreeIn(World, cur)
    /\ DemandOf(World)
    /\ cur \in TaskSlots \cup {NoTask}
    /\ cur # NoTask => Runs(World, cur)
    /\ press # NoPress => cur = NoTask

\* The world after a step is the one the functions computed, with the tasks'
\* states as the step leaves them.
LEMMA NextWorld ==
    ASSUME NEW v \in Worlds, KitBecomes(v), st' \in Life
    PROVE  /\ World' \in Worlds
           /\ World'.st = st' /\ World'.app = v.app /\ World'.task = v.task
           /\ World'.pc = v.pc /\ World'.owner = v.owner /\ World'.reg = v.reg
           /\ World'.fg = v.fg /\ World'.home = v.home
           /\ World'.demand = v.demand /\ World'.fgd = v.fgd
BY Zenon DEF World, KitBecomes, Worlds

\* A step that binds no key leaves the demand where the functions put it.
LEMMA DemandKept ==
    ASSUME NEW v \in Worlds, NEW c, AgreeIn(v, c), DemandOf(v), Back(World, v),
           KitBecomes(v), st' \in Life, pins' = pins
    PROVE  DemandOf(World)'
<1>1. /\ World'.fg = v.fg /\ World'.demand = v.demand /\ World'.fgd = v.fgd
  BY NextWorld, Zenon
<1>2. HasDemand(World.fg)' <=> HasDemand(v.fg)
  <2>1. CASE v.fg = Nil
    BY <1>1, <2>1, Zenon DEF HasDemand
  <2>2. CASE v.fg # Nil
    <3>1. v.fg \in TaskSlots /\ v.pc[v.fg] # "entry"
      BY <2>2, WorldFields, Zenon DEF AgreeIn, Agree, Slot
    <3>2. pc[v.fg] # "entry" /\ v.owner[v.fg] = owner[v.fg]
      BY <3>1, Zenon DEF Back, World
    <3>3. pc'[v.fg] # "entry" /\ owner'[v.fg] = owner[v.fg]
      BY <3>1, <3>2, Zenon DEF KitBecomes
    <3> QED
      BY <1>1, <2>2, <3>2, <3>3, Zenon DEF HasDemand
  <2> QED
    BY <2>1, <2>2, Zenon
<1> QED
  BY <1>1, <1>2, Zenon DEF DemandOf

\* A step of the main loop that leaves the world v keeps the invariant.
LEMMA MainLeaves ==
    ASSUME KitInv, cur = NoTask, cur' = cur, pins' = pins,
           NEW v \in Worlds, AgreeIn(v, cur), DemandOf(v), Back(World, v),
           KitBecomes(v), st' = v.st
    PROVE  KitInv'
<1>1. st' \in Life
  BY WorldFields, Zenon
<1>2. AgreeIn(World', cur')
  BY <1>1, NextWorld, Zenon DEF AgreeIn
<1>3. DemandOf(World)'
  BY <1>1, DemandKept, Zenon
<1>4. World' \in Worlds
  BY <1>1, NextWorld, Zenon
<1> QED
  BY <1>2, <1>3, <1>4, ZenonT(40) DEF KitInv, AgreeIn

\* The running task leaves the CPU: the main loop, or a ready task, goes on.
LEMMA LeftCpu ==
    ASSUME NEW w \in Worlds, cur \in TaskSlots, AgreeIn(w, cur),
           w.pc[cur] # "entry" => w.reg[w.owner[cur]] = cur,
           NEW s \in {"BLOCKED", "SUSPENDED"},
           s = "SUSPENDED" <=> w.app[w.owner[cur]] = "SUSPENDED",
           LeaveCpu(w, s)
    PROVE  /\ st' \in Life
           /\ cur' \in TaskSlots \cup {NoTask}
           /\ Agree(st', w.app, w.task, w.pc, w.owner, w.reg, w.fg, w.home, cur')
           /\ cur' # NoTask => Runs(w, cur')
<1>1. \/ cur' = NoTask
      \/ cur' \in TaskSlots /\ w.st[cur'] = "READY"
  BY ZenonT(40) DEF LeaveCpu
<1>2. w.st[cur] = "RUNNING" /\ cur # NoTask /\ cur # cur'
  BY <1>1, NoTaskAssumption DEF AgreeIn, Agree
<1>3. /\ st' \in Life
      /\ \A x \in TaskSlots : st'[x] = IF x = cur THEN s ELSE IF x = cur' THEN "RUNNING" ELSE w.st[x]
  <2>1. CASE st' = [w.st EXCEPT ![cur] = s] /\ cur' = NoTask
    BY <2>1, WorldFields, NoTaskAssumption, ZenonT(40) DEF Life, LifeStates
  <2>2. CASE \E t \in TaskSlots : st' = [w.st EXCEPT ![cur] = s, ![t] = "RUNNING"] /\ cur' = t
    BY <1>2, <2>2, WorldFields DEF Life, LifeStates
  <2> QED
    BY <2>1, <2>2, Zenon DEF LeaveCpu
<1>4. s \notin Gone /\ s # "RUNNING" /\ "READY" \notin Gone /\ "RUNNING" \notin Gone
  BY Zenon DEF Gone
<1>5. ASSUME NEW x \in TaskSlots
      PROVE  (st'[x] \in Gone <=> w.st[x] \in Gone) /\ (st'[x] = "RUNNING" <=> x = cur')
  <2>1. CASE x = cur
    BY <1>2, <1>3, <1>4, <2>1, Zenon
  <2>2. CASE x = cur'
    BY <1>1, <1>2, <1>3, <1>4, <2>2, NoTaskAssumption, ZenonT(40)
  <2>3. CASE x # cur /\ x # cur'
    BY <1>3, <2>3 DEF AgreeIn, Agree
  <2> QED
    BY <2>1, <2>2, <2>3, Zenon
<1>6. \A x \in TaskSlots : w.st[x] \notin Gone =>
        w.owner[x] \in Apps /\ w.task[w.owner[x]] = x /\ (w.pc[x] # "entry" => w.reg[w.owner[x]] = x)
  BY Zenon DEF AgreeIn, Agree
<1>7. ASSUME NEW a \in Apps, w.task[a] # Nil, w.task[a] # cur'
      PROVE  st'[w.task[a]] = "SUSPENDED" <=> w.app[a] = "SUSPENDED"
  <2>1. w.task[a] \in TaskSlots /\ w.owner[w.task[a]] = a
    BY <1>7, WorldFields DEF AgreeIn, Agree, AppSlots, Slot
  <2>2. CASE w.task[a] = cur
    BY <1>3, <2>1, <2>2, ZenonT(40)
  <2>3. CASE w.task[a] # cur
    BY <1>3, <1>7, <2>1, <2>3 DEF AgreeIn, Agree
  <2> QED
    BY <2>2, <2>3, ZenonT(40)
<1>8. \A a \in Apps : w.task[a] # Nil => w.task[a] \in TaskSlots
  BY WorldFields, Zenon DEF AppSlots, Slot
<1>9. w.fg # Nil => w.fg \in TaskSlots
  BY WorldFields, Zenon DEF Slot
<1>10. Agree(st', w.app, w.task, w.pc, w.owner, w.reg, w.fg, w.home, cur')
  BY <1>5, <1>6, <1>7, <1>8, <1>9, ZenonT(40) DEF AgreeIn, Agree
<1>11. cur' # NoTask => Runs(w, cur')
  <2> SUFFICES ASSUME cur' # NoTask PROVE Runs(w, cur')
    BY Zenon
  <2>1. cur' \in TaskSlots /\ w.st[cur'] = "READY"
    BY <1>1, Zenon
  <2>2. w.owner[cur'] \in Apps /\ w.task[w.owner[cur']] = cur'
    BY <1>4, <1>6, <2>1, Zenon
  <2>3. w.app[w.owner[cur']] # "SUSPENDED" /\ w.app[w.owner[cur']] \in {"RUNNING", "SUSPENDED"}
    BY <1>2, <2>1, <2>2, NilAssumption, SMTT(30) DEF AgreeIn, Agree
  <2> QED
    BY <1>4, <1>6, <2>1, <2>3, Zenon DEF Runs
<1> QED
  BY <1>1, <1>3, <1>10, <1>11, Zenon
\* The variables are the fields of the current world.
LEMMA InvFields ==
    ASSUME KitInv
    PROVE  /\ World \in Worlds /\ AgreeIn(World, cur) /\ DemandOf(World)
           /\ World.st = st /\ World.app = app_state /\ World.task = app_task
           /\ World.pc = pc /\ World.owner = owner /\ World.reg = g_ctx_reg
           /\ World.fg = g_fg /\ World.home = g_home
           /\ World.demand = demand /\ World.fgd = fg_demand
           /\ World.running = running /\ World.retired = retired
BY Zenon DEF KitInv, World

\* A running task leaves the CPU, with the world v computed and its own place set.
LEMMA TaskLeaves ==
    ASSUME KitInv, cur \in TaskSlots, pins' = pins, press' = press,
           NEW v \in Worlds, AgreeIn(v, cur), DemandOf(v), Back(World, v),
           v.pc[cur] # "entry" => v.reg[v.owner[cur]] = cur,
           KitBecomes(v),
           NEW w \in Worlds, w.st = v.st,
           NEW s \in {"BLOCKED", "SUSPENDED"},
           s = "SUSPENDED" <=> v.app[v.owner[cur]] = "SUSPENDED",
           LeaveCpu(w, s)
    PROVE  KitInv'
<1>1. LeaveCpu(v, s)
  BY Zenon DEF LeaveCpu
<1>2. /\ st' \in Life
      /\ cur' \in TaskSlots \cup {NoTask}
      /\ Agree(st', v.app, v.task, v.pc, v.owner, v.reg, v.fg, v.home, cur')
      /\ cur' # NoTask => Runs(v, cur')
  BY <1>1, LeftCpu, Zenon
<1>3. /\ World' \in Worlds
      /\ World'.st = st' /\ World'.app = v.app /\ World'.task = v.task
      /\ World'.pc = v.pc /\ World'.owner = v.owner /\ World'.reg = v.reg
      /\ World'.fg = v.fg /\ World'.home = v.home
  BY <1>2, NextWorld, Zenon
<1>4. AgreeIn(World', cur')
  BY <1>2, <1>3, Zenon DEF AgreeIn
<1>5. DemandOf(World)'
  BY <1>2, DemandKept, Zenon
<1>6. cur' # NoTask => Runs(World', cur')
  BY <1>2, <1>3, ZenonT(40) DEF Runs
<1>7. press' = NoPress
  BY NoTaskAssumption, Zenon DEF KitInv
<1> QED
  BY <1>2, <1>3, <1>4, <1>5, <1>6, <1>7, Zenon DEF KitInv, AgreeIn, Runs

\* The task's place in its frame is not part of the agreement.
LEMMA PlaceSet ==
    ASSUME NEW w \in Worlds, NEW c, AgreeIn(w, c), NEW t \in TaskSlots, w.pc[t] # "entry",
           NEW at \in {"loop", "frame"}, DemandOf(w), Back(World, w),
           NEW v, v = [w EXCEPT !.pc[t] = at]
    PROVE  /\ v \in Worlds /\ AgreeIn(v, c) /\ DemandOf(v) /\ Back(World, v)
           /\ v.pc[t] = at
           /\ v.st = w.st /\ v.app = w.app /\ v.owner = w.owner /\ v.reg = w.reg
<1> DEFINE pc2 == [w.pc EXCEPT ![t] = at]
<1>1. pc2 \in Places /\ \A x \in TaskSlots : pc2[x] = IF x = t THEN at ELSE w.pc[x]
  BY WorldFields, Zenon DEF Places
<1>2. v = [w EXCEPT !.pc = pc2]
  BY Zenon
<1> HIDE DEF pc2
<1>3. /\ v \in Worlds /\ v.app = w.app /\ v.st = w.st
      /\ v.task = w.task /\ v.pc = pc2 /\ v.owner = w.owner
      /\ v.reg = w.reg /\ v.fg = w.fg /\ v.home = w.home
      /\ v.demand = w.demand /\ v.fgd = w.fgd
  BY <1>1, <1>2, SMTT(30) DEF Worlds
<1>4. \A x \in TaskSlots : pc2[x] = "entry" <=> w.pc[x] = "entry"
  BY <1>1, Zenon
<1>5. \A a \in Apps : w.reg[a] # Nil => w.reg[a] \in TaskSlots
  BY WorldFields, Zenon DEF AppSlots, Slot
<1>6. w.fg # Nil => w.fg \in TaskSlots
  BY WorldFields, Zenon DEF Slot
<1>7. AgreeIn(v, c)
  BY <1>3, <1>4, <1>5, <1>6 DEF AgreeIn, Agree
<1> QED
  BY <1>1, <1>3, <1>4, <1>7, ZenonT(40) DEF DemandOf, Back

\* The head of the loop: a resumed app takes the focus back.
LEMMA RefocusedGood ==
    ASSUME KitInv, cur \in TaskSlots, pc[cur] = "loop"
    PROVE  /\ Good(World, Refocused) /\ Refocused \in Worlds /\ AgreeIn(Refocused, cur)
           /\ Refocused.app = app_state
<1>1. /\ World \in Worlds /\ AgreeIn(World, cur) /\ World.st = st /\ World.pc = pc
      /\ World.reg = g_ctx_reg /\ World.owner = owner /\ World.app = app_state
  BY InvFields, Zenon
<1>2. st[cur] \notin Gone
  BY <1>1, Zenon DEF AgreeIn, Agree, Gone
<1>3. g_ctx_reg[owner[cur]] = cur => Good(World, app_kit_focus(World, cur))
  BY <1>1, <1>2, GoodFocus, Zenon DEF Slot
<1>4. app_kit_focus(World, cur).app = World.app
  BY Zenon DEF app_kit_focus, World
<1>5. Good(World, Refocused)
  BY <1>1, <1>3, GoodItself, Zenon DEF Refocused
<1> QED
  BY <1>1, <1>4, <1>5, Zenon DEF Good, Refocused
\* KitFrame: a turn of the loop that leaves the focus alone.
LEMMA FrameKeeps ==
    ASSUME KitInv, KitFrame
    PROVE  KitInv'
<1> DEFINE v == Refocused
<1>1. cur \in TaskSlots /\ pc[cur] = "loop" /\ pins' = pins /\ press' = press
      /\ KitBecomes(v) /\ LeaveCpu(v, "BLOCKED")
  BY Zenon DEF KitFrame, InLoop, KitInv
<1>2. Good(World, v) /\ v \in Worlds /\ AgreeIn(v, cur) /\ v.app = app_state
  BY <1>1, RefocusedGood, Zenon
<1>3. /\ st[cur] # "FREE" /\ app_state[owner[cur]] = "RUNNING"
      /\ g_ctx_reg[owner[cur]] = cur
      /\ World.st = st /\ World.owner = owner /\ World.reg = g_ctx_reg /\ World.pc = pc
  BY <1>1, InvFields, NoTaskAssumption, Zenon DEF KitInv, Runs, AgreeIn, Agree
<1>4. v.owner[cur] = owner[cur] /\ v.reg = g_ctx_reg /\ DemandOf(v) /\ Back(World, v)
  BY <1>1, <1>2, <1>3, Zenon DEF Good, Keeps, KitInv
<1> HIDE DEF v
<1> QED
  BY <1>1, <1>2, <1>3, <1>4, TaskLeaves, Zenon

\* on_frame leaves the world w: the loop goes on, or the task is parked.
LEMMA FrameLeavesKeeps ==
    ASSUME KitInv, cur \in TaskSlots, pc[cur] = "loop",
           NEW w \in Worlds, Good(World, w), FrameLeaves(w)
    PROVE  KitInv'
<1> DEFINE v == [w EXCEPT !.pc[cur] = "frame"]
<1>1. AgreeIn(w, cur) /\ DemandOf(w) /\ Back(World, w)
  BY Zenon DEF Good, KitInv
<1>2. /\ st[cur] # "FREE" /\ g_ctx_reg[owner[cur]] = cur
      /\ World.st = st /\ World.owner = owner /\ World.reg = g_ctx_reg /\ World.pc = pc
  BY InvFields, NoTaskAssumption, Zenon DEF KitInv, Runs, AgreeIn, Agree
<1>3. w.owner[cur] = owner[cur] /\ w.reg = g_ctx_reg /\ w.pc[cur] = "loop"
  BY <1>2, Zenon DEF Good, Keeps
<1>4. /\ v \in Worlds /\ AgreeIn(v, cur) /\ DemandOf(v) /\ Back(World, v)
      /\ v.st = w.st /\ v.app = w.app /\ v.owner = w.owner /\ v.reg = w.reg
  BY <1>1, <1>3, PlaceSet
<1>5. /\ KitBecomes(v) /\ pins' = pins /\ press' = press
      /\ IF w.app[owner[cur]] = "SUSPENDED" THEN LeaveCpu(w, "SUSPENDED")
         ELSE st' = w.st /\ cur' = cur
  BY Zenon DEF FrameLeaves
<1> HIDE DEF v
<1>6. CASE w.app[owner[cur]] = "SUSPENDED"
  BY <1>2, <1>3, <1>4, <1>5, <1>6, TaskLeaves, ZenonT(40)
<1>7. CASE w.app[owner[cur]] # "SUSPENDED"
  <2>1. st' = v.st /\ cur' = cur /\ st' \in Life
    BY <1>4, <1>5, <1>7, WorldFields, Zenon
  <2>2. /\ World' \in Worlds
        /\ World'.st = st' /\ World'.app = v.app /\ World'.task = v.task
        /\ World'.pc = v.pc /\ World'.owner = v.owner /\ World'.reg = v.reg
        /\ World'.fg = v.fg /\ World'.home = v.home
    BY <1>4, <1>5, <2>1, NextWorld, Zenon
  <2>3. AgreeIn(World', cur')
    BY <1>4, <2>1, <2>2, Zenon DEF AgreeIn
  <2>4. DemandOf(World)'
    BY <1>4, <1>5, <2>1, DemandKept, Zenon
  <2>5. w.app[owner[cur]] = "RUNNING"
    <3>1. w.st[cur] = "RUNNING"
      BY <1>1, Zenon DEF AgreeIn, Agree
    <3>2. owner[cur] \in Apps /\ w.task[owner[cur]] = cur /\ cur # Nil
      BY <1>1, <1>3, <3>1, NilAssumption, SMTT(30) DEF AgreeIn, Agree, Gone
    <3> QED
      BY <1>1, <1>7, <3>2, ZenonT(40) DEF AgreeIn, Agree
  <2>6. Runs(World', cur')
    BY <1>2, <1>3, <1>4, <2>1, <2>2, <2>5 DEF Runs
  <2>7. press' = NoPress
    BY <1>5, NoTaskAssumption, Zenon DEF KitInv
  <2> QED
    BY <2>1, <2>2, <2>3, <2>4, <2>6, <2>7, Zenon DEF KitInv, AgreeIn, Runs
<1> QED
  BY <1>6, <1>7, Zenon

\* KitFrameExit and KitFrameOpen: on_frame itself leaves the app or opens another.
LEMMA FrameSwitchKeeps ==
    ASSUME KitInv, KitFrameExit \/ \E a \in Apps : KitFrameOpen(a)
    PROVE  KitInv'
<1> DEFINE w == Refocused
<1>1. cur \in TaskSlots /\ pc[cur] = "loop"
  BY Zenon DEF KitFrameExit, KitFrameOpen, InLoop, KitInv
<1>2. Good(World, w) /\ w \in Worlds /\ AgreeIn(w, cur)
  BY <1>1, RefocusedGood, Zenon
<1>3. w.owner[cur] \in Apps
  <2>1. w.st[cur] = "RUNNING"
    BY <1>1, <1>2, Zenon DEF AgreeIn, Agree
  <2> QED
    BY <1>1, <1>2, <2>1, ZenonT(40) DEF AgreeIn, Agree, Gone
<1>4. KitFrameExit => FrameLeaves(app_request_exit(w, cur))
  BY Zenon DEF KitFrameExit
<1>5. ASSUME NEW a \in Apps, KitFrameOpen(a) PROVE FrameLeaves(app_open(w, cur, a))
  BY <1>5, ZenonT(40) DEF KitFrameOpen
<1> HIDE DEF w
<1>6. Good(World, app_request_exit(w, cur)) /\ app_request_exit(w, cur) \in Worlds
  <2>1. Good(w, app_request_exit(w, cur))
    BY <1>2, <1>3, GoodRequestExit, ZenonT(40)
  <2> QED
    BY <1>2, <2>1, GoodTrans, Zenon DEF Good
<1>7. ASSUME NEW a \in Apps
      PROVE  Good(World, app_open(w, cur, a)) /\ app_open(w, cur, a) \in Worlds
  <2>1. Good(w, app_open(w, cur, a))
    BY <1>2, <1>3, GoodOpen, Zenon
  <2> QED
    BY <1>2, <2>1, GoodTrans, Zenon DEF Good
<1> QED
  BY <1>1, <1>4, <1>5, <1>6, <1>7, FrameLeavesKeeps, Zenon

\* KitFrameReturn: on_frame returns to the loop, which sleeps.
LEMMA FrameReturnKeeps ==
    ASSUME KitInv, KitFrameReturn
    PROVE  KitInv'
<1> DEFINE v == [World EXCEPT !.pc[cur] = "loop"]
<1>1. /\ cur \in TaskSlots /\ pc[cur] = "frame" /\ pins' = pins /\ press' = press
      /\ KitBecomes(v) /\ LeaveCpu(World, "BLOCKED")
  BY Zenon DEF KitFrameReturn, KitInv
<1>2. /\ World \in Worlds /\ AgreeIn(World, cur) /\ DemandOf(World) /\ Back(World, World)
      /\ World.pc[cur] = "frame" /\ World.app[World.owner[cur]] = "RUNNING"
      /\ World.reg[World.owner[cur]] = cur
  BY <1>1, InvFields, NoTaskAssumption, Zenon DEF KitInv, Runs, Back
<1>3. /\ v \in Worlds /\ AgreeIn(v, cur) /\ DemandOf(v) /\ Back(World, v)
      /\ v.st = World.st /\ v.app = World.app /\ v.owner = World.owner /\ v.reg = World.reg
  BY <1>1, <1>2, PlaceSet, SMTT(30)
<1> HIDE DEF v
<1> QED
  BY <1>1, <1>2, <1>3, TaskLeaves, Zenon
\* KitStart: the task registers its context, takes the focus and sets its demand.
LEMMA StartKeeps ==
    ASSUME KitInv, KitStart
    PROVE  KitInv'
<1> DEFINE a == owner[cur]
           asks == a \in Hinted /\ \E i \in 1..Len(pins') :
                     pins'[i] = [ctx |-> cur, key |-> "ESCAPE"]
           pc2 == [pc EXCEPT ![cur] = "loop"]
           reg2 == [g_ctx_reg EXCEPT ![a] = cur]
           home2 == IF a = Home THEN cur ELSE g_home
           d1 == (demand \ {g_fg}) \cup (IF HasDemand(cur) THEN {cur} ELSE {})
           d2 == IF asks THEN d1 \cup {cur} ELSE d1
           run2 == running \cup {cur}
           v == [World EXCEPT !.fg = cur, !.demand = d2, !.fgd = asks, !.pc = pc2,
                              !.running = run2, !.reg = reg2, !.home = home2]
<1>1. /\ cur \in TaskSlots /\ cur # NoTask /\ pc[cur] = "entry" /\ cur # Nil
      /\ st' = st /\ cur' = cur /\ press' = press
  BY NilAssumption, Zenon DEF KitStart, KitInv
<1>2. KitBecomes(v)
  <2> DEFINE w == app_kit_focus(World, cur)
             x == [w EXCEPT !.pc[cur] = "loop", !.running = @ \cup {cur}, !.reg[a] = cur,
                            !.home = IF a = Home THEN cur ELSE @,
                            !.demand = IF asks THEN @ \cup {cur} ELSE @, !.fgd = asks]
  <2>1. KitBecomes(x)
    BY Zenon DEF KitStart
  <2>2. /\ w.app = app_state /\ w.task = app_task /\ w.pc = pc /\ w.owner = owner
        /\ w.running = running /\ w.retired = retired /\ w.reg = g_ctx_reg
        /\ w.fg = cur /\ w.home = g_home /\ w.demand = d1
        /\ DOMAIN w = {"st", "app", "task", "pc", "owner", "running", "retired", "reg",
                       "fg", "home", "demand", "fgd"}
    BY Zenon DEF app_kit_focus, World
  <2> HIDE DEF w, d1, asks
  <2>3. /\ x.app = app_state /\ x.task = app_task /\ x.pc = pc2 /\ x.owner = owner
        /\ x.running = run2 /\ x.retired = retired /\ x.reg = reg2
        /\ x.fg = cur /\ x.home = home2 /\ x.demand = d2 /\ x.fgd = asks
    BY <2>2, Zenon
  <2>4. /\ v.app = app_state /\ v.task = app_task /\ v.pc = pc2 /\ v.owner = owner
        /\ v.running = run2 /\ v.retired = retired /\ v.reg = reg2
        /\ v.fg = cur /\ v.home = home2 /\ v.demand = d2 /\ v.fgd = asks
    BY Zenon DEF World
  <2> HIDE DEF x, v, d2, run2, reg2, pc2, home2
  <2> QED
    BY <2>1, <2>3, <2>4, Zenon DEF KitBecomes
<1>3. /\ World \in Worlds /\ AgreeIn(World, cur) /\ DemandOf(World)
      /\ World.st = st /\ World.app = app_state /\ World.task = app_task
      /\ World.pc = pc /\ World.owner = owner /\ World.reg = g_ctx_reg
      /\ World.fg = g_fg /\ World.home = g_home
      /\ World.demand = demand /\ World.running = running
  BY InvFields, Zenon
<1>4. /\ st \in Life /\ app_state \in AppLife /\ app_task \in AppSlots /\ pc \in Places
      /\ owner \in Owners /\ g_ctx_reg \in AppSlots /\ g_fg \in Slot /\ g_home \in Slot
      /\ running \in SUBSET Slot /\ demand \in SUBSET Slot
  BY <1>3, WorldFields, Zenon
<1>5. Agree(st, app_state, app_task, pc, owner, g_ctx_reg, g_fg, g_home, cur)
  BY <1>3, Zenon DEF AgreeIn
<1>6. st[cur] = "RUNNING" /\ a \in Apps /\ app_task[a] = cur
  BY <1>1, <1>5, Zenon DEF Agree, Gone
<1>7. g_ctx_reg[a] = Nil
  BY <1>1, <1>5, <1>6 DEF Agree
<1>8. ~HasDemand(cur) /\ d1 = {}
  <2>1. ~HasDemand(cur)
    BY <1>1, Zenon DEF HasDemand
  <2> QED
    BY <1>3, <2>1, Zenon DEF DemandOf
<1>9. /\ pc2 \in Places /\ reg2 \in AppSlots /\ home2 \in Slot /\ d2 \in SUBSET Slot
      /\ run2 \in SUBSET Slot /\ asks \in BOOLEAN
  BY <1>1, <1>4, <1>8, ZenonT(40) DEF Places, AppSlots, Slot
<1>10. /\ d2 \subseteq {cur} /\ (asks <=> cur \in d2)
  BY <1>8, Zenon
<1>11. /\ \A x \in TaskSlots : pc2[x] = IF x = cur THEN "loop" ELSE pc[x]
       /\ \A b \in Apps : reg2[b] = IF b = a THEN cur ELSE g_ctx_reg[b]
  BY <1>4, Zenon DEF Places, AppSlots
<1>12. HasDemand(cur)' <=> asks
  <2>1. pc'[cur] = "loop" /\ owner'[cur] = a
    BY <1>1, <1>2, <1>3, <1>11, Zenon DEF KitBecomes, World
  <2> QED
    BY <1>1, <2>1, Zenon DEF HasDemand
<1> HIDE DEF pc2, reg2, d1, d2, run2, asks, a
<1>13. Agree(st, app_state, app_task, pc2, owner, reg2, cur, home2, cur)
  <2>1. /\ \A t \in TaskSlots : st[t] = "RUNNING" <=> t = cur
        /\ \A b \in Apps : app_state[b] \in {"RUNNING", "SUSPENDED"} <=> app_task[b] # Nil
        /\ \A b \in Apps : app_task[b] # Nil =>
             /\ owner[app_task[b]] = b
             /\ st[app_task[b]] \notin Gone
             /\ app_task[b] # cur => (st[app_task[b]] = "SUSPENDED" <=> app_state[b] = "SUSPENDED")
    BY <1>5, ZenonT(40) DEF Agree
  <2>2. \A t \in TaskSlots : st[t] \notin Gone =>
         /\ owner[t] \in Apps
         /\ app_task[owner[t]] = t
         /\ t # cur /\ pc2[t] # "entry" => reg2[owner[t]] = t
    BY <1>5, <1>6, <1>11 DEF Agree
  <2>3. \A b \in Apps : reg2[b] # Nil => reg2[b] = app_task[b] /\ pc2[reg2[b]] # "entry"
    <3> SUFFICES ASSUME NEW b \in Apps, reg2[b] # Nil
                 PROVE  reg2[b] = app_task[b] /\ pc2[reg2[b]] # "entry"
      BY Zenon
    <3>1. CASE b = a
      BY <1>1, <1>6, <1>11, <3>1, ZenonT(40)
    <3>2. CASE b # a
      <4>1. g_ctx_reg[b] \in TaskSlots /\ reg2[b] = g_ctx_reg[b]
        BY <1>4, <1>11, <3>2, Zenon DEF AppSlots, Slot
      <4> QED
        BY <1>5, <1>11, <4>1 DEF Agree
    <3> QED
      BY <3>1, <3>2, Zenon
  <2>4. home2 # Nil => home2 = reg2[Home]
    BY <1>5, <1>11, HomeAssumption, ZenonT(40) DEF Agree
  <2>5. st[cur] \notin Gone /\ pc2[cur] # "entry" /\ reg2[owner[cur]] = cur
    BY <1>1, <1>6, <1>11, Zenon DEF Gone, a
  <2> HIDE DEF home2
  <2> QED
    BY <2>1, <2>2, <2>3, <2>4, <2>5, Zenon DEF Agree
<1> HIDE DEF home2
<1>14. /\ v \in Worlds /\ v.app = app_state /\ v.st = st
       /\ v.task = app_task /\ v.pc = pc2 /\ v.owner = owner
       /\ v.reg = reg2 /\ v.fg = cur /\ v.home = home2
       /\ v.demand = d2 /\ v.fgd = asks
  BY <1>1, <1>3, <1>9, Zenon DEF Worlds, Slot
<1> HIDE DEF v
<1>15. /\ World' \in Worlds
       /\ World'.st = st /\ World'.app = app_state /\ World'.task = app_task
       /\ World'.pc = pc2 /\ World'.owner = owner /\ World'.reg = reg2
       /\ World'.fg = cur /\ World'.home = home2
       /\ World'.demand = d2 /\ World'.fgd = asks
  BY <1>1, <1>2, <1>4, <1>14, NextWorld, Zenon
<1>16. AgreeIn(World', cur')
  BY <1>1, <1>13, <1>15, Zenon DEF AgreeIn
<1>17. DemandOf(World)'
  BY <1>1, <1>10, <1>12, <1>15, ZenonT(40) DEF DemandOf
<1>18. Runs(World', cur')
  BY <1>1, <1>3, <1>6, <1>11, <1>15 DEF Runs, KitInv, a
<1>19. press' = NoPress
  BY <1>1, Zenon DEF KitInv
<1> QED
  BY <1>1, <1>15, <1>16, <1>17, <1>18, <1>19, Zenon DEF KitInv, AgreeIn, Runs

\* app_task_entry after app_kit_run: the app is stopped and its task terminated.
LEMMA ExitAgrees ==
    ASSUME NEW s \in Life, NEW app \in AppLife, NEW task \in AppSlots, NEW at \in Places,
           NEW own \in Owners, NEW reg \in AppSlots, NEW fg \in Slot, NEW home \in Slot,
           NEW c \in TaskSlots,
           Agree(s, app, task, at, own, reg, fg, home, c),
           NEW a \in Apps, own[c] = a, reg[a] = Nil
    PROVE  Agree([s EXCEPT ![c] = "TERMINATED"], [app EXCEPT ![a] = "STOPPED"],
                 [task EXCEPT ![a] = Nil], at, own, reg, fg, home, NoTask)
<1> DEFINE s2 == [s EXCEPT ![c] = "TERMINATED"]
           app2 == [app EXCEPT ![a] = "STOPPED"]
           task2 == [task EXCEPT ![a] = Nil]
<1>1. s[c] = "RUNNING" /\ task[a] = c /\ c # Nil /\ c # NoTask
  BY NilAssumption, NoTaskAssumption, ZenonT(40) DEF Agree, Gone
<1>2. \A b \in Apps : b # a /\ task[b] # Nil => task[b] \in TaskSlots /\ task[b] # c
  BY <1>1, SMTT(30) DEF Agree, AppSlots, Slot
<1>3. fg # c
  BY <1>1, Zenon DEF Agree
<1>4. /\ \A x \in TaskSlots : s2[x] = IF x = c THEN "TERMINATED" ELSE s[x]
      /\ \A b \in Apps : /\ app2[b] = IF b = a THEN "STOPPED" ELSE app[b]
                         /\ task2[b] = IF b = a THEN Nil ELSE task[b]
  BY Zenon DEF Life, AppLife, AppSlots
<1> HIDE DEF s2, app2, task2
<1>5. ASSUME NEW x \in TaskSlots PROVE s2[x] # "RUNNING" /\ x # NoTask
  <2>1. CASE x = c
    BY <1>1, <1>4, <2>1, Zenon
  <2>2. CASE x # c
    BY <1>4, <2>2, NoTaskAssumption, SMTT(30) DEF Agree
  <2> QED
    BY <2>1, <2>2, Zenon
<1>6. \A x \in TaskSlots : s2[x] \notin Gone =>
         own[x] \in Apps /\ task2[own[x]] = x /\ (at[x] # "entry" => reg[own[x]] = x)
  <2> SUFFICES ASSUME NEW x \in TaskSlots, s2[x] \notin Gone
               PROVE  own[x] \in Apps /\ task2[own[x]] = x /\ (at[x] # "entry" => reg[own[x]] = x)
    BY Zenon
  <2>1. x # c /\ s[x] \notin Gone
    BY <1>4, Zenon DEF Gone
  <2>2. own[x] \in Apps /\ task[own[x]] = x /\ (at[x] # "entry" => reg[own[x]] = x)
    BY <2>1, Zenon DEF Agree
  <2>3. own[x] # a
    BY <1>1, <2>1, <2>2, ZenonT(40)
  <2> QED
    BY <1>4, <2>2, <2>3, Zenon
<1>7. \A b \in Apps : app2[b] \in {"RUNNING", "SUSPENDED"} <=> task2[b] # Nil
  BY <1>4, SMTT(30) DEF Agree
<1>8. \A b \in Apps : task2[b] # Nil =>
         /\ own[task2[b]] = b
         /\ s2[task2[b]] \notin Gone
         /\ s2[task2[b]] = "SUSPENDED" <=> app2[b] = "SUSPENDED"
  <2> SUFFICES ASSUME NEW b \in Apps, task2[b] # Nil
               PROVE  /\ own[task2[b]] = b
                      /\ s2[task2[b]] \notin Gone
                      /\ s2[task2[b]] = "SUSPENDED" <=> app2[b] = "SUSPENDED"
    BY Zenon
  <2>1. b # a /\ task2[b] = task[b] /\ app2[b] = app[b]
    BY <1>4, Zenon
  <2>2. s2[task[b]] = s[task[b]] /\ task[b] # c
    BY <1>2, <1>4, <2>1, ZenonT(40)
  <2> QED
    BY <2>1, <2>2 DEF Agree
<1>9. \A b \in Apps : reg[b] # Nil => reg[b] = task2[b] /\ at[reg[b]] # "entry"
  BY <1>4 DEF Agree
<1>10. fg # Nil => s2[fg] \notin Gone /\ at[fg] # "entry" /\ reg[own[fg]] = fg
  BY <1>3, <1>4, ZenonT(40) DEF Agree, Slot
<1>11. Agree(s2, app2, task2, at, own, reg, fg, home, NoTask)
  BY <1>5, <1>6, <1>7, <1>8, <1>9, <1>10, SMTT(30) DEF Agree
<1> QED
  BY <1>11, Zenon DEF s2, app2, task2
\* KitExit, first half: the context is dropped from the front and the registry.
LEMMA Unregistered ==
    ASSUME KitInv, cur \in TaskSlots, pc[cur] # "entry",
           NEW w1, w1 = [DropFocus(World, cur) EXCEPT
                           !.reg[owner[cur]] = Nil, !.home = IF @ = cur THEN Nil ELSE @]
    PROVE  /\ w1 \in Worlds /\ AgreeIn(w1, cur) /\ DemandOf(w1) /\ Back(World, w1)
           /\ w1.reg[owner[cur]] = Nil /\ w1.app[owner[cur]] = "RUNNING"
           /\ w1.owner = owner /\ w1.st = st
<1> DEFINE a == owner[cur]
           w0 == DropFocus(World, cur)
           reg2 == [w0.reg EXCEPT ![a] = Nil]
           home2 == IF w0.home = cur THEN Nil ELSE w0.home
<1>1. /\ World \in Worlds /\ AgreeIn(World, cur) /\ DemandOf(World)
      /\ World.st = st /\ World.app = app_state /\ World.owner = owner /\ World.reg = g_ctx_reg
      /\ World.pc = pc /\ World.task = app_task
  BY InvFields, Zenon
<1>2. /\ Good(World, w0) /\ w0 \in Worlds /\ AgreeIn(w0, cur) /\ DemandOf(w0) /\ w0.fg # cur
      /\ w0.reg = g_ctx_reg /\ Back(World, w0)
  BY <1>1, GoodDrop, Zenon DEF Good
<1>3. w0.app = app_state /\ w0.owner = owner /\ w0.st = st /\ w0.pc = pc /\ w0.task = app_task
  BY Zenon DEF DropFocus, World
<1>4. st[cur] = "RUNNING" /\ a \in Apps /\ app_task[a] = cur /\ cur # Nil
      /\ g_ctx_reg[a] = cur /\ app_state[a] = "RUNNING"
  BY <1>1, NilAssumption, NoTaskAssumption DEF AgreeIn, Agree, Gone, KitInv, Runs
<1>5. w1 = [w0 EXCEPT !.reg = reg2, !.home = home2]
  BY Zenon
<1> HIDE DEF w0
<1>6. /\ reg2 \in AppSlots /\ home2 \in Slot
      /\ \A b \in Apps : reg2[b] = IF b = a THEN Nil ELSE w0.reg[b]
  BY <1>2, WorldFields, Zenon DEF AppSlots, Slot
<1> HIDE DEF reg2
<1>7. /\ \A t \in TaskSlots : w0.st[t] = "RUNNING" <=> t = cur
      /\ \A t \in TaskSlots : w0.st[t] \notin Gone =>
           /\ w0.owner[t] \in Apps
           /\ w0.task[w0.owner[t]] = t
           /\ t # cur /\ w0.pc[t] # "entry" => w0.reg[w0.owner[t]] = t
      /\ \A b \in Apps : w0.app[b] \in {"RUNNING", "SUSPENDED"} <=> w0.task[b] # Nil
      /\ \A b \in Apps : w0.task[b] # Nil =>
           /\ w0.owner[w0.task[b]] = b
           /\ w0.st[w0.task[b]] \notin Gone
           /\ w0.task[b] # cur => (w0.st[w0.task[b]] = "SUSPENDED" <=> w0.app[b] = "SUSPENDED")
      /\ \A b \in Apps : w0.reg[b] # Nil => w0.reg[b] = w0.task[b] /\ w0.pc[w0.reg[b]] # "entry"
      /\ w0.home # Nil => w0.home = w0.reg[Home]
      /\ w0.fg # Nil =>
           w0.st[w0.fg] \notin Gone /\ w0.pc[w0.fg] # "entry" /\ w0.reg[w0.owner[w0.fg]] = w0.fg
  BY <1>2, Zenon DEF AgreeIn, Agree
<1>8. \A t \in TaskSlots : w0.st[t] \notin Gone /\ t # cur => w0.owner[t] # a
  BY <1>3, <1>4, <1>7, SMTT(30)
<1>9. \A t \in TaskSlots : w0.st[t] \notin Gone =>
         /\ w0.owner[t] \in Apps
         /\ w0.task[w0.owner[t]] = t
         /\ t # cur /\ w0.pc[t] # "entry" => reg2[w0.owner[t]] = t
  BY <1>6, <1>7, <1>8, SMTT(30)
<1>10. \A b \in Apps : reg2[b] # Nil => reg2[b] = w0.task[b] /\ w0.pc[reg2[b]] # "entry"
  BY <1>6, <1>7, SMTT(30)
<1>11. home2 # Nil => home2 = reg2[Home]
  BY <1>2, <1>4, <1>6, <1>7, HomeAssumption, SMTT(30)
<1>12. w0.fg # Nil =>
         w0.st[w0.fg] \notin Gone /\ w0.pc[w0.fg] # "entry" /\ reg2[w0.owner[w0.fg]] = w0.fg
  <2> SUFFICES ASSUME w0.fg # Nil PROVE reg2[w0.owner[w0.fg]] = w0.fg
    BY <1>7, Zenon
  <2>1. w0.fg \in TaskSlots /\ w0.fg # cur /\ w0.st[w0.fg] \notin Gone
    BY <1>2, <1>7, WorldFields, Zenon DEF Slot
  <2>2. w0.owner[w0.fg] \in Apps /\ w0.owner[w0.fg] # a
    BY <1>7, <1>8, <2>1, Zenon
  <2> QED
    BY <1>6, <1>7, <2>2, SMTT(30)
<1> HIDE DEF home2, a
<1>13. Agree(w0.st, w0.app, w0.task, w0.pc, w0.owner, reg2, w0.fg, home2, cur)
  BY <1>7, <1>9, <1>10, <1>11, <1>12, Zenon DEF Agree
<1>14. /\ w1 \in Worlds /\ w1.app = w0.app /\ w1.st = w0.st
       /\ w1.task = w0.task /\ w1.pc = w0.pc /\ w1.owner = w0.owner
       /\ w1.reg = reg2 /\ w1.fg = w0.fg /\ w1.home = home2
       /\ w1.demand = w0.demand /\ w1.fgd = w0.fgd
  BY <1>2, <1>5, <1>6, ZenonT(40) DEF Worlds
<1>15. AgreeIn(w1, cur)
  BY <1>13, <1>14, Zenon DEF AgreeIn
<1> QED
  BY <1>2, <1>3, <1>4, <1>6, <1>14, <1>15, ZenonT(40) DEF DemandOf, Back, a

\* KitExit: the loop ends, the launcher is shown, the app stops, the task exits.
LEMMA ExitKeeps ==
    ASSUME KitInv, KitExit
    PROVE  KitInv'
<1> DEFINE a == owner[cur]
           w1 == [DropFocus(World, cur) EXCEPT
                    !.reg[a] = Nil, !.home = IF @ = cur THEN Nil ELSE @]
           w2 == app_kit_return_home(w1, a)
           w3 == app_stop(w2, a)
<1>1. /\ cur \in TaskSlots /\ cur # NoTask /\ pc[cur] # "entry" /\ cur # Nil
      /\ pins' = pins /\ press' = press
      /\ KitBecomes(w3) /\ LeaveCpu(w3, "TERMINATED")
  BY NilAssumption, Zenon DEF KitExit, KitInv
<1>2. /\ w1 \in Worlds /\ AgreeIn(w1, cur) /\ DemandOf(w1) /\ Back(World, w1)
      /\ w1.reg[a] = Nil /\ w1.app[a] = "RUNNING" /\ w1.owner = owner /\ w1.st = st
  BY <1>1, Unregistered, Zenon
<1> HIDE DEF w1
<1>3. st[cur] = "RUNNING" /\ a \in Apps
  BY <1>1, <1>2, Zenon DEF AgreeIn, Agree, Gone
<1>4. /\ Good(w1, w2) /\ w2.app[a] = "RUNNING"
  BY <1>2, <1>3, GoodReturnHome, HomeOnly, Zenon
<1> HIDE DEF w2
<1>5. /\ w2 \in Worlds /\ AgreeIn(w2, cur) /\ DemandOf(w2) /\ Back(World, w2)
      /\ w2.reg[a] = Nil /\ w2.owner[cur] = a
  BY <1>1, <1>2, <1>3, <1>4, Zenon DEF Good, Back, Keeps
<1>6. w2.task[a] = cur
  BY <1>1, <1>3, <1>5, ZenonT(40) DEF AgreeIn, Agree, Gone
<1> DEFINE app2 == [w2.app EXCEPT ![a] = "STOPPED"]
           task2 == [w2.task EXCEPT ![a] = Nil]
           s2 == [w2.st EXCEPT ![cur] = "TERMINATED"]
           v == [w2 EXCEPT !.task = task2, !.app = app2]
<1>7. Agree(s2, app2, task2, w2.pc, w2.owner, w2.reg, w2.fg, w2.home, NoTask)
  BY ONLY <1>1, <1>3, <1>5, WorldFields, ExitAgrees, Zenon DEF AgreeIn
<1>8. w3 = [w2 EXCEPT !.st = w2.st, !.task = task2, !.app = app2]
  BY <1>1, <1>4, <1>6, Zenon DEF app_stop
<1>9. s2 \in Life /\ app2 \in AppLife /\ task2 \in AppSlots
  BY <1>1, <1>5, WorldFields, Zenon DEF Life, AppLife, AppSlots, Slot, LifeStates, AppStates
<1> HIDE DEF app2, task2
<1>10. /\ w3 \in Worlds /\ w3.app = app2 /\ w3.st = w2.st
       /\ w3.task = task2 /\ w3.pc = w2.pc /\ w3.owner = w2.owner
       /\ w3.reg = w2.reg /\ w3.fg = w2.fg /\ w3.home = w2.home
       /\ w3.demand = w2.demand /\ w3.fgd = w2.fgd
  BY <1>5, <1>8, <1>9, Zenon DEF Worlds
<1> HIDE DEF w3
<1>11. st' = s2 /\ cur' = NoTask
  BY <1>1, <1>10, Zenon DEF LeaveCpu
<1> HIDE DEF s2
<1>12. /\ World' \in Worlds
       /\ World'.st = s2 /\ World'.app = app2 /\ World'.task = task2
       /\ World'.pc = w2.pc /\ World'.owner = w2.owner /\ World'.reg = w2.reg
       /\ World'.fg = w2.fg /\ World'.home = w2.home
       /\ World'.demand = w2.demand /\ World'.fgd = w2.fgd
  BY <1>1, <1>9, <1>10, <1>11, NextWorld, Zenon
<1>13. AgreeIn(World', cur')
  BY <1>7, <1>11, <1>12, Zenon DEF AgreeIn
<1>14. DemandOf(World)'
  <2> DEFINE x == [w3 EXCEPT !.st = s2]
  <2>1. /\ x \in Worlds /\ x.app = app2 /\ x.st = s2
        /\ x.task = task2 /\ x.pc = w2.pc /\ x.owner = w2.owner
        /\ x.reg = w2.reg /\ x.fg = w2.fg /\ x.home = w2.home
        /\ x.demand = w2.demand /\ x.fgd = w2.fgd /\ x.running = w3.running
        /\ x.retired = w3.retired
    BY <1>9, <1>10, Zenon DEF Worlds
  <2> HIDE DEF x
  <2>2. AgreeIn(x, NoTask) /\ DemandOf(x) /\ Back(World, x) /\ KitBecomes(x)
    BY <1>1, <1>5, <1>7, <1>10, <2>1, ZenonT(40) DEF AgreeIn, DemandOf, Back, KitBecomes
  <2> QED
    BY <1>1, <1>9, <1>11, <2>1, <2>2, DemandKept, Zenon
<1>15. press' = NoPress
  BY <1>1, Zenon DEF KitInv
<1> QED
  BY <1>11, <1>12, <1>13, <1>14, <1>15, Zenon DEF KitInv, AgreeIn, Runs
\* Schedule: the main loop runs a ready task or wakes a sleeper.
LEMMA ScheduleKeeps ==
    ASSUME KitInv, Schedule
    PROVE  KitInv'
<1>1. cur = NoTask /\ press = NoPress /\ press' = press /\ pins' = pins /\ KitBecomes(World)
  BY Zenon DEF Schedule, MainIdle, kitVars, KitBecomes, World
<1>2. PICK t \in TaskSlots : Run(t) \/ Wake({t})
  BY Zenon DEF Schedule
<1>3. /\ World \in Worlds /\ AgreeIn(World, cur) /\ DemandOf(World) /\ Back(World, World)
      /\ World.st = st /\ st \in Life
  BY InvFields, WorldFields, Zenon DEF Back
<1> DEFINE v == World
<1>4. /\ \A x \in TaskSlots : v.st[x] # "RUNNING" /\ x # NoTask
      /\ \A x \in TaskSlots : v.st[x] \notin Gone =>
           v.owner[x] \in Apps /\ v.task[v.owner[x]] = x /\ (v.pc[x] # "entry" => v.reg[v.owner[x]] = x)
      /\ \A a \in Apps : v.task[a] # Nil =>
           /\ v.owner[v.task[a]] = a
           /\ v.st[v.task[a]] = "SUSPENDED" <=> v.app[a] = "SUSPENDED"
      /\ \A a \in Apps : v.task[a] # Nil => v.task[a] \in TaskSlots
      /\ v.fg # Nil => v.fg \in TaskSlots
  <2>1. Agree(v.st, v.app, v.task, v.pc, v.owner, v.reg, v.fg, v.home, NoTask)
    BY <1>1, <1>3, Zenon DEF AgreeIn
  <2>2. v.task \in AppSlots /\ v.fg \in Slot
    BY <1>3, WorldFields, Zenon
  <2> HIDE DEF v
  <2>3. \A x \in TaskSlots : x # NoTask
    BY NoTaskAssumption, Zenon
  <2>4. \A a \in Apps : v.task[a] # Nil => v.task[a] \in TaskSlots
    BY <2>2, Zenon DEF AppSlots, Slot
  <2>5. v.fg # Nil => v.fg \in TaskSlots
    BY <2>2, Zenon DEF Slot
  <2>6. \A x \in TaskSlots : v.st[x] # "RUNNING"
    BY <2>1, <2>3, Zenon DEF Agree
  <2>7. \A x \in TaskSlots : v.st[x] \notin Gone =>
           v.owner[x] \in Apps /\ v.task[v.owner[x]] = x /\ (v.pc[x] # "entry" => v.reg[v.owner[x]] = x)
    BY <2>1, <2>3, Zenon DEF Agree
  <2>8. \A a \in Apps : v.task[a] # Nil =>
           /\ v.owner[v.task[a]] = a
           /\ v.st[v.task[a]] = "SUSPENDED" <=> v.app[a] = "SUSPENDED"
    <3>1. SUFFICES ASSUME NEW a \in Apps, v.task[a] # Nil
                   PROVE  /\ v.owner[v.task[a]] = a
                          /\ v.st[v.task[a]] = "SUSPENDED" <=> v.app[a] = "SUSPENDED"
      BY Zenon
    <3>2. v.task[a] # NoTask
      BY <2>3, <2>4, <3>1, Zenon
    <3>3. /\ v.owner[v.task[a]] = a
          /\ v.task[a] # NoTask => (v.st[v.task[a]] = "SUSPENDED" <=> v.app[a] = "SUSPENDED")
      BY <2>1, <3>1, Zenon DEF Agree
    <3> QED
      BY <3>2, <3>3, Zenon
  <2> QED
    BY <2>3, <2>4, <2>5, <2>6, <2>7, <2>8, Zenon
<1>5. CASE Run(t)
  <2>1. /\ v.st[t] = "READY" /\ cur' = t /\ st' \in Life
        /\ \A x \in TaskSlots : st'[x] = IF x = t THEN "RUNNING" ELSE v.st[x]
    BY <1>3, <1>5, Zenon DEF Run, Life, LifeStates
  <2>2. ASSUME NEW x \in TaskSlots
        PROVE  (st'[x] \in Gone <=> v.st[x] \in Gone) /\ (st'[x] = "RUNNING" <=> x = t)
    <3>1. CASE x = t
      BY <2>1, <3>1, ZenonT(40) DEF Gone
    <3>2. CASE x # t
      BY <1>4, <2>1, <3>2, SMTT(30)
    <3> QED
      BY <3>1, <3>2, Zenon
  <2>3. /\ v.owner[t] \in Apps /\ v.task[v.owner[t]] = t /\ t # Nil
        /\ v.pc[t] # "entry" => v.reg[v.owner[t]] = t
    BY <1>4, <2>1, NilAssumption, SMTT(30) DEF Gone
  <2>4. v.app[v.owner[t]] = "RUNNING"
    BY <1>3, <1>4, <2>1, <2>3, ZenonT(40) DEF AgreeIn, Agree
  <2>5. \A a \in Apps : v.task[a] # Nil /\ v.task[a] # t =>
          (st'[v.task[a]] = "SUSPENDED" <=> v.app[a] = "SUSPENDED")
    BY <1>4, <2>1
  <2> HIDE DEF v
  <2>6. Agree(st', v.app, v.task, v.pc, v.owner, v.reg, v.fg, v.home, t)
    BY <1>3, <1>4, <2>2, <2>5, ZenonT(40) DEF AgreeIn, Agree, v
  <2>7. /\ World' \in Worlds
        /\ World'.st = st' /\ World'.app = v.app /\ World'.task = v.task
        /\ World'.pc = v.pc /\ World'.owner = v.owner /\ World'.reg = v.reg
        /\ World'.fg = v.fg /\ World'.home = v.home
    BY <1>1, <1>3, <2>1, NextWorld, Zenon DEF v
  <2>8. DemandOf(World)'
    BY <1>1, <1>3, <2>1, DemandKept, Zenon
  <2>9. AgreeIn(World', cur') /\ Runs(World', cur')
    BY <2>1, <2>3, <2>4, <2>6, <2>7, Zenon DEF AgreeIn, Runs
  <2> QED
    BY <1>1, <2>1, <2>7, <2>8, <2>9, Zenon DEF KitInv, AgreeIn, Runs
<1>6. CASE Wake({t})
  <2>1. /\ v.st[t] = "BLOCKED" /\ cur' = cur /\ st' \in Life
        /\ \A x \in TaskSlots : st'[x] = IF x = t THEN "READY" ELSE v.st[x]
    BY <1>3, <1>6, Zenon DEF Wake, Life, LifeStates
  <2>2. ASSUME NEW x \in TaskSlots
        PROVE  (st'[x] \in Gone <=> v.st[x] \in Gone) /\ st'[x] # "RUNNING"
    <3>1. CASE x = t
      BY <2>1, <3>1, ZenonT(40) DEF Gone
    <3>2. CASE x # t
      BY <1>4, <2>1, <3>2
    <3> QED
      BY <3>1, <3>2, Zenon
  <2>3. ASSUME NEW a \in Apps, v.task[a] # Nil
        PROVE  st'[v.task[a]] = "SUSPENDED" <=> v.app[a] = "SUSPENDED"
    <3>1. CASE v.task[a] = t
      BY <1>4, <2>1, <2>3, <3>1, ZenonT(40)
    <3>2. CASE v.task[a] # t
      BY <1>4, <2>1, <2>3, <3>2
    <3> QED
      BY <3>1, <3>2, Zenon
  <2> HIDE DEF v
  <2>4. Agree(st', v.app, v.task, v.pc, v.owner, v.reg, v.fg, v.home, cur)
    BY <1>1, <1>3, <1>4, <2>2, <2>3, ZenonT(40) DEF AgreeIn, Agree, v
  <2>5. /\ World' \in Worlds
        /\ World'.st = st' /\ World'.app = v.app /\ World'.task = v.task
        /\ World'.pc = v.pc /\ World'.owner = v.owner /\ World'.reg = v.reg
        /\ World'.fg = v.fg /\ World'.home = v.home
    BY <1>1, <1>3, <2>1, NextWorld, Zenon DEF v
  <2>6. DemandOf(World)'
    BY <1>1, <1>3, <2>1, DemandKept, Zenon
  <2>7. AgreeIn(World', cur')
    BY <2>1, <2>4, <2>5, Zenon DEF AgreeIn
  <2> QED
    BY <1>1, <2>1, <2>5, <2>6, <2>7, Zenon DEF KitInv, AgreeIn
<1> QED
  BY <1>2, <1>5, <1>6, Zenon

\* KeyPin: the handler of a pin runs if its app is in front.
LEMMA KeyPinKeeps ==
    ASSUME KitInv, KeyPin
    PROVE  KitInv'
<1> DEFINE p == Head(press.todo)
<1>1. cur = NoTask /\ cur' = cur /\ pins' = pins
  BY Zenon DEF KeyPin, KitInv
<1>2. PICK v \in (IF Delivered(p) THEN KeyHandler(p) ELSE {World}) : KitBecomes(v) /\ st' = v.st
  BY Zenon DEF KeyPin
<1>3. World \in Worlds /\ AgreeIn(World, cur) /\ DemandOf(World) /\ World.owner = owner
      /\ World.fg = g_fg
  BY InvFields, Zenon
<1> HIDE DEF p
<1>4. Good(World, v)
  <2>1. CASE ~Delivered(p)
    BY <1>2, <1>3, <2>1, GoodItself, Zenon
  <2>2. CASE Delivered(p)
    <3>1. owner[p.ctx] \in Apps
      <4>1. g_fg # Nil /\ owner[p.ctx] = owner[g_fg]
        BY <2>2, ZenonT(40) DEF Delivered, app_kit_is_foreground
      <4>2. g_fg \in TaskSlots /\ World.st[g_fg] \notin Gone
        BY <1>3, <4>1, WorldFields, Zenon DEF AgreeIn, Agree, Slot
      <4> QED
        BY <1>3, <4>1, <4>2, Zenon DEF AgreeIn, Agree
    <3>2. v \in KeyHandler(p)
      BY <1>2, <2>2, Zenon
    <3>3. \/ v = app_request_exit(World, p.ctx)
          \/ \E a \in Apps : v = app_open(World, p.ctx, a)
          \/ v = World
      BY <3>2, Zenon DEF KeyHandler
    <3> QED
      BY <1>3, <3>1, <3>3, GoodRequestExit, GoodOpen, GoodItself, Zenon
  <2> QED
    BY <2>1, <2>2, Zenon
<1>5. v \in Worlds /\ AgreeIn(v, cur) /\ DemandOf(v) /\ Back(World, v)
  BY <1>3, <1>4, Zenon DEF Good
<1> QED
  BY <1>1, <1>2, <1>5, MainLeaves, Zenon

\* cmd_switch and cmd_kill: the terminal's commands.
LEMMA CommandKeeps ==
    ASSUME KitInv, NEW a \in Apps, cmd_switch(a) \/ cmd_kill(a)
    PROVE  KitInv'
<1>1. cur = NoTask /\ cur' = cur /\ pins' = pins /\ press' = press
  BY Zenon DEF cmd_switch, cmd_kill, MainIdle
<1>2. World \in Worlds /\ AgreeIn(World, cur) /\ DemandOf(World)
  BY InvFields, Zenon
<1> DEFINE Sound(v) == v \in Worlds /\ AgreeIn(v, cur) /\ DemandOf(v) /\ Back(World, v)
<1>3. Sound(app_kit_switch(World, a))
  <2>1. Good(World, app_kit_switch(World, a))
    BY <1>2, GoodSwitch, Zenon
  <2> QED
    BY <1>2, <2>1, Zenon DEF Good
<1>4. CanRequestStop(World, a) => Sound(app_kit_request_stop(World, a))
  <2>1. CanRequestStop(World, a) => Good(World, app_kit_request_stop(World, a))
    BY <1>2, GoodRequestStop, Zenon DEF CanRequestStop
  <2> QED
    BY <1>2, <2>1, Zenon DEF Good
<1>5. ~CanRequestStop(World, a) => Sound(KilledNow(World, a))
  <2> SUFFICES ASSUME ~CanRequestStop(World, a) PROVE Sound(KilledNow(World, a))
    BY Zenon
  <2>1. CASE World.reg[a] = Nil
    BY <1>1, <1>2, <2>1, KilledNowSound, Zenon
  <2>2. CASE World.reg[a] # Nil
    <3>1. World.app[a] \notin {"RUNNING", "SUSPENDED"}
      BY <2>2, Zenon DEF CanRequestStop
    <3>2. KilledNow(World, a) = World
      BY <3>1, Zenon DEF KilledNow, app_stop, app_resume
    <3> QED
      BY <1>2, <3>2, Zenon DEF Back
  <2> QED
    BY <2>1, <2>2, Zenon
<1>6. PICK v : Sound(v) /\ KitBecomes(v) /\ st' = v.st
  <2> HIDE DEF Sound
  <2>1. CASE cmd_switch(a)
    BY <1>3, <2>1, Zenon DEF cmd_switch
  <2>2. CASE cmd_kill(a)
    BY <1>4, <1>5, <2>2, Zenon DEF cmd_kill
  <2> QED
    BY <2>1, <2>2, Zenon
<1> QED
  BY <1>1, <1>6, MainLeaves, Zenon

\* KeyPress, KeyDone and steps of nothing leave the world alone.
LEMMA IdleKeeps ==
    ASSUME KitInv, UNCHANGED <<st, cur, kitVars, pins>>,
           press' = press \/ press' = NoPress \/ cur = NoTask
    PROVE  KitInv'
<1>1. World' = World
  BY Zenon DEF World, kitVars
<1>2. AgreeIn(World', cur') /\ World' \in Worlds
  BY <1>1, Zenon DEF KitInv
<1>3. DemandOf(World)'
  BY Zenon DEF KitInv, DemandOf, HasDemand, World, kitVars
<1> QED
  BY <1>1, <1>2, <1>3, Zenon DEF KitInv, Runs, AgreeIn
\* AppsInit: every slot is free, and the boot starts one app.
LEMMA InitKeeps ==
    ASSUME AppsInit
    PROVE  KitInv
<1> DEFINE w == [st |-> [t \in TaskSlots |-> "FREE"],
                 app |-> [x \in Apps |-> "INSTALLED"],
                 task |-> [x \in Apps |-> Nil],
                 pc |-> [t \in TaskSlots |-> "entry"],
                 owner |-> [t \in TaskSlots |-> Nil]]
<1>1. PICK a \in Apps :
        /\ st = app_start(w, a).st /\ app_state = app_start(w, a).app
        /\ app_task = app_start(w, a).task /\ pc = app_start(w, a).pc
        /\ owner = app_start(w, a).owner
  BY Zenon DEF AppsInit
<1>2. /\ cur = NoTask /\ running = {} /\ retired = {} /\ g_ctx_reg = [x \in Apps |-> Nil]
      /\ g_fg = Nil /\ g_home = Nil /\ demand = {} /\ fg_demand = FALSE /\ press = NoPress
  BY Zenon DEF AppsInit
<1> DEFINE s0 == [t \in TaskSlots |-> "FREE"]
           app0 == [x \in Apps |-> "INSTALLED"]
           task0 == [x \in Apps |-> Nil]
           pc0 == [t \in TaskSlots |-> "entry"]
           own0 == [t \in TaskSlots |-> Nil]
<1>3. /\ s0 \in Life /\ app0 \in AppLife /\ task0 \in AppSlots /\ pc0 \in Places
      /\ own0 \in Owners /\ Nil \in Slot
  BY Zenon DEF Life, AppLife, AppSlots, Places, Owners, Slot, LifeStates, AppStates
<1>4. Agree(s0, app0, task0, pc0, own0, task0, Nil, Nil, NoTask)
  BY NoTaskAssumption, Zenon DEF Agree, Gone
<1>5. /\ st \in Life /\ app_state \in AppLife /\ app_task \in AppSlots /\ pc \in Places
      /\ owner \in Owners
      /\ Agree(st, app_state, app_task, pc, owner, task0, Nil, Nil, NoTask)
  <2>1. CASE ~CanStart(w, a)
    BY <1>1, <1>3, <1>4, <2>1, Zenon DEF app_start
  <2>2. CASE CanStart(w, a)
    <3> DEFINE t == CHOOSE x \in FreeSlots(w) : TRUE
    <3>1. t \in TaskSlots
      BY <2>2, Zenon DEF CanStart, FreeSlots
    <3> HIDE DEF t
    <3>2. /\ st = [s0 EXCEPT ![t] = "READY"] /\ app_state = [app0 EXCEPT ![a] = "RUNNING"]
          /\ app_task = [task0 EXCEPT ![a] = t] /\ pc = [pc0 EXCEPT ![t] = "entry"]
          /\ owner = [own0 EXCEPT ![t] = a]
      BY <1>1, <2>2, Zenon DEF app_start, t
    <3>3. s0[t] = "FREE" /\ app0[a] \in {"INSTALLED", "STOPPED"}
      BY <3>1, Zenon
    <3> HIDE DEF s0, app0, task0, pc0, own0
    <3>4. Agree(st, app_state, app_task, pc, owner, task0, Nil, Nil, NoTask)
      BY <1>3, <1>4, <3>1, <3>2, <3>3, StartAgrees, Zenon
    <3>5. /\ st \in Life /\ app_state \in AppLife /\ app_task \in AppSlots /\ pc \in Places
          /\ owner \in Owners
      BY <1>3, <3>1, <3>2, Zenon DEF Life, AppLife, AppSlots, Places, Owners, Slot, LifeStates, AppStates
    <3> QED
      BY <3>4, <3>5, Zenon
  <2> QED
    BY <2>1, <2>2, Zenon
<1>6. World \in Worlds
  BY <1>2, <1>3, <1>5, ZenonT(40) DEF World, Worlds
<1>7. AgreeIn(World, cur)
  BY <1>2, <1>5, Zenon DEF AgreeIn, World
<1>8. DemandOf(World)
  BY <1>2, Zenon DEF DemandOf, World, HasDemand
<1> QED
  BY <1>2, <1>6, <1>7, <1>8, Zenon DEF KitInv

-----------------------------------------------------------------------------
\* KitInv holds in every state: the boot establishes it, and every step of a
\* task, of the main loop and of the terminal keeps it.
THEOREM KitInvHolds == AppsSpec => []KitInv
<1>1. AppsInit => KitInv
  BY InitKeeps, Zenon
<1>2. KitInv /\ [AppsNext]_appVars => KitInv'
  <2> SUFFICES ASSUME KitInv, [AppsNext]_appVars PROVE KitInv'
    BY Zenon
  <2>1. CASE TaskStep
    BY <2>1, StartKeeps, FrameKeeps, FrameSwitchKeeps, FrameReturnKeeps, ExitKeeps, Zenon DEF TaskStep
  <2>2. CASE MainStep
    <3>1. CASE KeyDone
      BY <3>1, IdleKeeps, Zenon DEF KeyDone
    <3>2. CASE \E k \in Keys : KeyPress(k)
      BY <3>2, IdleKeeps, Zenon DEF KeyPress, MainIdle
    <3> QED
      BY <2>2, <3>1, <3>2, ScheduleKeeps, KeyPinKeeps, CommandKeeps, Zenon DEF MainStep
  <2>3. CASE UNCHANGED appVars
    BY <2>3, IdleKeeps, Zenon DEF appVars
  <2> QED
    BY <2>1, <2>2, <2>3, Zenon DEF AppsNext
<1> QED
  BY <1>1, <1>2, PTL DEF AppsSpec

\* The foreground, the launcher's context and the registered contexts never
\* dangle (app_kit_run, app_kit_focus, app_kit_request_stop, cmd_kill).
THEOREM ContextsStayLive == AppsSpec => []ContextsLive
<1>1. KitInv => ContextsLive
  <2> SUFFICES ASSUME KitInv PROVE ContextsLive
    BY Zenon
  <2>1. /\ World \in Worlds /\ AgreeIn(World, cur)
        /\ World.st = st /\ World.task = app_task /\ World.pc = pc
        /\ World.reg = g_ctx_reg /\ World.fg = g_fg /\ World.home = g_home
    BY InvFields, Zenon
  <2>2. \A a \in Apps : g_ctx_reg[a] # Nil => LiveContext(g_ctx_reg[a])
    BY <2>1, RegisteredIsLive, Zenon DEF LiveContext, Gone
  <2>3. \A a \in Apps : g_ctx_reg[a] # Nil => app_task[a] = g_ctx_reg[a]
    BY <2>1, ZenonT(40) DEF AgreeIn, Agree
  <2>4. g_home # Nil => g_home = g_ctx_reg[Home]
    BY <2>1, Zenon DEF AgreeIn, Agree
  <2>5. g_home # Nil => LiveContext(g_home)
    BY <2>2, <2>4, HomeAssumption, ZenonT(40)
  <2>6. g_fg # Nil => LiveContext(g_fg)
    <3>1. g_fg \in Slot
      BY <2>1, WorldFields, Zenon
    <3> QED
      BY <2>1, <3>1, Zenon DEF AgreeIn, Agree, LiveContext, Gone, Slot
  <2> QED
    BY <2>2, <2>3, <2>4, <2>5, <2>6, Zenon DEF ContextsLive
<1> QED
  BY <1>1, KitInvHolds, PTL

\* The state of an app and of its task agree (app_start, app_stop, app_suspend,
\* app_resume and every caller of them).
THEOREM AppsAndTasksMatch == AppsSpec => []AppsMatchTasks
<1>1. KitInv => AppsMatchTasks
  <2> SUFFICES ASSUME KitInv, NEW a \in Apps
               PROVE  LET t == app_task[a] IN
                      /\ app_state[a] \in {"RUNNING", "SUSPENDED"} <=> t # Nil
                      /\ t # Nil =>
                           /\ owner[t] = a
                           /\ st[t] \notin {"FREE", "TERMINATED"}
                           /\ st[t] = "SUSPENDED" <=> app_state[a] = "SUSPENDED"
    BY Zenon DEF AppsMatchTasks
  <2>1. /\ World \in Worlds /\ Agree(st, app_state, app_task, pc, owner, g_ctx_reg, g_fg, g_home, cur)
        /\ World.app = app_state /\ World.owner = owner /\ World.task = app_task
    BY InvFields, Zenon DEF AgreeIn
  <2>2. app_state[a] \in {"RUNNING", "SUSPENDED"} <=> app_task[a] # Nil
    BY <2>1, Zenon DEF Agree
  <2>3. ASSUME app_task[a] # Nil
        PROVE  /\ owner[app_task[a]] = a
               /\ st[app_task[a]] \notin {"FREE", "TERMINATED"}
               /\ st[app_task[a]] = "SUSPENDED" <=> app_state[a] = "SUSPENDED"
    <3>1. owner[app_task[a]] = a /\ st[app_task[a]] \notin {"FREE", "TERMINATED"}
      BY <2>1, <2>3, Zenon DEF Agree, Gone
    <3>2. CASE app_task[a] = cur
      <4>1. cur \in TaskSlots /\ cur # NoTask
        BY <2>1, <2>3, <3>2, WorldFields, NoTaskAssumption DEF AppSlots, Slot
      <4>2. app_state[a] = "RUNNING"
        BY <2>1, <3>1, <3>2, <4>1, Zenon DEF KitInv, Runs
      <4>3. st[cur] = "RUNNING"
        BY <2>1, <4>1, ZenonT(40) DEF Agree
      <4> QED
        BY <3>1, <3>2, <4>2, <4>3, ZenonT(40)
    <3>3. CASE app_task[a] # cur
      BY <2>1, <2>3, <3>1, <3>3, Zenon DEF Agree
    <3> QED
      BY <3>2, <3>3, Zenon
  <2> QED
    BY <2>2, <2>3, Zenon
<1> QED
  BY <1>1, KitInvHolds, PTL

\* The raised power demand is the foreground app's, in every state
\* (app_kit_focus, app_set_power, app_kit_request_stop).
THEOREM DemandIsTheFocus == AppsSpec => []DemandFollowsFocus
<1>1. KitInv => DemandFollowsFocus
  BY Zenon DEF KitInv, DemandOf, World, DemandFollowsFocus
<1> QED
  BY <1>1, KitInvHolds, PTL

-----------------------------------------------------------------------------
(* The governor.                                                           *)

\* The four invariants together are inductive.
GovInv == GovTypeOK /\ HotMeansCool /\ HoldPinsLevel /\ SleepOnlyWhenLow

\* GovTypeOK in two parts, one for each of the provers' theories.
FlagsOK ==
    sustained_hold \in BOOLEAN /\ thermal \in BOOLEAN /\ have_window \in BOOLEAN
NumbersOK ==
    /\ level \in Levels /\ held_level \in Levels
    /\ quiet_streak \in 0..(StreakMod - 1)
    /\ full_streak \in 0..(SUSTAINED_WINDOWS - 1)
    /\ foreground \in Demands \ {UNSET}
    /\ busy \in Nat /\ idle \in Nat /\ busy + idle <= MaxSteps
    /\ window_demand \in Demands
    /\ window_started \in 0..(TimeMod - 1) /\ now \in 0..(TimeMod - 1)
    /\ light_sleep \in Nat
    /\ clock \in 0..(NFreqs - 1)
OthersOK == HotMeansCool /\ HoldPinsLevel /\ SleepOnlyWhenLow

\* The invariant in three parts, each for the prover that can handle it.
LEMMA GovInvParts == GovInv <=> FlagsOK /\ NumbersOK /\ OthersOK
  BY Zenon DEF GovInv, GovTypeOK, FlagsOK, NumbersOK, OthersOK

\* freq_for_level always names a frequency the board has, COOL the lowest.
LEMMA ClockInRange ==
    /\ \A l \in Levels : freq_for_level(l) \in 0..(NFreqs - 1)
    /\ freq_for_level(COOL) = NFreqs - 1
  BY BoardAssumption DEF freq_for_level, Levels, COOL, ECONOMY, BALANCED, PERFORMANCE

\* choose_level leaves a level in range, a hold that pins its level, and COOL
\* without a hold on a hot die.
LEMMA ChooseLevel ==
    ASSUME GovInv, NEW hot \in BOOLEAN, NEW hint \in Demands,
           choose_level(hot, hint)
    PROVE  /\ level' \in Levels /\ held_level' \in Levels
           /\ sustained_hold' \in BOOLEAN
           /\ quiet_streak' \in 0..(StreakMod - 1)
           /\ full_streak' \in 0..(SUSTAINED_WINDOWS - 1)
           /\ hot => level' = COOL /\ ~sustained_hold'
           /\ HoldPinsLevel'
<1> DEFINE c == ceiling_for(hint)
<1>1. c \in {ECONOMY, PERFORMANCE}
  BY Zenon DEF ceiling_for
<1>2. level \in 0..3 /\ held_level \in 0..3 /\ sustained_hold \in BOOLEAN
      /\ quiet_streak \in 0..(StreakMod - 1) /\ full_streak \in 0..2
      /\ StreakMod \in Nat /\ StreakMod > 3 /\ hint \in Nat
  BY StreakAssumption DEF GovInv, GovTypeOK, Levels, SUSTAINED_WINDOWS, Demands
<1>3. HoldPinsLevel
  BY Zenon DEF GovInv
<1> HIDE DEF c
<1>4. SUSTAINED_WINDOWS - 1 = 2
  BY DEF SUSTAINED_WINDOWS
<1> USE DEF HoldPinsLevel, Levels, COOL, ECONOMY, BALANCED, PERFORMANCE, Least
<1> DEFINE Goal ==
      /\ level' \in Levels /\ held_level' \in Levels
      /\ sustained_hold' \in BOOLEAN
      /\ quiet_streak' \in 0..(StreakMod - 1) /\ full_streak' \in 0..2
      /\ hot => level' = COOL /\ ~sustained_hold'
      /\ HoldPinsLevel'
<1>5. ASSUME Cooled(hot) PROVE Goal
  <2>1. level' \in Levels /\ held_level' \in Levels
    BY <1>2, <1>5 DEF Cooled
  <2>2. sustained_hold' \in BOOLEAN
    BY <1>2, <1>5, Zenon DEF Cooled
  <2>3. quiet_streak' \in 0..(StreakMod - 1) /\ full_streak' \in 0..2
    BY <1>2, <1>5, Zenon DEF Cooled
  <2>4. hot => level' = COOL /\ ~sustained_hold'
    BY <1>5, Zenon DEF Cooled
  <2>5. HoldPinsLevel'
    BY <1>2, <1>5, Zenon DEF Cooled
  <2> QED
    BY <2>1, <2>2, <2>3, <2>4, <2>5, Zenon DEF Goal
<1>6. ASSUME Held(hot, c) PROVE Goal
  <2>1. level' \in Levels /\ held_level' \in Levels
    BY <1>1, <1>2, <1>3, <1>6 DEF Held
  <2>2. sustained_hold' \in BOOLEAN
    BY <1>2, <1>6, Zenon DEF Held
  <2>3. quiet_streak' \in 0..(StreakMod - 1) /\ full_streak' \in 0..2
    BY <1>1, <1>2, <1>3, <1>6, Zenon DEF Held
  <2>4. hot => level' = COOL /\ ~sustained_hold'
    BY <1>6, Zenon DEF Held
  <2>5. HoldPinsLevel'
    BY <1>1, <1>2, <1>3, <1>6 DEF Held
  <2> QED
    BY <2>1, <2>2, <2>3, <2>4, <2>5, Zenon DEF Goal
<1>7. ASSUME Quieter(hot, c) PROVE Goal
  <2> DEFINE q == quiet_streak + 1
  <2>a. q \in Nat /\ StreakMod \in Nat \ {0}
    BY <1>2
  <2> HIDE DEF q
  <2>b. q % StreakMod \in 0..(StreakMod - 1)
    BY <2>a
  <2>c. (quiet_streak + 1) % StreakMod \in 0..(StreakMod - 1)
    BY <2>b, Zenon DEF q
  <2>1. level' \in Levels /\ held_level' \in Levels
    BY <1>1, <1>2, <2>c, <1>7 DEF Quieter
  <2>2. sustained_hold' \in BOOLEAN
    BY <1>2, <1>7, Zenon DEF Quieter
  <2>3. quiet_streak' \in 0..(StreakMod - 1) /\ full_streak' \in 0..2
    BY <1>1, <1>2, <2>c, <1>7 DEF Quieter
  <2>4. hot => level' = COOL /\ ~sustained_hold'
    BY <1>7, Zenon DEF Quieter
  <2>5. HoldPinsLevel'
    BY <1>1, <1>2, <2>c, <1>7, Zenon DEF Quieter
  <2> QED
    BY <2>1, <2>2, <2>3, <2>4, <2>5, Zenon DEF Goal
<1>8. ASSUME Throttled(hot, hint, c) PROVE Goal
  <2>1. level' \in Levels /\ held_level' \in Levels
    BY <1>1, <1>2, <1>8 DEF Throttled
  <2>2. sustained_hold' \in BOOLEAN
    BY <1>2, <1>8, Zenon DEF Throttled
  <2>3. quiet_streak' \in 0..(StreakMod - 1) /\ full_streak' \in 0..2
    BY <1>1, <1>2, <1>8 DEF Throttled
  <2>4. hot => level' = COOL /\ ~sustained_hold'
    BY <1>8, Zenon DEF Throttled
  <2>5. HoldPinsLevel'
    BY <1>1, <1>2, <1>8 DEF Throttled
  <2> QED
    BY <2>1, <2>2, <2>3, <2>4, <2>5, Zenon DEF Goal
<1>9. ASSUME Busier(hot, hint, c) PROVE Goal
  <2>1. level' \in Levels /\ held_level' \in Levels
    BY <1>1, <1>2, <1>9 DEF Busier, Sustained, HIGH, SUSTAINED_WINDOWS
  <2>2. sustained_hold' \in BOOLEAN
    BY <1>2, <1>9, Zenon DEF Busier
  <2>3. quiet_streak' \in 0..(StreakMod - 1) /\ full_streak' \in 0..2
    BY <1>1, <1>2, <1>9 DEF Busier, Sustained, HIGH, SUSTAINED_WINDOWS
  <2>4. hot => level' = COOL /\ ~sustained_hold'
    BY <1>9, Zenon DEF Busier
  <2>5. HoldPinsLevel'
    BY <1>1, <1>2, <1>9, Zenon DEF Busier, Sustained, HIGH, SUSTAINED_WINDOWS
  <2> QED
    BY <2>1, <2>2, <2>3, <2>4, <2>5, Zenon DEF Goal
<1>10. Goal
  BY <1>5, <1>6, <1>7, <1>8, <1>9, Zenon DEF choose_level, c
<1> QED
  BY <1>4, <1>10, Zenon DEF Goal

\* The state after the first power_governor_reset satisfies the invariant.
THEOREM GovInitInv == GovInit => GovInv
<1> SUFFICES ASSUME GovInit PROVE GovInv
  BY Zenon
<1>1. FlagsOK
  BY Zenon DEF GovInit, FlagsOK
<1>2. NumbersOK
  BY TimeAssumption, StreakAssumption, BoardAssumption
  DEF GovInit, NumbersOK, Levels, Demands, COOL, BALANCED, UNSET, NORMAL,
      SUSTAINED_WINDOWS
<1>3. OthersOK
  BY DEF GovInit, OthersOK, HotMeansCool, HoldPinsLevel, SleepOnlyWhenLow
<1> QED
  BY <1>1, <1>2, <1>3, GovInvParts, Zenon

\* power_governor_tick keeps the invariant, whether or not it closes a window.
LEMMA TickKeepsGovInv == GovInv /\ GovTick => GovInv'
<1> SUFFICES ASSUME GovInv,
                    NEW later \in Advances, NEW t \in Temps \cup {NoSample},
                    NEW gap \in Gaps \cup {Never}, NEW runnable \in BOOLEAN,
                    power_governor_tick(later, t, gap, runnable)
             PROVE  GovInv'
  BY Zenon DEF GovTick
<1> DEFINE at == (now + later) % TimeMod
<1>1. now \in 0..(TimeMod - 1) /\ TimeMod \in Nat \ {0} /\ later \in Nat
  BY TimeAssumption DEF GovInv, GovTypeOK
<1>2. at \in 0..(TimeMod - 1)
  BY <1>1
<1>3. now' = at /\ foreground' = foreground
  BY Zenon DEF power_governor_tick
<1> HIDE DEF at
<1>4. CASE ~WindowOver(at)
  <2>1. UNCHANGED <<policy, window, have_window, window_started>>
    BY <1>4, Zenon DEF power_governor_tick, at
  <2> QED
    BY <1>2, <1>3, <2>1, Zenon
    DEF GovInv, GovTypeOK, HotMeansCool, HoldPinsLevel, SleepOnlyWhenLow, policy, window
<1>5. CASE WindowOver(at)
  <2>1. /\ have_window' = TRUE /\ window_started' = at
        /\ close_window(t, gap, runnable)
    BY <1>5, Zenon DEF power_governor_tick, at
  <2>2. effective_demand \in Demands
    BY Zenon DEF effective_demand, GovInv, GovTypeOK
  <2>3. thermal' = ThermalAfter(t) /\ ThermalAfter(t) \in BOOLEAN
    BY <2>1, Zenon DEF close_window, ThermalAfter, GovInv, GovTypeOK
  <2>4. choose_level(ThermalAfter(t), effective_demand)
    BY <2>1, Zenon DEF close_window
  <2>5. /\ level' \in Levels /\ held_level' \in Levels
        /\ sustained_hold' \in BOOLEAN
        /\ quiet_streak' \in 0..(StreakMod - 1)
        /\ full_streak' \in 0..(SUSTAINED_WINDOWS - 1)
        /\ thermal' => level' = COOL /\ ~sustained_hold'
        /\ HoldPinsLevel'
    BY <2>2, <2>3, <2>4, ChooseLevel, Zenon
  <2>6. clock' = freq_for_level(level')
    BY <2>1, Zenon DEF close_window
  <2>7. clock' \in 0..(NFreqs - 1)
    BY <2>5, <2>6, ClockInRange, Zenon
  <2>8. HotMeansCool'
    BY <2>5, <2>6, ClockInRange, Zenon DEF HotMeansCool
  <2>9. light_sleep' \in Nat /\ SleepOnlyWhenLow'
    BY <2>1, <2>5, InputAssumption
    DEF close_window, SleepOnlyWhenLow, Never, LIGHT_SLEEP_MIN, Levels, ECONOMY
  <2>10. busy' = 0 /\ idle' = 0 /\ window_demand' = UNSET
    BY <2>1, Zenon DEF close_window
  <2>11. GovTypeOK'
    BY <1>2, <1>3, <2>1, <2>3, <2>5, <2>7, <2>9, <2>10, BoardAssumption
    DEF GovInv, GovTypeOK, Demands, UNSET
  <2> QED
    BY <2>5, <2>8, <2>9, <2>11, Zenon DEF GovInv
<1> QED
  BY <1>4, <1>5, Zenon

\* Every operation of the governor keeps the invariant.
THEOREM GovNextInv == GovInv /\ [GovNext]_govVars => GovInv'
<1> SUFFICES ASSUME GovInv, [GovNext]_govVars PROVE GovInv'
  BY Zenon
<1>0. FlagsOK /\ NumbersOK /\ OthersOK
  BY GovInvParts, Zenon
<1>p. FlagsOK' /\ NumbersOK' /\ OthersOK' => GovInv'
  BY GovInvParts, PTL
<1>q. UNCHANGED policy => (OthersOK' <=> OthersOK)
  BY DEF policy, OthersOK, HotMeansCool, HoldPinsLevel, SleepOnlyWhenLow
<1>1. CASE GovTick
  BY <1>1, TickKeepsGovInv, Zenon
<1>2. CASE power_governor_note_idle
  <2>1. FlagsOK'
    BY <1>0, <1>2, Zenon DEF power_governor_note_idle, FlagsOK, policy, timing
  <2>2. NumbersOK'
    BY <1>0, <1>2, BoardAssumption
    DEF power_governor_note_idle, NumbersOK, policy, timing
  <2> QED
    BY <1>0, <1>2, <1>p, <1>q, <2>1, <2>2, Zenon DEF power_governor_note_idle
<1>3. ASSUME NEW d \in Demands, power_governor_note_busy(d) PROVE GovInv'
  <2>1. FlagsOK'
    BY <1>0, <1>3, Zenon DEF power_governor_note_busy, FlagsOK, policy, timing
  <2>2. NumbersOK'
    BY <1>0, <1>3, BoardAssumption
    DEF power_governor_note_busy, NumbersOK, policy, timing
  <2> QED
    BY <1>0, <1>3, <1>p, <1>q, <2>1, <2>2, Zenon DEF power_governor_note_busy
<1>4. ASSUME NEW d \in Demands, power_governor_set_foreground_demand(d)
      PROVE  GovInv'
  <2>1. FlagsOK'
    BY <1>0, <1>4, Zenon DEF power_governor_set_foreground_demand, FlagsOK, policy, timing
  <2>2. NumbersOK'
    BY <1>0, <1>4
    DEF power_governor_set_foreground_demand, NumbersOK, policy, timing, window,
        Demands, NORMAL, UNSET
  <2> QED
    BY <1>0, <1>4, <1>p, <1>q, <2>1, <2>2, Zenon DEF power_governor_set_foreground_demand
<1>5. CASE power_governor_reset
  <2>1. FlagsOK'
    BY <1>5, Zenon DEF power_governor_reset, FlagsOK
  <2>2. NumbersOK'
    BY <1>0, <1>5, TimeAssumption, StreakAssumption, BoardAssumption
    DEF power_governor_reset, NumbersOK, Levels, Demands, COOL, BALANCED, UNSET,
        NORMAL, SUSTAINED_WINDOWS
  <2>3. OthersOK'
    BY <1>5
    DEF power_governor_reset, OthersOK, HotMeansCool, HoldPinsLevel, SleepOnlyWhenLow
  <2> QED
    BY <1>p, <2>1, <2>2, <2>3, Zenon
<1>6. CASE UNCHANGED govVars
  <2>1. FlagsOK' /\ NumbersOK'
    BY <1>0, <1>6, Zenon DEF govVars, FlagsOK, NumbersOK, policy, timing, window
  <2> QED
    BY <1>0, <1>6, <1>p, <1>q, <2>1, Zenon DEF govVars
<1> QED
  BY <1>1, <1>2, <1>3, <1>4, <1>5, <1>6, Zenon DEF GovNext

\* Whatever the load, the demands, the temperatures and the board: on a hot die
\* the level is COOL on the lowest clock, and no hold is pending.
THEOREM HotAlwaysCool == GovSpec => []HotMeansCool
<1>1. GovInv => HotMeansCool
  BY Zenon DEF GovInv
<1> QED
  BY <1>1, GovInitInv, GovNextInv, PTL DEF GovSpec

\* A hold pins the level at ECONOMY or BALANCED.
THEOREM HoldAlwaysPins == GovSpec => []HoldPinsLevel
<1>1. GovInv => HoldPinsLevel
  BY Zenon DEF GovInv
<1> QED
  BY <1>1, GovInitInv, GovNextInv, PTL DEF GovSpec

\* Light sleep is recommended only at the low levels.
THEOREM SleepAlwaysLow == GovSpec => []SleepOnlyWhenLow
<1>1. GovInv => SleepOnlyWhenLow
  BY Zenon DEF GovInv
<1> QED
  BY <1>1, GovInitInv, GovNextInv, PTL DEF GovSpec

-----------------------------------------------------------------------------
(* What a step may do to the level.                                         *)

\* A tick closes the window with the temperature it reads, or leaves the policy
\* and the start of the window alone.
LEMMA TickCases ==
    ASSUME GovTick
    PROVE  \/ UNCHANGED <<policy, window_started>>
           \/ choose_level(thermal', effective_demand)
<1>1. PICK later \in Advances, t \in Temps \cup {NoSample},
           gap \in Gaps \cup {Never}, runnable \in BOOLEAN :
             power_governor_tick(later, t, gap, runnable)
  BY Zenon DEF GovTick
<1> QED
  BY <1>1, Zenon DEF power_governor_tick, close_window

\* The other operations leave the policy and the start of the window alone.
LEMMA OtherCases ==
    ASSUME [GovNext]_govVars, ~GovTick, ~power_governor_reset
    PROVE  UNCHANGED <<policy, window_started>>
BY Zenon DEF GovNext, govVars, timing, power_governor_note_idle, power_governor_note_busy,
       power_governor_set_foreground_demand

\* A window that was busy, on a die that is not hot, keeps a hold and does not
\* raise the level under it.
LEMMA HeldUnderLoad ==
    ASSUME GovInv, choose_level(FALSE, effective_demand), sustained_hold, busy > 0
    PROVE  sustained_hold' /\ level' <= level
<1> DEFINE c == ceiling_for(effective_demand)
<1>0. ~Quiet
  BY DEF Quiet, GovInv, GovTypeOK
<1>1. Held(FALSE, c)
  BY <1>0, Zenon DEF choose_level, Cooled, Quieter, Throttled, Busier
<1>2. c \in {ECONOMY, PERFORMANCE}
  BY Zenon DEF ceiling_for
<1>3. level = held_level /\ held_level \in 0..3
  BY Zenon DEF GovInv, GovTypeOK, HoldPinsLevel, Levels
<1> HIDE DEF c
<1>4. sustained_hold'
  BY <1>1, Zenon DEF Held
<1> QED
  BY <1>1, <1>2, <1>3, <1>4 DEF Held, Least, ECONOMY, PERFORMANCE

\* A window with no demand of NORMAL or more ends at ECONOMY or below.
LEMMA LowCeiling ==
    ASSUME GovInv, NEW hot \in BOOLEAN, choose_level(hot, effective_demand),
           effective_demand < NORMAL
    PROVE  level' <= ECONOMY
<1>1. ceiling_for(effective_demand) = ECONOMY
  <2>1. effective_demand \in Demands
    BY Zenon DEF effective_demand, GovInv, GovTypeOK
  <2> QED
    BY <2>1 DEF ceiling_for, Demands, NORMAL
<1>2. level \in 0..3 /\ held_level \in 0..3
  BY Zenon DEF GovInv, GovTypeOK, Levels
<1> DEFINE e == effective_demand
<1>3. \/ Cooled(hot) \/ Held(hot, ECONOMY) \/ Quieter(hot, ECONOMY)
      \/ Throttled(hot, e, ECONOMY) \/ Busier(hot, e, ECONOMY)
  BY <1>1, Zenon DEF choose_level
<1> HIDE DEF e
<1> USE DEF ECONOMY, COOL, Least
<1>4. CASE Cooled(hot)
  BY <1>4 DEF Cooled
<1>5. CASE Held(hot, ECONOMY)
  BY <1>2, <1>5 DEF Held
<1>6. CASE Quieter(hot, ECONOMY)
  BY <1>2, <1>6 DEF Quieter
<1>7. CASE Throttled(hot, e, ECONOMY)
  BY <1>7 DEF Throttled
<1>8. CASE Busier(hot, e, ECONOMY)
  BY <1>2, <1>8 DEF Busier
<1> QED
  BY <1>3, <1>4, <1>5, <1>6, <1>7, <1>8, Zenon

\* For every board and load: only quiet, heat or a restart ends a hold, and
\* nothing raises the level under it.
THEOREM HoldSurvivesLoad == GovSpec => HoldOutlastsLoad
<1> DEFINE A == sustained_hold /\ busy > 0 /\ ~thermal' /\ ~power_governor_reset =>
                  sustained_hold' /\ level' <= level
<1>1. GovInv /\ GovInv' /\ [GovNext]_govVars => A
  <2> SUFFICES ASSUME GovInv, GovInv', [GovNext]_govVars, sustained_hold, busy > 0,
                      ~thermal', ~power_governor_reset
               PROVE  sustained_hold' /\ level' <= level
    BY Zenon
  <2>1. thermal' = FALSE
    BY Zenon DEF GovInv, GovTypeOK
  <2>2. CASE UNCHANGED policy
    <3>1. level \in 0..3
      BY Zenon DEF GovInv, GovTypeOK, Levels
    <3> QED
      BY <2>2, <3>1 DEF policy
  <2>3. CASE choose_level(thermal', effective_demand)
    <3>1. choose_level(FALSE, effective_demand)
      BY <2>1, <2>3, Zenon
    <3> QED
      BY <3>1, HeldUnderLoad, Zenon
  <2> QED
    BY <2>2, <2>3, TickCases, OtherCases, Zenon
<1> HIDE DEF A
<1>2. GovSpec => [][A]_govVars
  BY <1>1, GovInitInv, GovNextInv, PTL DEF GovSpec
<1> QED
  BY <1>2, Zenon DEF HoldOutlastsLoad, A

\* For every board and load: without a demand of NORMAL or more a window leaves
\* the level at ECONOMY or below.
THEOREM LowIsCapped == GovSpec => LowStaysLow
<1> DEFINE A == effective_demand < NORMAL /\ window_started' # window_started
                  /\ ~power_governor_reset => level' <= ECONOMY
<1>1. GovInv /\ GovInv' /\ [GovNext]_govVars => A
  <2> SUFFICES ASSUME GovInv, GovInv', [GovNext]_govVars, effective_demand < NORMAL,
                      window_started' # window_started, ~power_governor_reset
               PROVE  level' <= ECONOMY
    BY Zenon
  <2>1. thermal' \in BOOLEAN
    BY Zenon DEF GovInv, GovTypeOK
  <2>2. choose_level(thermal', effective_demand)
    BY TickCases, OtherCases, Zenon
  <2> QED
    BY <2>1, <2>2, LowCeiling, Zenon
<1> HIDE DEF A
<1>2. GovSpec => [][A]_govVars
  BY <1>1, GovInitInv, GovNextInv, PTL DEF GovSpec
<1> QED
  BY <1>2, Zenon DEF LowStaysLow, A

-----------------------------------------------------------------------------
(* Sleep.                                                                  *)

SleepType ==
    /\ pw_slots \in [PowerSlots -> PowerDrivers \cup {NoDriver}]
    /\ pw_awake \in [PowerDrivers -> BOOLEAN]
    /\ pw_call \in [Sleepers -> [call : {"none", "light", "deep"}, until : Int, left : Int]]
    /\ pw_now \in Int

SleepInv == SleepType /\ AwakeAtRest

\* The state PowerOffInit has the types, and nobody sleeps in it.
LEMMA PowerOffInv == PowerOffInit => SleepInv
<1> SUFFICES ASSUME PowerOffInit PROVE SleepInv
  BY Zenon
<1>1. SleepType
  BY DEF PowerOffInit, SleepType, Resting
<1>2. AwakeAtRest
  BY Zenon DEF PowerOffInit, AwakeAtRest, Registered
<1> QED
  BY <1>1, <1>2, Zenon DEF SleepInv

\* Every step keeps the types.
LEMMA SleepTypes == SleepType /\ [SleepNext]_pw_vars => SleepType'
<1> SUFFICES ASSUME SleepType, [SleepNext]_pw_vars PROVE SleepType'
  BY Zenon
<1> USE DEF SleepType
<1>1. ClockMod \in Nat \ {0} /\ \A timeout \in Timeouts : timeout \in Int
  BY PowerAssumption
<1>2. CASE power_init
  BY <1>2, Zenon DEF power_init
<1>3. CASE power_deinit
  BY <1>3, Zenon DEF power_deinit
<1>4. CASE Millisecond
  <2>1. pw_now' \in Int
    BY <1>1, <1>4 DEF Millisecond
  <2>2. ASSUME NEW t \in Sleepers
        PROVE  [pw_call[t] EXCEPT !.left = IF @ > 0 THEN @ - 1 ELSE 0]
                 \in [call : {"none", "light", "deep"}, until : Int, left : Int]
    OBVIOUS
  <2> QED
    BY <1>4, <2>1, <2>2, Zenon DEF Millisecond
<1>5. ASSUME NEW d \in PowerDrivers,
             power_register_driver(d) \/ power_unregister_driver(d)
      PROVE  SleepType'
  <2>1. PICK i \in PowerSlots, e \in {d, NoDriver} : pw_slots' = [pw_slots EXCEPT ![i] = e]
    BY <1>5, Zenon DEF power_register_driver, power_unregister_driver
  <2>2. pw_slots' \in [PowerSlots -> PowerDrivers \cup {NoDriver}]
    BY <2>1, Zenon
  <2>3. pw_awake' \in [PowerDrivers -> BOOLEAN]
    BY <1>5, Zenon DEF power_register_driver, power_unregister_driver
  <2> QED
    BY <1>5, <2>2, <2>3, Zenon DEF power_register_driver, power_unregister_driver
<1>6. ASSUME NEW t \in Sleepers, LightSleepEnds(t) \/ DeepSleepEnds(t) PROVE SleepType'
  <2>1. pw_awake' \in [PowerDrivers -> BOOLEAN]
    BY <1>6, Zenon DEF LightSleepEnds, DeepSleepEnds, Resumed
  <2>2. pw_call' = [pw_call EXCEPT ![t] = Resting]
    BY <1>6, Zenon DEF LightSleepEnds, DeepSleepEnds
  <2>3. UNCHANGED <<pw_slots, pw_now>>
    BY <1>6, Zenon DEF LightSleepEnds, DeepSleepEnds
  <2> QED
    BY <2>1, <2>2, <2>3 DEF Resting
<1>7. ASSUME NEW t \in Sleepers, NEW timeout \in Timeouts, power_light_sleep(t, timeout)
      PROVE  SleepType'
  <2>1. (pw_now + timeout) % ClockMod \in Int
    BY <1>1
  <2> QED
    BY <1>7, <2>1 DEF power_light_sleep
<1>8. ASSUME NEW t \in Sleepers, NEW timeout \in Timeouts, NEW gpio \in BOOLEAN,
             power_deep_sleep_with_gpio_wake(t, gpio, timeout)
      PROVE  SleepType'
  <2>1. pw_awake' \in [PowerDrivers -> BOOLEAN]
    BY <1>8, Zenon DEF power_deep_sleep_with_gpio_wake, Suspended, Resumed
  <2> QED
    BY <1>1, <1>8, <2>1 DEF power_deep_sleep_with_gpio_wake
<1>9. CASE UNCHANGED pw_vars
  BY <1>9, Zenon DEF pw_vars
<1> QED
  BY <1>2, <1>3, <1>4, <1>5, <1>6, <1>7, <1>8, <1>9, Zenon DEF SleepNext

\* Every step leaves nothing asleep that nobody is waiting for.
LEMMA SleepNextInv == SleepInv /\ [SleepNext]_pw_vars => AwakeAtRest'
<1> SUFFICES ASSUME SleepInv, [SleepNext]_pw_vars PROVE AwakeAtRest'
  BY Zenon
<1> USE DEF SleepInv
<1>1. CASE power_init
  BY <1>1, Zenon DEF power_init, AwakeAtRest, Registered
<1>2. CASE power_deinit
  BY <1>2, Zenon DEF power_deinit, AwakeAtRest, Registered
<1>3. CASE Millisecond
  <2>1. \A t \in Sleepers : pw_call'[t].call = pw_call[t].call
    BY <1>3, Zenon DEF Millisecond, SleepType
  <2> QED
    BY <1>3, <2>1, Zenon DEF Millisecond, AwakeAtRest, Registered
<1>4. ASSUME NEW d \in PowerDrivers, power_register_driver(d) PROVE AwakeAtRest'
  <2>1. Registered' \subseteq Registered \cup {d}
    BY <1>4 DEF power_register_driver, Registered, SleepType
  <2>2. \A e \in PowerDrivers : pw_awake'[e] <=> e = d \/ pw_awake[e]
    BY <1>4, Zenon DEF power_register_driver, SleepType
  <2>3. Registered \subseteq PowerDrivers
    BY Zenon DEF Registered, SleepType
  <2> QED
    BY <1>4, <2>1, <2>2, <2>3, Zenon DEF power_register_driver, AwakeAtRest
<1>5. ASSUME NEW d \in PowerDrivers, power_unregister_driver(d) PROVE AwakeAtRest'
  <2>1. Registered' \subseteq Registered
    BY <1>5 DEF power_unregister_driver, Registered, SleepType
  <2> QED
    BY <1>5, <2>1, Zenon DEF power_unregister_driver, AwakeAtRest
<1>6. ASSUME NEW t \in Sleepers, LightSleepEnds(t) PROVE AwakeAtRest'
  <2>1. /\ pw_call[t].call # "deep"
        /\ \A u \in Sleepers : u # t => pw_call'[u].call = pw_call[u].call
        /\ pw_call'[t].call # "deep"
    BY <1>6, Zenon DEF LightSleepEnds, SleepType, Resting
  <2> QED
    BY <1>6, <2>1, Zenon DEF LightSleepEnds, AwakeAtRest, Registered
<1>7. ASSUME NEW t \in Sleepers, DeepSleepEnds(t) PROVE AwakeAtRest'
  <2>1. /\ pw_call[t].call # "light"
        /\ \A u \in Sleepers : u # t => pw_call'[u].call = pw_call[u].call
    BY <1>7, Zenon DEF DeepSleepEnds, SleepType
  <2>2. \A d \in Registered' : pw_awake'[d]
    BY <1>7, Zenon DEF DeepSleepEnds, Resumed, Registered, SleepType
  <2> QED
    BY <1>7, <2>1, <2>2, Zenon DEF DeepSleepEnds, AwakeAtRest
<1>8. ASSUME NEW t \in Sleepers, NEW timeout \in Timeouts, power_light_sleep(t, timeout)
      PROVE  AwakeAtRest'
  <2>1. /\ pw_call[t].call # "deep" /\ pw_call'[t].call = "light"
        /\ \A u \in Sleepers : u # t => pw_call'[u].call = pw_call[u].call
    BY <1>8 DEF power_light_sleep, SleepType, Resting
  <2> QED
    BY <1>8, <2>1, Zenon DEF power_light_sleep, AwakeAtRest, Registered
<1>9. ASSUME NEW t \in Sleepers, NEW timeout \in Timeouts, NEW gpio \in BOOLEAN,
             power_deep_sleep_with_gpio_wake(t, gpio, timeout)
      PROVE  AwakeAtRest'
  <2>1. CASE timeout # 0
    <3>1. /\ pw_call[t].call # "light" /\ pw_call'[t].call = "deep"
          /\ \A u \in Sleepers : u # t => pw_call'[u].call = pw_call[u].call
      BY <1>9, <2>1 DEF power_deep_sleep_with_gpio_wake, SleepType, Resting
    <3> QED
      BY <1>9, <2>1, <3>1, Zenon DEF power_deep_sleep_with_gpio_wake, AwakeAtRest
  <2>2. CASE timeout = 0 /\ gpio
    <3>1. \A d \in Registered' : pw_awake'[d]
      BY <1>9, <2>2, Zenon DEF power_deep_sleep_with_gpio_wake, Endless, Resumed, Registered, SleepType
    <3> QED
      BY <1>9, <2>2, <3>1, Zenon DEF power_deep_sleep_with_gpio_wake, AwakeAtRest
  <2>3. CASE timeout = 0 /\ ~gpio
    BY <1>9, <2>3, Zenon DEF power_deep_sleep_with_gpio_wake, AwakeAtRest
  <2> QED
    BY <2>1, <2>2, <2>3, Zenon
<1>10. CASE UNCHANGED pw_vars
  BY <1>10, Zenon DEF pw_vars, AwakeAtRest, Registered
<1> QED
  BY <1>1, <1>2, <1>3, <1>4, <1>5, <1>6, <1>7, <1>8, <1>9, <1>10, Zenon DEF SleepNext

\* However sleeps of several tasks overlap and whatever drivers come and go
\* meanwhile (power_light_sleep, power_deep_sleep_with_gpio_wake), once nobody
\* sleeps the mode is active and every registered driver is resumed.
THEOREM SleepLeavesAwake == SleepSpec => []AwakeAtRest
<1>1. SleepInv /\ [SleepNext]_pw_vars => SleepInv'
  BY SleepTypes, SleepNextInv, Zenon DEF SleepInv
<1>2. SleepInv => AwakeAtRest
  BY Zenon DEF SleepInv
<1> QED
  BY PowerOffInv, <1>1, <1>2, PTL DEF SleepSpec

=============================================================================
