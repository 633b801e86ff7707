------------------------------- MODULE Timers -------------------------------
(***************************************************************************)
(* The software timers of kernel/os_time.c.  Timers hang on one list,      *)
(* ordered by the time they expire; timers_process, called once per turn   *)
(* of the main loop, runs the callbacks of those that are due.  A callback *)
(* is code of its own: while it runs it may start, stop and delete any     *)
(* timer, its own included, so a pass is modelled one callback at a time,  *)
(* with the timer operations possible in between.                          *)
(*                                                                         *)
(* Time is g_time_offset + g_boot_time; the board feeds g_boot_time and    *)
(* time_rtc_set moves the offset under the timers that wait.               *)
(***************************************************************************)
EXTENDS Lists

CONSTANTS OsTimers,     \* the os_timer_t objects of the program
          Periods,      \* delays they are created with (periods of periodic ones)
          RtcTimes,     \* values the clock is set to
          LastBoot,     \* bound: g_boot_time
          MaxFired      \* bound: callbacks of one pass of timers_process

ASSUME TimersAssumption == Periods \subseteq Nat /\ RtcTimes \subseteq Nat /\ LastBoot \in Nat

VARIABLES g_boot_time, g_time_offset,
          os_timer,       \* the os_timer_t objects
          g_timer_list,
          pass            \* timers_process: whether it runs, the time it read

tmrVars == <<g_boot_time, g_time_offset, os_timer, g_timer_list, pass>>

time_now_us == g_time_offset + g_boot_time

\* next to the fields of os_timer_t, history: "since" is the boot time at which
\* a periodic timer was started or last fired (Unknown once the clock is set
\* under it); "early" is set when it fires before a whole period has gone by
Unknown == -1

Unset == [expire_time |-> 0, callback |-> FALSE, periodic |-> FALSE, period |-> 0,
          active |-> FALSE, since |-> 0, early |-> FALSE]

Idle == [on |-> FALSE, now |-> 0, fired |-> 0]

TimersInit ==
    /\ g_boot_time = 0 /\ g_time_offset = 0
    /\ os_timer = [t \in OsTimers |-> Unset]
    /\ g_timer_list = <<>>
    /\ pass = Idle

(***************************************************************************)
(* The operations, called by tasks between two passes and by the callback  *)
(* that runs in one.                                                       *)
(***************************************************************************)
Caller == pass.on => pass.fired > 0

Linked(t) == \E i \in 1..Len(g_timer_list) : g_timer_list[i] = t

\* the expire_time it sets is overwritten by os_timer_start before it is read.
\* Nothing stops a caller from creating a timer again while it is linked, which
\* loses the rest of the list; that misuse is left out
os_timer_create(t, delay_us, periodic) ==
    /\ Caller
    /\ ~Linked(t)
    /\ os_timer' = [os_timer EXCEPT ![t] =
                      [Unset EXCEPT !.callback = TRUE,
                                    !.periodic = periodic, !.period = delay_us]]
    /\ UNCHANGED <<g_boot_time, g_time_offset, g_timer_list, pass>>

\* mutant: the new timer goes to the head of the list
timer_list_insert_head(list, t, all) == <<t>> \o list

timer_list_insert(list, t, all) ==
    LET later == {i \in 1..Len(list) : all[list[i]].expire_time > all[t].expire_time}
    IN  Inserted(list, First(later \cup {Len(list) + 1}), t)

\* a one-shot timer expires at the moment it is started, whatever its delay
Delay(timer) == IF timer.periodic THEN timer.period ELSE 0

os_timer_start(t) ==
    /\ Caller
    /\ ~os_timer[t].active
    /\ os_timer' = [os_timer EXCEPT ![t].expire_time = time_now_us + Delay(os_timer[t]),
                                    ![t].active = TRUE, ![t].since = g_boot_time]
    /\ g_timer_list' = timer_list_insert(g_timer_list, t, os_timer')
    /\ UNCHANGED <<g_boot_time, g_time_offset, pass>>

\* a timer at rest; its times are read no more, and forgotten
Rested(timer) == [timer EXCEPT !.active = FALSE, !.expire_time = 0, !.since = 0]

\* an inactive timer is left as it is, and so is one the walk does not meet
Stops(t) == os_timer[t].active /\ Linked(t)

os_timer_stop(t) ==
    /\ Caller
    /\ Stops(t)
    /\ g_timer_list' = Without(g_timer_list, First({i \in 1..Len(g_timer_list) : g_timer_list[i] = t}))
    /\ os_timer' = [os_timer EXCEPT ![t] = Rested(@)]
    /\ UNCHANGED <<g_boot_time, g_time_offset, pass>>

os_timer_delete(t) ==
    /\ Caller
    /\ \/ /\ Stops(t)
          /\ g_timer_list' = Without(g_timer_list, First({i \in 1..Len(g_timer_list) : g_timer_list[i] = t}))
          /\ os_timer' = [os_timer EXCEPT ![t] = [Rested(@) EXCEPT !.callback = FALSE]]
       \/ /\ ~Stops(t)
          /\ g_timer_list' = g_timer_list
          /\ os_timer' = [os_timer EXCEPT ![t].callback = FALSE]
    /\ UNCHANGED <<g_boot_time, g_time_offset, pass>>

(***************************************************************************)
(* timers_process reads the time once; each step of the pass takes the     *)
(* head of the list off, links a periodic timer again and calls back.      *)
(***************************************************************************)
timers_process ==
    /\ ~pass.on
    /\ pass' = [on |-> TRUE, now |-> time_now_us, fired |-> 0]
    /\ UNCHANGED <<g_boot_time, g_time_offset, os_timer, g_timer_list>>

DueHead == g_timer_list # <<>> /\ os_timer[g_timer_list[1]].expire_time <= pass.now

Expire ==
    /\ pass.on /\ pass.fired < MaxFired
    /\ DueHead
    /\ LET t     == g_timer_list[1]
           timer == os_timer[t]
           early == /\ timer.since # Unknown /\ pass.now = time_now_us
                    /\ g_boot_time < timer.since + timer.period
       IN  IF timer.periodic
           THEN /\ os_timer' = [os_timer EXCEPT ![t].expire_time = pass.now + timer.period,
                                                ![t].since = IF pass.now = time_now_us
                                                             THEN g_boot_time ELSE Unknown,
                                                ![t].early = @ \/ early]
                /\ g_timer_list' = timer_list_insert(Tail(g_timer_list), t, os_timer')
           ELSE /\ os_timer' = [os_timer EXCEPT ![t] = Rested(@)]
                /\ g_timer_list' = Tail(g_timer_list)
    /\ pass' = [pass EXCEPT !.fired = @ + 1]
    /\ UNCHANGED <<g_boot_time, g_time_offset>>

PassEnds ==
    /\ pass.on /\ ~DueHead
    /\ pass' = Idle
    /\ UNCHANGED <<g_boot_time, g_time_offset, os_timer, g_timer_list>>

(***************************************************************************)
(* The clock.  The boards call time_set_now_us from the main loop, so not  *)
(* during a pass.                                                          *)
(***************************************************************************)
time_set_now_us(us) ==
    /\ us > g_boot_time /\ us <= LastBoot
    /\ ~pass.on
    /\ g_boot_time' = us
    /\ UNCHANGED <<g_time_offset, os_timer, g_timer_list, pass>>

time_rtc_set(epoch_us) ==
    /\ Caller
    /\ g_time_offset' = epoch_us - g_boot_time
    /\ os_timer' = [t \in OsTimers |-> [os_timer[t] EXCEPT !.since = IF os_timer[t].active
                                                              THEN Unknown ELSE 0]]
    /\ UNCHANGED <<g_boot_time, g_timer_list, pass>>

TimersNext ==
    \/ \E t \in OsTimers, d \in Periods, p \in BOOLEAN : os_timer_create(t, d, p)
    \/ \E t \in OsTimers : os_timer_start(t)
    \/ \E t \in OsTimers : os_timer_stop(t)
    \/ \E t \in OsTimers : os_timer_delete(t)
    \/ timers_process \/ Expire \/ PassEnds
    \/ \E us \in 1..LastBoot : time_set_now_us(us)
    \/ \E epoch \in RtcTimes : time_rtc_set(epoch)

TimersSpec == TimersInit /\ [][TimersNext]_tmrVars

(***************************************************************************)
(* Properties.                                                             *)
(***************************************************************************)
\* The list holds exactly the active timers, each once, the next to expire
\* first, through callbacks that start, stop and delete timers while
\* timers_process walks the list, and through changes of the clock
TimerListExact ==
    /\ \A t \in OsTimers : os_timer[t].active <=> Linked(t)
    /\ \A i, j \in 1..Len(g_timer_list) : i < j =>
          /\ g_timer_list[i] # g_timer_list[j]
          /\ os_timer[g_timer_list[i]].expire_time <= os_timer[g_timer_list[j]].expire_time

\* A periodic timer fires no sooner than one whole period after it was started
\* or last fired, so at most once in a pass however late the pass is, unless
\* the clock is set in between
NeverEarly ==
    \A t \in OsTimers : ~os_timer[t].early

\* What a caller of os_timer_start relies on: a started timer stays on the list
\* in its place until it is stopped or fires, and a periodic one is never early.
TimersKept == TimerListExact /\ NeverEarly

=============================================================================
