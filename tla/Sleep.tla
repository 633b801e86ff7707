------------------------------- MODULE Sleep -------------------------------
(***************************************************************************)
(* The sleep calls of kernel/power.c and the drivers they suspend.  Both   *)
(* sleeps wait in time_sleep_ms, which yields to the other tasks           *)
(* (kernel/os_time.c:68): another task may sleep too, register a driver,   *)
(* remove one, or shut the power module down, all between the suspend and  *)
(* the resume callbacks of the first.                                      *)
(* Left out: the CPU frequencies (PowerGovernor), the wake configuration   *)
(* and the wake result, which nothing reads back.                          *)
(***************************************************************************)
EXTENDS Integers, FiniteSets

CONSTANTS Sleepers,      \* tasks that call the sleep functions
          PowerDrivers,  \* handles given to power_register_driver
          PowerSlots,    \* 1..8 in the code
          Timeouts,      \* timeout_ms arguments
          ClockMod       \* time_now_ms counts modulo this, 2^32 in the code

ASSUME PowerAssumption ==
    /\ PowerSlots \subseteq Nat /\ IsFiniteSet(PowerSlots)
    /\ ClockMod \in Nat \ {0}
    /\ Timeouts \subseteq 0 .. ClockMod - 1
    /\ "none" \notin PowerDrivers

VARIABLES
    pw_on,        \* g_power.initialized
    pw_mode,      \* g_power.current_mode
    pw_slots,     \* g_power.drivers: the handle in each slot, NoDriver when not registered
    pw_awake,     \* the drivers themselves: FALSE after their suspend callback
    pw_call,      \* what each task is inside: [call, until, left]
    pw_now,       \* time_now_ms
    pw_off        \* history: the last deep sleep was one without a wake source

pw_vars == <<pw_on, pw_mode, pw_slots, pw_awake, pw_call, pw_now, pw_off>>

NoDriver == "none"
Resting == [call |-> "none", until |-> 0, left |-> 0]

PowerOffInit ==
    /\ pw_on = FALSE
    /\ pw_mode = "active"
    /\ pw_slots = [i \in PowerSlots |-> NoDriver]
    /\ pw_awake = [d \in PowerDrivers |-> TRUE]
    /\ pw_call = [t \in Sleepers |-> Resting]
    /\ pw_now = 0
    /\ pw_off = FALSE

Registered == {pw_slots[i] : i \in PowerSlots} \ {NoDriver}

power_init ==
    /\ ~pw_on
    /\ pw_on' = TRUE
    /\ pw_mode' = "active"
    /\ pw_slots' = [i \in PowerSlots |-> NoDriver]
    /\ UNCHANGED <<pw_awake, pw_call, pw_now, pw_off>>

power_deinit ==
    /\ pw_on' = FALSE
    /\ pw_mode' = "active"
    /\ UNCHANGED <<pw_slots, pw_awake, pw_call, pw_now, pw_off>>

\* The first slot that is not registered; a driver registers once it runs.
power_register_driver(d) ==
    /\ \E i \in PowerSlots :
          /\ pw_slots[i] = NoDriver
          /\ \A j \in PowerSlots : j < i => pw_slots[j] # NoDriver
          /\ pw_slots' = [pw_slots EXCEPT ![i] = d]
    /\ pw_awake' = [pw_awake EXCEPT ![d] = TRUE]
    /\ UNCHANGED <<pw_on, pw_mode, pw_call, pw_now, pw_off>>

power_unregister_driver(d) ==
    /\ \E i \in PowerSlots :
          /\ pw_slots[i] = d
          /\ \A j \in PowerSlots : j < i => pw_slots[j] # d
          /\ pw_slots' = [pw_slots EXCEPT ![i] = NoDriver]
    /\ UNCHANGED <<pw_on, pw_mode, pw_awake, pw_call, pw_now, pw_off>>

\* timeout_ms = 0 is refused.
power_light_sleep(t, timeout) ==
    /\ pw_call[t] = Resting
    /\ pw_on
    /\ timeout # 0
    /\ pw_mode' = "light"
    /\ pw_call' = [pw_call EXCEPT ![t] = [call |-> "light", until |-> (pw_now + timeout) % ClockMod, left |-> 0]]
    /\ UNCHANGED <<pw_on, pw_slots, pw_awake, pw_now, pw_off>>

\* The end of the loop: the time is over, or somebody set the mode.
LightSleepEnds(t) ==
    /\ pw_call[t].call = "light"
    /\ pw_now >= pw_call[t].until \/ pw_mode # "light"
    /\ pw_mode' = "active"
    /\ pw_call' = [pw_call EXCEPT ![t] = Resting]
    /\ UNCHANGED <<pw_on, pw_slots, pw_awake, pw_now, pw_off>>

\* mutant: a wake-up by a pin counts as no wake source
Endless_pin_ignored(timeout, gpio) == timeout = 0

\* A deep sleep without a wake source returns with the drivers suspended.
Endless(timeout, gpio) == timeout = 0 /\ ~gpio

Suspended == [d \in PowerDrivers |-> d \notin Registered /\ pw_awake[d]]
Resumed == [d \in PowerDrivers |-> d \in Registered \/ pw_awake[d]]

\* A sleep for a pin alone does not wait for it: no other task gets to run
\* between its suspend and its resume callbacks.
power_deep_sleep_with_gpio_wake(t, gpio, timeout) ==
    /\ pw_call[t] = Resting
    /\ pw_on
    /\ pw_awake' = IF timeout = 0 /\ ~Endless(timeout, gpio) THEN Resumed ELSE Suspended
    /\ pw_call' = IF timeout = 0 THEN pw_call
                  ELSE [pw_call EXCEPT ![t] = [call |-> "deep", until |-> 0, left |-> timeout]]
    /\ pw_off' = IF timeout = 0 THEN ~gpio ELSE pw_off
    /\ UNCHANGED <<pw_on, pw_mode, pw_slots, pw_now>>

\* The end of time_sleep_ms, then the resume callbacks.
DeepSleepEnds(t) ==
    /\ pw_call[t].call = "deep" /\ pw_call[t].left = 0
    /\ pw_awake' = Resumed
    /\ pw_call' = [pw_call EXCEPT ![t] = Resting]
    /\ pw_off' = FALSE
    /\ UNCHANGED <<pw_on, pw_mode, pw_slots, pw_now>>

Millisecond ==
    /\ pw_now' = (pw_now + 1) % ClockMod
    /\ pw_call' = [t \in Sleepers |->
                      [pw_call[t] EXCEPT !.left = IF @ > 0 THEN @ - 1 ELSE 0]]
    /\ UNCHANGED <<pw_on, pw_mode, pw_slots, pw_awake, pw_off>>

SleepNext ==
    \/ power_init \/ power_deinit \/ Millisecond
    \/ \E d \in PowerDrivers : power_register_driver(d) \/ power_unregister_driver(d)
    \/ \E t \in Sleepers :
          \/ LightSleepEnds(t) \/ DeepSleepEnds(t)
          \/ \E timeout \in Timeouts :
                \/ power_light_sleep(t, timeout)
                \/ \E gpio \in BOOLEAN : power_deep_sleep_with_gpio_wake(t, gpio, timeout)

SleepSpec == PowerOffInit /\ [][SleepNext]_pw_vars

----------------------------------------------------------------------------
\* Nothing stays asleep behind the callers' backs.  While no task is inside a
\* light sleep the mode is active, however light sleeps overlapped and were
\* cut short; while no task is inside a deep sleep every registered driver
\* has been resumed, whatever was registered and removed meanwhile, unless
\* the last deep sleep was one without a wake source.
AwakeAtRest ==
    /\ (\A t \in Sleepers : pw_call[t].call # "light") => pw_mode = "active"
    /\ (\A t \in Sleepers : pw_call[t].call # "deep") /\ ~pw_off => \A d \in Registered : pw_awake[d]
=============================================================================
