----------------------------- MODULE ClockService -----------------------------
(***************************************************************************)
(* The wall clock, kernel/os_clock.c, and the service that keeps it in     *)
(* /flash/clock.dat, apps/clock_service.c.  The only caller of the         *)
(* checkpoint is the tick of the Clock app (stdapps/clock/clock_app.c).    *)
(* Seconds are scaled down: Minute of them make the checkpoint's period.   *)
(***************************************************************************)
EXTENDS Integers

CONSTANTS Minute,     \* 60
          SetAfter,   \* OS_CLOCK_SET_AFTER: a clock at or below it is unset
          Compiled,   \* the time stamp of the build
          Shifts,     \* what the Clock app adds to the clock
          LastTime    \* bound on the clock

ASSUME ClockAssumption ==
    /\ Minute \in Nat \ {0} /\ SetAfter \in Nat /\ Compiled \in Nat
    /\ Shifts \subseteq Int /\ LastTime \in Nat

VARIABLES rtc,         \* the board's clock
          clock_dat,   \* what read_saved makes of the file: a time, or 0
          g_saved,
          clock_on,    \* clock_service_start has run since the last power-up
          clock_app,   \* the Clock app is on the screen
          clk_ticked,  \* the app's tick has run in this second
          clk_known,   \* history: the last time the service was asked to keep
          clk_failed   \* history: a write to the file has failed since

clockVars == <<rtc, clock_dat, g_saved, clock_on, clock_app, clk_ticked, clk_known, clk_failed>>

IsSet(t) == t > SetAfter

-----------------------------------------------------------------------------
os_clock_stamp(now, stamp) == IF ~IsSet(now) /\ IsSet(stamp) THEN stamp ELSE 0

\* Opening the file empties it, so that a write that fails leaves no time in it;
\* a file that cannot be opened keeps its own.  A time that reads as unset counts
\* as none.  g_saved is then what the caller leaves there.
write_saved(t, otherwise) ==
    /\ \/ /\ clock_dat' = IF IsSet(t) THEN t ELSE 0
          /\ g_saved' = t /\ clk_failed' = FALSE
       \/ /\ clock_dat' \in {0, clock_dat}
          /\ g_saved' = otherwise /\ clk_failed' = TRUE
    /\ clk_known' = t

clock_service_start_compiled(compiled) ==  \* mutant: the stamp of the build comes first
    LET chosen == IF IsSet(compiled) THEN compiled ELSE IF IsSet(rtc) THEN rtc ELSE clock_dat
        stamp  == os_clock_stamp(rtc, chosen)
    IN  /\ ~clock_on /\ clock_on' = TRUE
        /\ IF IsSet(chosen) /\ clock_dat = 0 THEN write_saved(chosen, chosen)
           ELSE UNCHANGED <<clock_dat, g_saved, clk_known, clk_failed>>
        /\ rtc' = IF stamp # 0 THEN chosen ELSE rtc
        /\ UNCHANGED <<clock_app, clk_ticked>>

\* The saved time, or else the running clock, or else the stamp of the build; it
\* becomes the clock only when the board's is unset.
clock_service_start(compiled) ==
    LET chosen == IF IsSet(clock_dat) THEN clock_dat
                  ELSE IF IsSet(rtc) THEN rtc
                  ELSE IF IsSet(compiled) THEN compiled ELSE 0
        stamp  == os_clock_stamp(rtc, chosen)
    IN  /\ ~clock_on /\ clock_on' = TRUE
        /\ CASE IsSet(clock_dat) ->
                  g_saved' = clock_dat /\ UNCHANGED <<clock_dat, clk_known, clk_failed>>
             [] ~IsSet(clock_dat) /\ chosen # 0 ->
                  write_saved(chosen, chosen)
             [] OTHER -> UNCHANGED <<clock_dat, g_saved, clk_known, clk_failed>>
        /\ rtc' = IF stamp # 0 THEN chosen ELSE rtc
        /\ UNCHANGED <<clock_app, clk_ticked>>

\* os_clock_set and os_clock_shift, then the new time is written.
clock_service_set(t) ==
    /\ clock_on /\ rtc' = t /\ write_saved(t, g_saved)
    /\ UNCHANGED <<clock_on, clock_app, clk_ticked>>

clock_service_shift(delta) ==
    /\ clock_app /\ rtc + delta \in 0..LastTime
    /\ rtc' = rtc + delta /\ write_saved(rtc + delta, g_saved)
    /\ UNCHANGED <<clock_on, clock_app, clk_ticked>>

clock_service_checkpoint(now) ==
    IF g_saved # 0 /\ now >= g_saved /\ now - g_saved < Minute
    THEN clk_known' = now /\ UNCHANGED <<clock_dat, g_saved, clk_failed>>
    ELSE write_saved(now, g_saved)

\* The app's on_tick, many times a second.
ClockAppTick ==
    /\ clock_app /\ ~clk_ticked
    /\ clock_service_checkpoint(rtc)
    /\ clk_ticked' = TRUE
    /\ UNCHANGED <<rtc, clock_on, clock_app>>

ClockAppOpen ==
    /\ clock_on /\ clock_app' \in BOOLEAN /\ clock_app' # clock_app
    /\ clk_ticked' = FALSE
    /\ UNCHANGED <<rtc, clock_dat, g_saved, clock_on, clk_known, clk_failed>>

\* A second passes.
ClockSecond ==
    /\ clock_on /\ rtc < LastTime /\ (clock_app => clk_ticked)
    /\ rtc' = rtc + 1 /\ clk_ticked' = FALSE
    /\ UNCHANGED <<clock_dat, g_saved, clock_on, clock_app, clk_known, clk_failed>>

\* A power cut stops the board's clock; a reset of the chip leaves it running.
ClockRestart ==
    /\ clock_on
    /\ rtc' \in {0, rtc} /\ g_saved' = 0
    /\ clock_on' = FALSE /\ clock_app' = FALSE /\ clk_ticked' = FALSE
    /\ UNCHANGED <<clock_dat, clk_known, clk_failed>>

ClockInit ==
    /\ rtc \in {0, SetAfter + 1} /\ clock_dat = 0 /\ g_saved = 0
    /\ clock_on = FALSE /\ clock_app = FALSE /\ clk_ticked = FALSE
    /\ clk_known = 0 /\ clk_failed = FALSE

ClockNext ==
    \/ \E c \in {0, Compiled} : clock_service_start(c)
    \/ \E t \in 0..LastTime : clock_service_set(t)
    \/ \E d \in Shifts : clock_service_shift(d)
    \/ ClockAppTick \/ ClockAppOpen \/ ClockSecond \/ ClockRestart

ClockSpec == ClockInit /\ [][ClockNext]_clockVars

-----------------------------------------------------------------------------
\* A board whose clock stopped in a power cut starts again within a minute of the
\* last time the service was asked to keep, by a set, a shift or a checkpoint,
\* unless the write of it failed (clock_service_start, clock_service_checkpoint).
RestartKeepsTime ==
    [][(clock_on' /\ ~clock_on /\ rtc = 0 /\ IsSet(clk_known - Minute) /\ ~clk_failed)
         => (rtc' <= clk_known /\ clk_known - rtc' < Minute)]_clockVars

=============================================================================
