--------------------------- MODULE PowerGovernor ---------------------------
(***************************************************************************)
(* kernel/power_governor.c: every hundred milliseconds the governor looks   *)
(* at how busy the scheduler was, what the foreground app and the tasks     *)
(* that ran asked for, and the temperature, and picks one of four levels.   *)
(*                                                                          *)
(* scheduler_step counts busy and idle steps, scheduler_tick closes the     *)
(* windows, app_kit.c sets the foreground demand.  The level fixes the      *)
(* clock, as an index into the frequencies sorted from the highest; the     *)
(* backlight cap is a function of the level like the clock, and left out.   *)
(***************************************************************************)
EXTENDS Integers

CONSTANTS
    TimeMod,    \* tick counts are modulo this: 2^32 in the code
    StreakMod,  \* so is the quiet streak
    WindowMs,   \* POWER_WINDOW_MS
    Advances,   \* the ticks that may pass between two calls of the tick
    MaxSteps,   \* bound on the steps counted in one window
    NFreqs,     \* the frequencies the board has
    Temps,      \* what the die sensor may read
    Gaps        \* the ticks that may be left to the next wake

ASSUME TimeAssumption ==
    /\ TimeMod \in Nat /\ WindowMs \in 1..(TimeMod - 1)
    /\ Advances \subseteq 1..(TimeMod - WindowMs)
ASSUME StreakAssumption == StreakMod \in Nat /\ StreakMod > 3
ASSUME BoardAssumption == MaxSteps \in Nat /\ NFreqs \in Nat \ {0}
ASSUME InputAssumption == Temps \subseteq Int \ {-274} /\ Gaps \subseteq Nat

COOL == 0
ECONOMY == 1
BALANCED == 2
PERFORMANCE == 3
Levels == 0..3

UNSET == 0
IDLE == 1
LOW == 2
NORMAL == 3
HIGH == 4
Demands == 0..4

QUIET_WINDOWS == 3
SUSTAINED_WINDOWS == 3
FULL_PERCENT == 80
HOT == 70
RECOVER == 60
LIGHT_SLEEP_MIN == 50
NoSample == -274  \* no sensor, or it did not answer
Never == -1       \* no task sleeps: UINT32_MAX in the code

VARIABLES
    level, held_level, sustained_hold, quiet_streak, full_streak, thermal,
    foreground, busy, idle,
    window_demand,   \* UNSET until a task with a demand ran in this window
    have_window, window_started, now, light_sleep, clock

policy == <<level, held_level, sustained_hold, quiet_streak, full_streak,
            thermal, light_sleep, clock>>
window == <<busy, idle, window_demand>>
timing == <<have_window, window_started, now>>
govVars == <<policy, window, timing, foreground>>

Least(a, b) == IF a < b THEN a ELSE b

ceiling_for(d) == IF d >= NORMAL THEN PERFORMANCE ELSE ECONOMY

\* The index of a level's clock: 0 is the highest frequency.
freq_for_level(l) ==
    CASE l = PERFORMANCE -> 0
      [] l = BALANCED -> NFreqs \div 2
      [] l = ECONOMY -> IF NFreqs >= 2 THEN NFreqs - 2 ELSE NFreqs - 1
      [] OTHER -> NFreqs - 1

\* The highest of the foreground's demand and those of the tasks that ran.
effective_demand ==
    IF window_demand > foreground THEN window_demand ELSE foreground

Quiet == busy = 0
Full == ~Quiet /\ (busy * 100) \div (busy + idle) >= FULL_PERCENT

GovInit ==
    /\ level = BALANCED /\ clock \in 0..(NFreqs - 1)
    /\ held_level = COOL /\ sustained_hold = FALSE
    /\ quiet_streak = 0 /\ full_streak = 0
    /\ thermal = FALSE
    /\ foreground = NORMAL
    /\ busy = 0 /\ idle = 0 /\ window_demand = UNSET
    /\ have_window = FALSE /\ window_started = 0 /\ now = 0
    /\ light_sleep = 0

\* scheduler_init and power_init start the governor again; the clock stays.
power_governor_reset ==
    /\ level' = BALANCED
    /\ held_level' = COOL /\ sustained_hold' = FALSE
    /\ quiet_streak' = 0 /\ full_streak' = 0
    /\ thermal' = FALSE
    /\ foreground' = NORMAL
    /\ busy' = 0 /\ idle' = 0 /\ window_demand' = UNSET
    /\ have_window' = FALSE /\ window_started' = 0
    /\ light_sleep' = 0
    /\ UNCHANGED <<now, clock>>

power_governor_set_foreground_demand(d) ==
    /\ foreground' = IF d = UNSET THEN NORMAL ELSE d
    /\ UNCHANGED <<policy, window, timing>>

power_governor_note_idle ==
    /\ busy + idle < MaxSteps
    /\ idle' = idle + 1
    /\ UNCHANGED <<policy, timing, foreground, busy, window_demand>>

\* A task without a demand of its own counts as load only.
power_governor_note_busy(d) ==
    /\ busy + idle < MaxSteps
    /\ busy' = busy + 1
    /\ window_demand' = IF d > window_demand THEN d ELSE window_demand
    /\ UNCHANGED <<policy, timing, foreground, idle>>

\* The thermal rule: on from HOT, off from RECOVER down, else as it was.
ThermalAfter(t) ==
    IF t = NoSample THEN thermal
    ELSE t >= HOT \/ (thermal /\ t > RECOVER)

\* choose_level, one disjunct per way out of it.  c is the ceiling of the hint.
Cooled_keeps_hold(hot) ==  \* mutant: the hold survives the heat
    /\ hot
    /\ level' = COOL
    /\ UNCHANGED <<sustained_hold, held_level, quiet_streak, full_streak>>

Cooled(hot) ==
    /\ hot
    /\ level' = COOL
    /\ sustained_hold' = FALSE
    /\ UNCHANGED <<held_level, quiet_streak, full_streak>>

Held_level_only(hot, c) ==  \* mutant: the ceiling clamps only the level
    /\ ~hot /\ sustained_hold /\ ~Quiet
    /\ level' = Least(held_level, c)
    /\ UNCHANGED <<held_level, sustained_hold, quiet_streak, full_streak>>

Held_no_ceiling(hot, c) ==  \* mutant: the ceiling does not apply to a hold
    /\ ~hot /\ sustained_hold /\ ~Quiet
    /\ level' = held_level
    /\ UNCHANGED <<held_level, sustained_hold, quiet_streak, full_streak>>

Held_steps_up(hot, c) ==  \* mutant: a busy window raises a held level
    /\ ~hot /\ sustained_hold /\ ~Quiet
    /\ level' = Least(level + 1, c)
    /\ held_level' = level'
    /\ UNCHANGED <<sustained_hold, quiet_streak, full_streak>>

Held(hot, c) ==
    /\ ~hot /\ sustained_hold /\ ~Quiet
    /\ held_level' = Least(held_level, c)
    /\ level' = Least(held_level, c)
    /\ UNCHANGED <<sustained_hold, quiet_streak, full_streak>>

Quieter_above_balanced(hot, c) ==  \* mutant: BALANCED is taken for the floor
    LET l    == Least(level, c)
        q    == (quiet_streak + 1) % StreakMod
        down == q >= QUIET_WINDOWS /\ l > BALANCED
    IN  /\ ~hot /\ Quiet
        /\ sustained_hold' = FALSE
        /\ full_streak' = 0
        /\ level' = IF down THEN l - 1 ELSE l
        /\ quiet_streak' = IF down THEN 0 ELSE q
        /\ UNCHANGED held_level

Quieter(hot, c) ==
    LET l    == Least(level, c)
        q    == (quiet_streak + 1) % StreakMod
        down == q >= QUIET_WINDOWS /\ l > ECONOMY
    IN  /\ ~hot /\ Quiet
        /\ sustained_hold' = FALSE
        /\ full_streak' = 0
        /\ level' = IF down THEN l - 1 ELSE l
        /\ quiet_streak' = IF down THEN 0 ELSE q
        /\ UNCHANGED held_level

Sustained(hint) == Full /\ hint < HIGH /\ full_streak + 1 >= SUSTAINED_WINDOWS

Throttled(hot, hint, c) ==
    /\ ~hot /\ ~sustained_hold /\ ~Quiet /\ Sustained(hint)
    /\ sustained_hold' = TRUE
    /\ held_level' = IF c > ECONOMY THEN c - 1 ELSE c
    /\ level' = held_level'
    /\ quiet_streak' = 0 /\ full_streak' = 0

Busier(hot, hint, c) ==
    /\ ~hot /\ ~sustained_hold /\ ~Quiet /\ ~Sustained(hint)
    /\ level' = Least(level + 1, c)
    /\ quiet_streak' = 0
    /\ full_streak' = IF Full /\ hint < HIGH THEN full_streak + 1 ELSE 0
    /\ UNCHANGED <<sustained_hold, held_level>>

choose_level(hot, hint) ==
    LET c == ceiling_for(hint)
    IN  \/ Cooled(hot) \/ Held(hot, c) \/ Quieter(hot, c)
        \/ Throttled(hot, hint, c) \/ Busier(hot, hint, c)

close_window(t, gap, runnable) ==
    /\ thermal' = ThermalAfter(t)
    /\ choose_level(ThermalAfter(t), effective_demand)
    /\ clock' = freq_for_level(level')
    /\ light_sleep' = IF /\ ~runnable
                         /\ level' <= ECONOMY
                         /\ gap >= LIGHT_SLEEP_MIN
                      THEN gap ELSE 0
    /\ busy' = 0 /\ idle' = 0 /\ window_demand' = UNSET

\* The tick after `later' more ticks: the first one, and each that finds the
\* window over, closes it.
WindowOver(at) ==
    ~have_window \/ (at - window_started + TimeMod) % TimeMod >= WindowMs

power_governor_tick(later, t, gap, runnable) ==
    LET at == (now + later) % TimeMod
    IN  /\ now' = at
        /\ UNCHANGED foreground
        /\ IF WindowOver(at)
           THEN /\ have_window' = TRUE
                /\ window_started' = at
                /\ close_window(t, gap, runnable)
           ELSE UNCHANGED <<policy, window, have_window, window_started>>

GovTick ==
    \E later \in Advances, t \in Temps \cup {NoSample},
       gap \in Gaps \cup {Never}, runnable \in BOOLEAN :
         power_governor_tick(later, t, gap, runnable)

GovNext ==
    \/ GovTick
    \/ power_governor_note_idle
    \/ \E d \in Demands : power_governor_note_busy(d)
    \/ \E d \in Demands : power_governor_set_foreground_demand(d)
    \/ power_governor_reset

GovSpec == GovInit /\ [][GovNext]_govVars

\* The scheduler's tick never stops coming.
FairGovSpec == GovSpec /\ WF_govVars(GovTick)

-----------------------------------------------------------------------------
(* Properties. *)

\* Every variable keeps its type; the full streak never reaches the number of
\* windows that starts a hold, and the clock is one the board has.
GovTypeOK ==
    /\ level \in Levels /\ held_level \in Levels
    /\ sustained_hold \in BOOLEAN /\ thermal \in BOOLEAN
    /\ quiet_streak \in 0..(StreakMod - 1)
    /\ full_streak \in 0..(SUSTAINED_WINDOWS - 1)
    /\ foreground \in Demands \ {UNSET}
    /\ busy \in Nat /\ idle \in Nat /\ busy + idle <= MaxSteps
    /\ window_demand \in Demands
    /\ have_window \in BOOLEAN
    /\ window_started \in 0..(TimeMod - 1) /\ now \in 0..(TimeMod - 1)
    /\ light_sleep \in Nat
    /\ clock \in 0..(NFreqs - 1)

\* docs/power.md: a hot die overrides everything.  While the thermal rule is on
\* the level is COOL on the lowest clock, no hold is pending, whatever was asked.
HotMeansCool ==
    thermal => level = COOL /\ clock = NFreqs - 1 /\ ~sustained_hold

\* docs/power.md: a sustained load "drops one level and stays there".  A hold
\* keeps the level it fixed, below the top and not below ECONOMY, until it ends.
HoldPinsLevel ==
    sustained_hold => level = held_level /\ held_level \in {ECONOMY, BALANCED}

\* ... "until the machine goes quiet": a window that was busy, on a die that is
\* not hot, neither ends a hold nor raises the level under it.
HoldOutlastsLoad ==
    [][ sustained_hold /\ busy > 0 /\ ~thermal' /\ ~power_governor_reset =>
          sustained_hold' /\ level' <= level ]_govVars

\* docs/power.md: LOW "cannot sit on the top clock".  A window that ends with no
\* demand of NORMAL or more leaves the level at ECONOMY or below, held or not.
LowStaysLow ==
    [][ effective_demand < NORMAL /\ window_started' # window_started
          /\ ~power_governor_reset =>
          level' <= ECONOMY ]_govVars

\* Light sleep is recommended only at the two low levels, for gaps worth it.
SleepOnlyWhenLow ==
    light_sleep > 0 => level <= ECONOMY /\ light_sleep >= LIGHT_SLEEP_MIN

\* docs/power.md: quiet windows step down.  When the machine stays quiet for
\* good and the governor is not restarted (that loses the window), the level
\* ends at ECONOMY or below, and stays there.
QuietSettles == (<>[](busy = 0 /\ have_window)) => <>[](level <= ECONOMY)

\* docs/power.md:22, the table of levels: COOL when "a task is burning CPU
\* without having asked for HIGH".
BurnersAreCooled == sustained_hold => level = COOL
=============================================================================
