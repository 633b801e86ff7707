------------------------------ MODULE Sensors ------------------------------
(***************************************************************************)
(* apps/sensor_service.c: named sensors in a table of slots, each with its *)
(* last sample, which is good for refresh_ms.  A sample is taken by one of *)
(* five meters; the temperature meter of the ESP32 and the ADC of the      *)
(* other builds open hardware on first use, which may fail half way.       *)
(*                                                                         *)
(* A value sampled from hardware is the (unwrapped) millisecond it was     *)
(* taken at, which tells the properties how old it is.                     *)
(***************************************************************************)
EXTENDS Lists

CONSTANTS SensorSlots,  \* 1..SENSOR_SERVICE_MAX
          Configured,   \* sensors of the device configuration, in order:
                        \* records [key, type, refresh_ms]
          Builtin,      \* cpu, ram and pwr, likewise
          MsMod,        \* range of time_now_ms
          LastMs        \* bound: milliseconds that pass

\* what sensor_service_load_builtin adds: the configured sensors come first, so
\* that a full table leaves out built-in ones
Known == Configured \o Builtin
KnownSensors == {Known[n] : n \in DOMAIN Known}

ASSUME SensorsAssumption ==
    /\ SensorSlots \subseteq Nat /\ MsMod \in Nat \ {0} /\ LastMs \in Nat
    /\ Known \in Seq(KnownSensors) /\ \A s \in KnownSensors : s.refresh_ms \in Nat

VARIABLES g_slots,      \* the table: a slot is the empty record or a sensor
          g_temp,       \* the ESP32 temperature meter: none, installed, ready
          g_cpu_ready,  \* the ESP32 load meter has a first reading
          adc_open,     \* external: ADC handles open, by the slot they were opened for
          esp32,        \* the build
          sensor_ms,    \* milliseconds since boot
          sensor_stale  \* history: a read returned a sample past its time

sensorVars == <<g_slots, g_temp, g_cpu_ready, adc_open, esp32, sensor_ms, sensor_stale>>

Unused == [used |-> FALSE, key |-> "", type |-> "", refresh_ms |-> 0, hw |-> FALSE,
           value |-> 0, sampled_ms |-> 0, has_sample |-> FALSE]

SensorsInit ==
    /\ g_slots = [i \in SensorSlots |-> Unused]
    /\ g_temp = "none" /\ g_cpu_ready = FALSE
    /\ adc_open = {}
    /\ esp32 \in BOOLEAN
    /\ sensor_ms = 0
    /\ sensor_stale = FALSE

find_slot(slots, key) == {i \in SensorSlots : slots[i].used /\ slots[i].key = key}

(***************************************************************************)
(* The table.                                                              *)
(***************************************************************************)
NewSensor(s) == [used |-> TRUE, key |-> s.key, type |-> s.type, refresh_ms |-> s.refresh_ms,
                 hw |-> FALSE, value |-> 0, sampled_ms |-> 0, has_sample |-> FALSE]

\* a known key, or a full table, is refused; the first unused slot is taken
sensor_service_add(slots, s) ==
    LET free == {i \in SensorSlots : ~slots[i].used} IN
    IF find_slot(slots, s.key) # {} \/ free = {} THEN slots
    ELSE [slots EXCEPT ![First(free)] = NewSensor(s)]

Add(s) ==
    /\ g_slots' = sensor_service_add(g_slots, s)
    /\ UNCHANGED <<g_temp, g_cpu_ready, adc_open, esp32, sensor_ms, sensor_stale>>

\* the table after the first n of the known sensors have been added to it
Loaded(slots) ==
    LET after[n \in 0..Len(Known)] ==
            IF n = 0 THEN slots ELSE sensor_service_add(after[n - 1], Known[n])
    IN  after

sensor_service_load_builtin ==
    /\ g_slots' = Loaded(g_slots)[Len(Known)]
    /\ UNCHANGED <<g_temp, g_cpu_ready, adc_open, esp32, sensor_ms, sensor_stale>>

Closed(open) == {i \in open : ~g_slots[i].hw}

\* the meters of the ESP32 stay as they are
sensor_service_reset ==
    /\ adc_open' = Closed(adc_open)
    /\ g_slots' = [i \in SensorSlots |-> Unused]
    /\ UNCHANGED <<g_temp, g_cpu_ready, esp32, sensor_ms, sensor_stale>>

(***************************************************************************)
(* Sampling.  Each sampler may fail; "ok" says what its hardware does.     *)
(***************************************************************************)
\* sample_temp: install, enable, read
TempAfter(ok) ==
    CASE g_temp = "none"      -> IF ok \in {"all", "init"} THEN "ready"
                                 ELSE IF ok = "first" THEN "installed" ELSE "none"
      [] g_temp = "installed" -> "installed"   \* a second install is refused
      [] OTHER                -> g_temp

sample_temp(ok) ==
    /\ g_temp' = IF esp32 THEN TempAfter(ok) ELSE g_temp
    /\ UNCHANGED <<g_cpu_ready, adc_open>>

TempOk(ok) == ~esp32 \/ (ok = "all" /\ g_temp # "installed")

\* sample_cpu, sample_ram and sample_power cannot fail
sample_meter(type) ==
    /\ g_cpu_ready' = (g_cpu_ready \/ (esp32 /\ type = "cpu"))
    /\ UNCHANGED <<g_temp, adc_open>>

\* sample_hw of the ADC: opened and initialised once per slot, closed again when
\* the initialisation fails
sample_hw(i, ok) ==
    /\ adc_open' = IF ~esp32 /\ ~g_slots[i].hw /\ ok \in {"all", "init"}
                   THEN adc_open \cup {i} ELSE adc_open
    /\ UNCHANGED <<g_temp, g_cpu_ready>>

\* mutant: the age of a sample is not looked at
Cached_forever(slot) == slot.has_sample /\ slot.refresh_ms > 0

Cached(slot) ==
    /\ slot.has_sample /\ slot.refresh_ms > 0
    /\ (sensor_ms - slot.sampled_ms) % MsMod < slot.refresh_ms

\* how old the sample is, against what the refresh allows, unless the counter
\* went all the way round since
PastItsTime(slot) ==
    sensor_ms - slot.value >= slot.refresh_ms /\ sensor_ms - slot.value < MsMod

\* ok: "all" the hardware works; "first" and "init": only its first step, or all
\* but the last, does; "none"
sensor_get(key, ok) ==
    \E i \in find_slot(g_slots, key) :
        LET slot == g_slots[i]
            good == CASE slot.type = "temp" -> TempOk(ok)
                      [] slot.type = "adc"  -> ok = "all"
                      [] OTHER              -> TRUE
        IN
        /\ IF Cached(slot)
           THEN /\ sensor_stale' = (sensor_stale \/ PastItsTime(slot))
                /\ UNCHANGED <<g_slots, g_temp, g_cpu_ready, adc_open>>
           ELSE /\ CASE slot.type = "temp" -> sample_temp(ok)
                     [] slot.type = "adc"  -> sample_hw(i, ok)
                     [] OTHER              -> sample_meter(slot.type)
                /\ g_slots' = [g_slots EXCEPT ![i] =
                     [used |-> TRUE, key |-> slot.key, type |-> slot.type,
                      refresh_ms |-> slot.refresh_ms, hw |-> i \in adc_open',
                      value      |-> IF good THEN sensor_ms ELSE slot.value,
                      sampled_ms |-> IF good THEN sensor_ms % MsMod ELSE slot.sampled_ms,
                      has_sample |-> good \/ slot.has_sample]]
                /\ UNCHANGED sensor_stale
        /\ UNCHANGED <<esp32, sensor_ms>>

SensorTick ==
    /\ sensor_ms < LastMs
    /\ sensor_ms' = sensor_ms + 1
    /\ UNCHANGED <<g_slots, g_temp, g_cpu_ready, adc_open, esp32, sensor_stale>>

SensorsNext ==
    \/ \E s \in KnownSensors : Add(s)
    \/ sensor_service_load_builtin
    \/ sensor_service_reset
    \/ \E s \in KnownSensors, ok \in {"all", "first", "init", "none"} :
          sensor_get(s.key, ok)
    \/ SensorTick

SensorsSpec == SensorsInit /\ [][SensorsNext]_sensorVars

(***************************************************************************)
(* Properties.                                                             *)
(***************************************************************************)
\* A read never returns a sample older than the sensor's refresh_ms, also where
\* the millisecond counter wraps between the two, as long as it is read at least
\* once per turn of the counter
ReadingsAreFresh == ~sensor_stale

\* Every converter that is open belongs to the slot it was opened for, through
\* failed initialisations, failed reads and resets: none is leaked, none is
\* opened twice
ConvertersAreHeld == adc_open = {i \in SensorSlots : g_slots[i].hw}

\* What sensor_get promises: a fresh reading, and no converter left open behind
\* a slot that does not use it.
SensorsKept == ReadingsAreFresh /\ ConvertersAreHeld

=============================================================================
