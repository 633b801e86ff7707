----------------------------- MODULE MCServices -----------------------------
(* Instances for TLC of the services and of the layers below them: the event *)
(* bus, timers, notifications, sensors, the driver core, the hardware layer  *)
(* and sleep.  They share no state: each behaviour here moves one, and TLC   *)
(* explores the sum of their state spaces and not the product.  A component  *)
(* that does not move is in one of its initial states.                       *)
EXTENDS EventBus, Timers, Notify, Sensors, Drivers, Hal, Sleep, TLC

VARIABLE active  \* the component this behaviour moves

\* one topic name fits, the other is cut to the first
MCTopics == {"short", "shortened"}
MCTruncated == [t \in Topics |-> "short"]
MCConfigured == <<[key |-> "a", type |-> "adc", refresh_ms |-> 2],
                  [key |-> "t", type |-> "temp", refresh_ms |-> 1]>>
MCBuiltin == <<[key |-> "cpu", type |-> "cpu", refresh_ms |-> 3]>>
MCDevices == {[id |-> 1, name |-> "display0", path |-> "/dev/display0", drv |-> "display", bus |-> 0],
              [id |-> 2, name |-> "gpio1", path |-> "/dev/gpio1", drv |-> "gpio", bus |-> 1]}
\* one pair of model values serves several components
MCSymmetry == Permutations(Clients) \cup Permutations(Dispatchers)

ServicesInit ==
    /\ active \in {"bus", "timers", "notify", "sensors", "drivers", "hal", "sleep"}
    /\ BusInit /\ TimersInit /\ NotifyInit /\ SensorsInit /\ DrvInit /\ HalInit /\ PowerOffInit
    /\ active # "notify" => note_now = 0
    /\ active # "sensors" => esp32
    /\ active # "hal" => hal_file = "uart_esp32"

Others(moved) ==
    /\ moved # "bus" => UNCHANGED busVars
    /\ moved # "timers" => UNCHANGED tmrVars
    /\ moved # "notify" => UNCHANGED noteVars
    /\ moved # "sensors" => UNCHANGED sensorVars
    /\ moved # "drivers" => UNCHANGED drvVars
    /\ moved # "hal" => UNCHANGED hal_vars
    /\ moved # "sleep" => UNCHANGED pw_vars

ServicesNext ==
    /\ \/ active = "bus" /\ BusNext
       \/ active = "timers" /\ TimersNext
       \/ active = "notify" /\ NotifyNext
       \/ active = "sensors" /\ SensorsNext
       \/ active = "drivers" /\ DrvNext
       \/ active = "hal" /\ HalNext
       \/ active = "sleep" /\ SleepNext
    /\ Others(active)
    /\ UNCHANGED active

servicesVars == <<active, busVars, tmrVars, noteVars, sensorVars, drvVars, hal_vars, pw_vars>>
ServicesSpec == ServicesInit /\ [][ServicesNext]_servicesVars
=============================================================================
