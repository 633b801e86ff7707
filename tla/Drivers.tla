------------------------------- MODULE Drivers -------------------------------
(***************************************************************************)
(* The driver core, drivers/driver.c, with the bus drivers under it.  A    *)
(* device is a member of Devices with the name, path, driver and bus_data  *)
(* (0 is NULL) its create function gives it; its private data, which is    *)
(* also the handle of everyone who opens it, is an address malloc returns. *)
(* The core lock is taken and released inside every operation.             *)
(***************************************************************************)
EXTENDS Integers, Sequences, SequencesExt, FiniteSets, Bags

CONSTANTS Devices,        \* [id, name, path, drv, bus] records
          Addresses,      \* what calloc can return
          MaxOpenHandles, \* MAX_OPEN_HANDLES
          MaxOpens,       \* bound on handles held by callers
          MaxRefcount     \* bound: deinit leaves the count of a driver it does not know

VARIABLES g_drivers,      \* registered drivers
          refcount,
          g_devices,      \* registered devices, newest first
          private_data,   \* device -> address, 0 when NULL
          hal_held,       \* device -> what its probe acquired and still holds
          g_open_handles, \* slots [handle, dev]
          held,           \* history: the bag of handles callers hold, [handle, dev]
          drv_odd         \* history: what puts a caller outside the rules below

drvVars == <<g_drivers, refcount, g_devices, private_data, hal_held, g_open_handles, held, drv_odd>>

-----------------------------------------------------------------------------
(* The bus drivers: the steps of probe in order, those it goes on without, *)
(* what it gives back when a step fails, and what remove gives back.       *)

gpio_driver == [bus |-> TRUE, probe |-> <<"data", "open">>, without |-> {},
                undo |-> <<{}, {"data"}>>, remove |-> {"open", "data"}]
i2c_driver == [bus |-> TRUE, probe |-> <<"data", "open">>, without |-> {},
                undo |-> <<{}, {"data"}>>, remove |-> {"open", "data"}]
spi_driver == [bus |-> TRUE, probe |-> <<"data", "open">>, without |-> {},
                undo |-> <<{}, {"data"}>>, remove |-> {"open", "data"}]
uart_driver == [bus |-> FALSE, probe |-> <<"data", "open">>, without |-> {},
                undo |-> <<{}, {"data"}>>, remove |-> {"open", "data"}]
display_driver == [bus |-> FALSE, probe |-> <<"data", "open", "init", "framebuffer">>, without |-> {},
                   undo |-> <<{}, {"data"}, {"open", "data"}, {"init", "open", "data"}>>,
                   remove |-> {"init", "open", "framebuffer", "data"}]
wifi_driver == [bus |-> FALSE, probe |-> <<"data", "open", "init", "net">>, without |-> {"net"},
                undo |-> <<{}, {"data"}, {"open", "data"}, {}>>,
                remove |-> {"init", "open", "net", "data"}]

DriverOf == [gpio |-> gpio_driver, i2c |-> i2c_driver, spi |-> spi_driver,
             uart |-> uart_driver, display |-> display_driver, wifi |-> wifi_driver]
Drivers == {d.drv : d \in Devices}

\* probe, when the steps in bad fail: whether it succeeds and what stays held.
Probed(drv, dev, bad) ==
    LET ops   == DriverOf[drv]
        fails == {i \in DOMAIN ops.probe : ops.probe[i] \in bad \ ops.without}
        first == CHOOSE i \in fails : \A j \in fails : i <= j
    IN  CASE ops.bus /\ dev.bus = 0 -> [ok |-> FALSE, held |-> {}]
          [] ~(ops.bus /\ dev.bus = 0) /\ fails # {} ->
               [ok |-> FALSE, held |-> {ops.probe[i] : i \in 1..(first - 1)} \ ops.undo[first]]
          [] OTHER -> [ok |-> TRUE, held |-> ToSet(ops.probe) \ bad]

-----------------------------------------------------------------------------
(* The table of open handles.                                              *)

Slots_ == 1..MaxOpenHandles
NoSlot == [handle |-> 0, dev |-> 0]
FirstSlot(h) ==
    LET is == {i \in Slots_ : g_open_handles[i].handle = h}
    IN  IF is = {} THEN 0 ELSE CHOOSE i \in is : \A j \in is : i <= j

device_handle_track(h, dev) ==
    LET i == FirstSlot(0)
    IN  IF i = 0 THEN g_open_handles
        ELSE [g_open_handles EXCEPT ![i] = [handle |-> h, dev |-> dev]]

device_handle_lookup(h) ==
    LET i == FirstSlot(h)
    IN  IF i = 0 THEN 0 ELSE g_open_handles[i].dev

device_handle_untrack(h) ==
    LET i == FirstSlot(h)
    IN  IF i = 0 THEN g_open_handles ELSE [g_open_handles EXCEPT ![i] = NoSlot]

device_find(name) == SelectSeq(g_devices, LAMBDA d : d.name = name)
device_find_by_path(path) == SelectSeq(g_devices, LAMBDA d : d.path = path)

-----------------------------------------------------------------------------
driver_register(drv) ==
    /\ drv \notin g_drivers
    /\ g_drivers' = g_drivers \cup {drv}
    /\ refcount' = [refcount EXCEPT ![drv] = 0]
    /\ drv_odd' = [drv_odd EXCEPT !.late = @ \cup IF refcount[drv] # 0 THEN {drv} ELSE {}]
    /\ UNCHANGED <<g_devices, private_data, hal_held, g_open_handles, held>>

driver_unregister(drv) ==
    /\ drv \in g_drivers /\ refcount[drv] <= 0
    /\ g_drivers' = g_drivers \ {drv}
    /\ UNCHANGED <<refcount, g_devices, private_data, hal_held, g_open_handles, held, drv_odd>>

\* A create function fills in a device and registers it; that its driver is
\* registered is not asked.
device_register(dev, bad, at) ==
    LET p == Probed(dev.drv, dev, bad)
    IN  /\ device_find(dev.name) = <<>>
        /\ refcount[dev.drv] < MaxRefcount
        /\ at \notin {private_data[d] : d \in Devices}
        /\ hal_held' = [hal_held EXCEPT ![dev] = p.held]
        /\ IF p.ok THEN /\ g_devices' = <<dev>> \o g_devices
                        /\ refcount' = [refcount EXCEPT ![dev.drv] = @ + 1]
                        /\ private_data' = [private_data EXCEPT ![dev] = at]
           ELSE UNCHANGED <<g_devices, refcount, private_data>>
        /\ UNCHANGED <<g_drivers, g_open_handles, held, drv_odd>>

\* remove gives back what probe took, and an owned device is freed.
device_unregister_uncounted(name) ==  \* mutant: the driver's count stays
    /\ device_find(name) # <<>>
    /\ LET dev == Head(device_find(name))
       IN  /\ hal_held' = [hal_held EXCEPT ![dev] = @ \ DriverOf[dev.drv].remove]
           /\ private_data' = [private_data EXCEPT ![dev] = 0]
           /\ g_devices' = SelectSeq(g_devices, LAMBDA d : d # dev)
           /\ drv_odd' = [drv_odd EXCEPT !.cut = @ \/ \E o \in BagToSet(held) : o.dev = dev.id]
    /\ UNCHANGED <<g_drivers, refcount, g_open_handles, held>>

device_unregister(name) ==
    /\ device_find(name) # <<>>
    /\ LET dev == Head(device_find(name))
       IN  /\ hal_held' = [hal_held EXCEPT ![dev] = @ \ DriverOf[dev.drv].remove]
           /\ private_data' = [private_data EXCEPT ![dev] = 0]
           /\ refcount' = [refcount EXCEPT ![dev.drv] = @ - 1]
           /\ g_devices' = SelectSeq(g_devices, LAMBDA d : d # dev)
           /\ drv_odd' = [drv_odd EXCEPT !.cut = @ \/ \E o \in BagToSet(held) : o.dev = dev.id]
    /\ UNCHANGED <<g_drivers, g_open_handles, held>>

\* open hands out the private data; a full table is not an error.
device_open(path) ==
    LET dev == Head(device_find_by_path(path))
        h   == private_data[dev]
    IN  /\ device_find_by_path(path) # <<>> /\ BagCardinality(held) < MaxOpens
        /\ g_open_handles' = device_handle_track(h, dev.id)
        /\ held' = held (+) SetToBag({[handle |-> h, dev |-> dev.id]})
        /\ drv_odd' = [drv_odd EXCEPT !.full = @ \/ FirstSlot(0) = 0]
        /\ UNCHANGED <<g_drivers, refcount, g_devices, private_data, hal_held>>

\* Every close of the bus drivers succeeds.
device_close(o) ==
    LET h == o.handle
    IN  /\ g_open_handles' = IF device_handle_lookup(h) = 0 THEN g_open_handles
                             ELSE device_handle_untrack(h)
        /\ held' = held (-) SetToBag({o})
        /\ UNCHANGED <<g_drivers, refcount, g_devices, private_data, hal_held, drv_odd>>

driver_core_deinit ==
    /\ g_devices # <<>> \/ g_drivers # {}
    /\ hal_held' = [d \in Devices |-> IF d \in ToSet(g_devices)
                                      THEN hal_held[d] \ DriverOf[d.drv].remove ELSE hal_held[d]]
    /\ private_data' = [d \in Devices |-> IF d \in ToSet(g_devices) THEN 0 ELSE private_data[d]]
    /\ g_devices' = <<>> /\ g_drivers' = {}
    /\ refcount' = [d \in Drivers |-> IF d \in g_drivers THEN 0 ELSE refcount[d]]
    /\ drv_odd' = [drv_odd EXCEPT !.cut = @ \/ held # EmptyBag,
                                  !.late = @ \cup {d \in Drivers \ g_drivers : refcount[d] # 0}]
    /\ UNCHANGED <<g_open_handles, held>>

DrvInit ==
    /\ g_drivers = {} /\ refcount = [d \in Drivers |-> 0] /\ g_devices = <<>>
    /\ private_data = [d \in Devices |-> 0] /\ hal_held = [d \in Devices |-> {}]
    /\ g_open_handles = [i \in Slots_ |-> NoSlot] /\ held = EmptyBag
    /\ drv_odd = [late |-> {}, cut |-> FALSE, full |-> FALSE]

\* Up to one step of probe fails: it goes no further after the first.
Failures(drv) == {{}} \cup {{step} : step \in ToSet(DriverOf[drv].probe)}

DrvNext ==
    \/ \E drv \in Drivers : driver_register(drv) \/ driver_unregister(drv)
    \/ \E dev \in Devices : \E bad \in Failures(dev.drv), at \in Addresses :
         device_register(dev, bad, at)
    \/ \E dev \in Devices : device_unregister(dev.name) \/ device_open(dev.path)
    \/ \E o \in BagToSet(held) : device_close(o)
    \/ driver_core_deinit

DrvSpec == DrvInit /\ [][DrvNext]_drvVars

-----------------------------------------------------------------------------
\* Every handle reaches the device it was opened on and no other: a read, write
\* or ioctl goes to the device whose open returned it.  It may find none once
\* the table has been full, and nothing is said when a device was unregistered
\* under an open handle (device_handle_lookup).
HandlesReachTheirDevice ==
    drv_odd.cut \/ \A o \in BagToSet(held) :
        device_handle_lookup(o.handle) \in {o.dev} \cup (IF drv_odd.full THEN {0} ELSE {})

\* Nothing is left behind: a device holds hardware and memory only while it is
\* registered, also when its probe failed halfway, and a driver's count is the
\* number of its devices, so that it cannot be unregistered under one, unless it
\* was registered after its first device (device_register, driver_register).
RemovedHoldsNothing ==
    /\ \A d \in Devices : d \notin ToSet(g_devices) => hal_held[d] = {} /\ private_data[d] = 0
    /\ \A drv \in Drivers \ drv_odd.late :
         refcount[drv] = Cardinality({d \in ToSet(g_devices) : d.drv = drv})

\* The two tables agree with what the callers hold: handles reach their devices
\* and a device that is gone holds nothing (device_open, device_unregister).
DeviceTablesExact == HandlesReachTheirDevice /\ RemovedHoldsNothing

=============================================================================
