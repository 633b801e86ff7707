------------------------------ MODULE HalFiles ------------------------------
(***************************************************************************)
(* What the operations of each HAL file do to the handle's booleans and to *)
(* the chip's driver, one definition per file (module Hal runs them).      *)
(* An operation is a record:                                               *)
(*   needs   booleans of the handle that must be set, or it returns -1     *)
(*   bars    booleans that make it return at once                          *)
(*   lazy    it runs the file's init first when "initialized" is not set,  *)
(*           and returns when that fails                                   *)
(*   marks   booleans it sets before its first call                        *)
(*   calls   the calls into the chip's driver, in order                    *)
(*   sets, clears  booleans it sets and clears once all calls succeeded    *)
(*   uses    parts of the chip's driver a transfer relies on               *)
(*   must    parts an ESP_ERROR_CHECK of it relies on                      *)
(*   from    the part whose interrupt or event runs it, "" for a caller    *)
(*   ends    "returns", "may reset" (a failing ESP_ERROR_CHECK), "resets"  *)
(* Operations that only read or store a setting are "settings".            *)
(***************************************************************************)
EXTENDS TLC

Parts == {"driver", "bus", "device", "handler", "radio", "wake", "timer", "card", "fs"}

----------------------------------------------------------------------------
\* Calls into the chip's driver.
Call(does, part) == [does |-> does, part |-> part, when |-> {}, others |-> {}]

\* An install the vendor's driver refuses while the part is installed.
Take(part) == Call("take", part)
\* A register write, or an install that replaces what is there.
Seize(part) == Call("seize", part)
\* Guarded by a static boolean of the file; installs others as well.
Once(part, others) == [Call("once", part) EXCEPT !.others = others]
\* A call that may fail; others are removed again when it does.
Try == Call("try", "driver")
TryOr(others) == [Try EXCEPT !.others = others]
\* A removal, of whatever is there; only when the boolean is set.
Give(part) == Call("give", part)
GiveIf(flag, part) == [Give(part) EXCEPT !.when = {flag}]

\* Operations.
Plain == [needs |-> {}, bars |-> {}, lazy |-> FALSE, marks |-> {}, calls |-> <<>>,
          sets |-> {}, clears |-> {}, uses |-> {}, must |-> {}, from |-> "", ends |-> "returns"]
Missing == [Plain EXCEPT !.needs = {"no such function"}]
Does(calls) == [Plain EXCEPT !.calls = calls]
Sets(flags) == [Plain EXCEPT !.sets = flags]
Clears(flags) == [Plain EXCEPT !.clears = flags]
Needs(flags) == [Plain EXCEPT !.needs = flags]
\* An init: refused once initialised, sets the boolean when its calls succeed.
Initialises(calls) == [Plain EXCEPT !.bars = {"initialized"}, !.calls = calls,
                                    !.sets = {"initialized"}]
\* A transfer on the part, behind the boolean or behind a lazy init.
Guarded(flag, part) == [Needs({flag}) EXCEPT !.uses = {part}]
Lazy(part) == [Plain EXCEPT !.lazy = TRUE, !.uses = {part}]

\* A file: whether only one handle is opened at a time, and its operations.
Bare == [one |-> FALSE, open |-> Plain, init |-> Missing, suspend |-> Missing,
         resume |-> Missing, close |-> Plain, ops |-> [settings |-> Plain]]

----------------------------------------------------------------------------
\* The simulator: no driver underneath, the handle's booleans are everything.
adc_sim ==
    [Bare EXCEPT !.init = Sets({"initialized"}),
                 !.ops = @ @@ [read |-> Needs({"initialized"})],
                 !.suspend = Clears({"initialized"}), !.resume = Sets({"initialized"})]

audio_sim ==
    [Bare EXCEPT !.ops = @ @@ [start |-> Sets({"running"}), stop |-> Clears({"running"}),
                               write |-> Needs({"running"})],
                 !.suspend = Clears({"running"}), !.resume = Sets({"running"})]

ble_sim ==
    [Bare EXCEPT !.init = Sets({"initialized"}),
                 !.ops = @ @@ [start |-> [Needs({"initialized"}) EXCEPT !.sets = {"started", "advertising"}],
                               stop  |-> Clears({"started", "advertising"})],
                 !.suspend = Clears({"started", "advertising"}),
                 !.resume = Sets({"started", "advertising"})]

display_sim ==
    [Bare EXCEPT !.init = Plain,
                 !.ops = @ @@ [draw |-> Plain, sleep |-> Sets({"sleeping"}), wake |-> Clears({"sleeping"})],
                 !.suspend = Sets({"sleeping"}), !.resume = Clears({"sleeping"})]

gpio_sim ==
    [Bare EXCEPT !.ops = @ @@ [set_irq |-> Sets({"irq"}), enable_irq |-> Sets({"irq_enabled"}),
                               disable_irq |-> Clears({"irq_enabled"})],
                 !.suspend = Plain, !.resume = Plain]

i2c_sim == [Bare EXCEPT !.suspend = Plain, !.resume = Plain]

net_sim ==
    [Bare EXCEPT !.ops = @ @@ [start |-> Sets({"connected", "has_ip"}),
                               stop  |-> Clears({"connected", "has_ip"})],
                 !.suspend = Clears({"connected", "has_ip"}),
                 !.resume = Sets({"connected", "has_ip"})]

\* mutant: resume sets no boolean
pwm_sim_stays_off ==
    [Bare EXCEPT !.init = Sets({"initialized"}),
                 !.ops = @ @@ [enable |-> Sets({"enabled"}), disable |-> Clears({"enabled"}),
                               remove_channel |-> Clears({"enabled"})],
                 !.suspend = Clears({"initialized", "enabled"}), !.resume = Plain]

pwm_sim ==
    [Bare EXCEPT !.init = Sets({"initialized"}),
                 !.ops = @ @@ [enable |-> Sets({"enabled"}), disable |-> Clears({"enabled"}),
                               remove_channel |-> Clears({"enabled"})],
                 !.suspend = Clears({"initialized", "enabled"}),
                 !.resume = Sets({"initialized"})]

rtc_sim ==
    [Bare EXCEPT !.init = Sets({"initialized"}),
                 !.suspend = Clears({"initialized"}), !.resume = Sets({"initialized"})]

spi_sim ==
    [Bare EXCEPT !.ops = @ @@ [cs_assert |-> Sets({"cs_active"}), cs_deassert |-> Clears({"cs_active"})],
                 !.suspend = Plain, !.resume = Plain]

storage_sim ==
    [Bare EXCEPT !.init = Sets({"initialized"}),
                 !.ops = @ @@ [deinit |-> Clears({"initialized"}), transfer |-> Needs({"initialized"})],
                 !.suspend = Clears({"initialized"}), !.resume = Sets({"initialized"})]

wifi_sim ==
    [Bare EXCEPT !.init = Sets({"initialized"}),
                 !.ops = @ @@ [start      |-> [Needs({"initialized"}) EXCEPT !.sets = {"started"}],
                               stop       |-> Clears({"started", "connected"}),
                               connect    |-> Sets({"connected"}),
                               disconnect |-> Clears({"connected"})],
                 !.suspend = Clears({"started", "connected"}), !.resume = Sets({"started"})]

----------------------------------------------------------------------------
\* AVR: the peripherals' registers are written directly; nothing refuses a
\* second handle, so one handle is opened at a time where registers matter.
gpio_avr ==
    [Bare EXCEPT !.ops = @ @@ [set_irq     |-> Sets({"irq", "irq_enabled"}),
                               enable_irq  |-> Sets({"irq_enabled"}),
                               disable_irq |-> Clears({"irq_enabled"})],
                 !.suspend = Plain, !.resume = Plain]

\* Every transfer but mem_write and mem_read, which return -1, programs the
\* bus when "initialized" is not set.
i2c_avr ==
    [Bare EXCEPT !.one = TRUE, !.init = Initialises(<<Seize("bus")>>),
                 !.ops = @ @@ [transfer |-> Lazy("bus")],
                 !.suspend = [Clears({"initialized"}) EXCEPT !.calls = <<Give("bus")>>],
                 !.resume = [Sets({"initialized"}) EXCEPT !.calls = <<Seize("bus")>>],
                 !.close = Does(<<GiveIf("initialized", "bus")>>)]

\* Suspend writes SPCR = 0 and leaves "initialized" set; resume does nothing.
spi_avr ==
    [Bare EXCEPT !.one = TRUE, !.init = Initialises(<<Seize("bus")>>),
                 !.ops = @ @@ [transfer |-> Guarded("initialized", "bus")],
                 !.suspend = Does(<<Give("bus")>>), !.resume = Plain,
                 !.close = Does(<<GiveIf("initialized", "bus")>>)]

net_avr == net_sim

\* read, write and erase return -1 whatever the handle.
storage_avr ==
    [Bare EXCEPT !.init = Initialises(<<>>),
                 !.ops = @ @@ [deinit |-> [Needs({"initialized"}) EXCEPT !.clears = {"initialized"}],
                               sync   |-> Needs({"initialized"})],
                 !.suspend = Plain, !.resume = Plain]

display_avr ==
    [Bare EXCEPT !.init = Initialises(<<>>),
                 !.ops = @ @@ [deinit |-> [Needs({"initialized"}) EXCEPT !.clears = {"initialized"}],
                               draw   |-> Needs({"initialized"})],
                 !.suspend = Plain, !.resume = Plain]

\* deep_sleep starts the watchdog as its alarm clock; nothing stops it again.
power_avr ==
    [Bare EXCEPT !.init = Initialises(<<>>),
                 !.ops = @ @@ [light_sleep |-> Plain, deep_sleep |-> Does(<<Seize("timer")>>),
                               watchdog |-> [Plain EXCEPT !.from = "timer", !.ends = "resets"]]]

----------------------------------------------------------------------------
\* ESP32, on the vendor's drivers.
adc_esp32 ==
    [Bare EXCEPT !.init = Initialises(<<Try, Try>>),
                 !.ops = @ @@ [read |-> Needs({"initialized"}), set_attenuation |-> Plain]]

\* read does not look at "running".
audio_esp32 ==
    [Bare EXCEPT !.init = Initialises(<<Take("driver")>>),
                 !.ops = @ @@ [start |-> [Lazy("driver") EXCEPT !.bars = {"running"}, !.sets = {"running"}],
                               stop  |-> [Needs({"running"}) EXCEPT !.clears = {"running"}],
                               write |-> Guarded("running", "driver"),
                               read  |-> [Plain EXCEPT !.uses = {"driver"}]],
                 !.close = Does(<<GiveIf("initialized", "driver")>>)]

display_esp32_draws ==
    [draw |-> Guarded("initialized", "device"), flush |-> Guarded("initialized", "device"),
     sleep |-> Sets({"sleeping"}), wake |-> Clears({"sleeping"})]

\* When the device cannot be added the bus stays initialised, without a
\* boolean that would make close or deinit free it.
display_esp32 ==
    [Bare EXCEPT !.init = Initialises(<<Take("bus"), Take("device")>>),
                 !.ops = @ @@ display_esp32_draws @@
                         [deinit |-> [Needs({"initialized"}) EXCEPT !.clears = {"initialized"},
                                         !.calls = <<Give("device"), Give("bus")>>]],
                 !.close = Does(<<GiveIf("initialized", "device"), GiveIf("initialized", "bus")>>)]

\* The trigger is stored before the handler is added; close looks at
\* irq_handle, which nothing sets, so it never removes the handler.
gpio_esp32 ==
    [Bare EXCEPT !.open = Does(<<Try>>),
                 !.ops = @ @@ [set_irq     |-> [Does(<<Try, Try, Seize("handler"), Try>>) EXCEPT !.marks = {"irq"}],
                               enable_irq  |-> Sets({"irq_enabled"}),
                               disable_irq |-> Clears({"irq_enabled"}),
                               isr         |-> [Needs({"irq_enabled"}) EXCEPT !.from = "handler"],
                               set_wake    |-> [Sets({"wake_enabled"}) EXCEPT !.calls = <<Seize("wake")>>],
                               clear_wake  |-> [Clears({"wake_enabled"}) EXCEPT !.calls = <<Give("wake")>>]],
                 !.close = Does(<<GiveIf("wake_enabled", "wake")>>)]

i2c_esp32 ==
    [Bare EXCEPT !.init = Initialises(<<Try, Take("driver")>>),
                 !.ops = @ @@ [write |-> Lazy("driver"), read |-> Lazy("driver"),
                               write_read |-> Lazy("driver"), mem_write |-> Lazy("driver"),
                               mem_read |-> Lazy("driver"), scan |-> Lazy("driver")],
                 !.close = Does(<<GiveIf("initialized", "driver")>>)]

\* mutant: the queries and flush forget to look at "initialized"
uart_esp32_unchecked ==
    [Bare EXCEPT !.init = Initialises(<<Try, Take("driver")>>),
                 !.ops = @ @@ [write |-> Lazy("driver"), read |-> Lazy("driver"),
                               flush |-> [Plain EXCEPT !.uses = {"driver"}]],
                 !.close = Does(<<GiveIf("initialized", "driver")>>)]

uart_esp32 ==
    [Bare EXCEPT !.init = Initialises(<<Try, Take("driver")>>),
                 !.ops = @ @@ [write |-> Lazy("driver"), read |-> Lazy("driver"),
                               flush |-> Guarded("initialized", "driver")],
                 !.close = Does(<<GiveIf("initialized", "driver")>>)]

\* Channels are added without init and stopped by close only after it.
pwm_esp32 ==
    [Bare EXCEPT !.init = Initialises(<<>>),
                 !.ops = @ @@ [set_timer      |-> Does(<<Try>>),
                               set_frequency  |-> Does(<<Try>>),
                               set_duty       |-> [Needs({"channel_used"}) EXCEPT !.calls = <<Try, Try>>],
                               add_channel    |-> [Sets({"channel_used"}) EXCEPT !.bars = {"channel_used"},
                                                      !.calls = <<Try, Seize("device")>>],
                               remove_channel |-> [Needs({"channel_used"}) EXCEPT !.clears = {"channel_used"},
                                                      !.calls = <<Give("device")>>],
                               disable        |-> [Needs({"channel_used"}) EXCEPT !.calls = <<Give("device")>>]],
                 !.close = Does(<<[GiveIf("initialized", "device") EXCEPT !.when = {"initialized", "channel_used"}]>>)]

\* The event handler, registered with the first handle for good.
net_events_esp32 ==
    [got_ip       |-> [Sets({"connected", "has_ip"}) EXCEPT !.from = "handler"],
     disconnected |-> [Clears({"connected", "has_ip"}) EXCEPT !.from = "handler"]]

\* start checks with ESP_ERROR_CHECK, after the first close without a radio.
net_esp32 ==
    [Bare EXCEPT !.open = Does(<<Once("handler", {"radio"})>>),
                 !.ops = @ @@ net_events_esp32 @@
                         [start |-> [Plain EXCEPT !.must = {"radio"}, !.ends = "may reset"],
                          stop  |-> Plain],
                 !.close = Does(<<Give("radio")>>)]

\* Sleeping with a timeout arms the timer as a wake source for good.
power_sleep_esp32 ==
    [light_sleep |-> Does(<<Seize("timer")>>), deep_sleep |-> [Plain EXCEPT !.ends = "resets"],
     add_gpio_wake |-> Does(<<Seize("wake")>>), remove_gpio_wake |-> Does(<<Give("wake")>>),
     add_rtc_wake |-> Does(<<Seize("timer")>>)]

power_esp32 ==
    [Bare EXCEPT !.init = Initialises(<<Try>>),
                 !.ops = @ @@ power_sleep_esp32 @@ [set_cpu_freq |-> Does(<<Try>>)]]

\* The raw flash partition: found or not, nothing is installed.
storage_flash_esp32 ==
    [Bare EXCEPT !.init = Initialises(<<Try>>),
                 !.ops = @ @@ [deinit   |-> [Needs({"initialized"}) EXCEPT !.clears = {"initialized"}],
                               transfer |-> Needs({"initialized"})]]

\* An SD card: the SPI bus, freed again when the card cannot be mounted.
storage_sd_esp32 ==
    [Bare EXCEPT !.init = Initialises(<<Take("bus"), TryOr({"bus"}), Seize("card")>>),
                 !.ops = @ @@ [deinit |-> [Needs({"initialized"}) EXCEPT !.clears = {"initialized"},
                                              !.calls = <<Give("card"), Give("bus")>>],
                               sync   |-> Needs({"initialized"})],
                 !.close = Does(<<GiveIf("initialized", "card"), GiveIf("initialized", "bus")>>)]

wifi_esp32 ==
    [Bare EXCEPT !.init = Initialises(<<Once("handler", {"radio"})>>),
                 !.ops = @ @@ [start |-> [Needs({"initialized"}) EXCEPT !.calls = <<Try>>],
                               stop |-> Plain, set_mode |-> Does(<<Try>>),
                               connect |-> Does(<<Try, Try, Try>>), disconnect |-> Does(<<Try>>),
                               scan |-> Does(<<Try>>),
                               event |-> [Plain EXCEPT !.from = "handler"]]]

----------------------------------------------------------------------------
\* The displays on the Arduino libraries.  Every open returns the file's one
\* handle, so one handle is opened at a time; close ends it for everybody.
display_draws_esp32_arduino ==
    [draw |-> Guarded("initialized", "device"), sleep |-> Plain, wake |-> Plain,
     flush |-> Guarded("initialized", "device")]

display_esp32_arduino ==
    [Bare EXCEPT !.one = TRUE, !.init = Initialises(<<Seize("device"), Try>>),
                 !.ops = @ @@ display_draws_esp32_arduino @@
                         [deinit |-> [Needs({"initialized"}) EXCEPT !.clears = {"initialized"}]],
                 !.suspend = Plain, !.resume = Plain,
                 !.close = Does(<<Give("device")>>)]

display_draws_esp8266_arduino ==
    [draw |-> Guarded("initialized", "device"), rect |-> Guarded("initialized", "device"),
     line |-> Guarded("initialized", "device")]

display_power_esp8266_arduino ==
    [sleep |-> Plain, wake |-> Plain, flush |-> Guarded("initialized", "device")]

display_esp8266_arduino ==
    [Bare EXCEPT !.one = TRUE, !.init = Initialises(<<Seize("device"), TryOr({"device"})>>),
                 !.ops = @ @@ display_draws_esp8266_arduino @@ display_power_esp8266_arduino @@
                         [deinit |-> [Needs({"initialized"}) EXCEPT !.clears = {"initialized"}]],
                 !.suspend = Plain, !.resume = Plain,
                 !.close = Does(<<Give("device")>>)]

----------------------------------------------------------------------------
\* ESP8266 on the vendor's RTOS: the ESP32 files, with suspend and resume.
adc_esp8266 == adc_esp32

audio_esp8266 ==
    [audio_esp32 EXCEPT !.suspend = Clears({"running"}), !.resume = Sets({"running"})]

display_esp8266 == [display_esp32 EXCEPT !.suspend = Plain, !.resume = Plain]

gpio_esp8266 ==
    [gpio_esp32 EXCEPT !.ops.set_irq.calls = <<Try, Seize("handler"), Try>>,
                       !.suspend = Plain,
                       !.resume = [Needs({"irq"}) EXCEPT !.calls = <<Try, Seize("handler"), Try>>]]

i2c_esp8266 ==
    [i2c_esp32 EXCEPT !.suspend = [Clears({"initialized"}) EXCEPT !.calls = <<GiveIf("initialized", "driver")>>],
                      !.resume = i2c_esp32.init]

net_esp8266 ==
    [net_esp32 EXCEPT !.suspend = Clears({"connected", "has_ip"}),
                      !.resume = Sets({"connected", "has_ip"})]

power_esp8266 == power_esp32

\* transfer hands devices[0] to the driver without looking whether a device
\* was added; resume leaves the bus and the devices for the caller to add.
spi_esp8266 ==
    [Bare EXCEPT !.init = Initialises(<<Take("bus")>>),
                 !.ops = @ @@ [add_device |-> [Lazy("bus") EXCEPT !.calls = <<Try, Seize("device")>>,
                                                                  !.sets = {"device"}],
                               transfer   |-> [Plain EXCEPT !.uses = {"device"}]],
                 !.suspend = [Clears({"initialized", "device"}) EXCEPT
                                 !.calls = <<GiveIf("device", "device"), GiveIf("initialized", "bus")>>],
                 !.resume = Plain,
                 !.close = Does(<<GiveIf("device", "device"), GiveIf("initialized", "bus")>>)]

\* LittleFS is registered with the vendor's VFS; suspend and resume only
\* clear and set the boolean that close looks at.
storage_flash_esp8266 ==
    [storage_flash_esp32 EXCEPT !.init = Initialises(<<Try, Take("fs")>>),
                 !.ops.deinit.calls = <<Give("fs")>>,
                 !.suspend = Clears({"initialized"}), !.resume = Sets({"initialized"}),
                 !.close = Does(<<GiveIf("initialized", "fs")>>)]

storage_sd_esp8266 ==
    [storage_sd_esp32 EXCEPT !.suspend = Clears({"initialized"}), !.resume = Sets({"initialized"})]

uart_esp8266 ==
    [uart_esp32 EXCEPT !.suspend = [Clears({"initialized"}) EXCEPT !.calls = <<GiveIf("initialized", "driver")>>],
                       !.resume = uart_esp32.init]

wifi_esp8266 == wifi_esp32

----------------------------------------------------------------------------
\* ESP8266 on the Arduino libraries.
adc_arduino ==
    [Bare EXCEPT !.init = Initialises(<<>>), !.ops = @ @@ [read |-> Needs({"initialized"})],
                 !.suspend = Clears({"initialized"}), !.resume = Sets({"initialized"})]

\* The wrapper of a pin calls the handle the pin's map entry points to.
gpio_isr_arduino == [isr |-> [Plain EXCEPT !.from = "handler"]]

\* For the pins that have an interrupt wrapper; the others refuse set_irq.
gpio_arduino ==
    [Bare EXCEPT !.ops = @ @@ [set_irq     |-> [Sets({"irq_enabled"}) EXCEPT !.marks = {"irq"},
                                                   !.calls = <<GiveIf("irq_enabled", "handler"), Seize("handler")>>],
                               enable_irq  |-> [Needs({"irq"}) EXCEPT !.calls = <<Seize("handler")>>,
                                                   !.sets = {"irq_enabled"}],
                               disable_irq |-> [Needs({"irq_enabled"}) EXCEPT !.calls = <<Give("handler")>>,
                                                   !.clears = {"irq_enabled"}]] @@ gpio_isr_arduino,
                 !.suspend = [Clears({"irq_enabled"}) EXCEPT !.calls = <<GiveIf("irq_enabled", "handler")>>],
                 !.resume = [Needs({"irq"}) EXCEPT !.calls = <<Seize("handler")>>, !.sets = {"irq_enabled"}],
                 !.close = Does(<<GiveIf("irq_enabled", "handler")>>)]

\* Wire is begun by init and never ended.
i2c_arduino ==
    [Bare EXCEPT !.one = TRUE, !.init = Initialises(<<Seize("bus")>>),
                 !.ops = @ @@ [deinit   |-> [Needs({"initialized"}) EXCEPT !.clears = {"initialized"}],
                               transfer |-> Guarded("initialized", "bus")],
                 !.suspend = Plain, !.resume = Plain]

power_arduino ==
    [Bare EXCEPT !.init = Initialises(<<>>),
                 !.ops = @ @@ [deep_sleep |-> [Plain EXCEPT !.ends = "resets"]]]

storage_arduino ==
    [Bare EXCEPT !.one = TRUE, !.init = Initialises(<<Try, Seize("fs")>>),
                 !.ops = @ @@ [deinit    |-> [Needs({"initialized"}) EXCEPT !.calls = <<Give("fs")>>,
                                                 !.clears = {"initialized"}],
                               file_open |-> Guarded("initialized", "fs")],
                 !.suspend = Clears({"initialized"}), !.resume = Sets({"initialized"}),
                 !.close = Does(<<GiveIf("initialized", "fs")>>)]

----------------------------------------------------------------------------
Files ==
    [adc_sim |-> adc_sim, audio_sim |-> audio_sim, ble_sim |-> ble_sim, display_sim |-> display_sim,
     gpio_sim |-> gpio_sim, i2c_sim |-> i2c_sim, net_sim |-> net_sim, pwm_sim |-> pwm_sim,
     rtc_sim |-> rtc_sim, spi_sim |-> spi_sim, storage_sim |-> storage_sim, wifi_sim |-> wifi_sim,
     gpio_avr |-> gpio_avr, i2c_avr |-> i2c_avr, spi_avr |-> spi_avr, net_avr |-> net_avr,
     storage_avr |-> storage_avr, display_avr |-> display_avr, power_avr |-> power_avr,
     adc_esp32 |-> adc_esp32, audio_esp32 |-> audio_esp32, display_esp32 |-> display_esp32,
     gpio_esp32 |-> gpio_esp32, i2c_esp32 |-> i2c_esp32, uart_esp32 |-> uart_esp32,
     pwm_esp32 |-> pwm_esp32, net_esp32 |-> net_esp32, power_esp32 |-> power_esp32,
     storage_flash_esp32 |-> storage_flash_esp32, storage_sd_esp32 |-> storage_sd_esp32,
     wifi_esp32 |-> wifi_esp32, display_esp32_arduino |-> display_esp32_arduino,
     adc_esp8266 |-> adc_esp8266, audio_esp8266 |-> audio_esp8266, display_esp8266 |-> display_esp8266,
     gpio_esp8266 |-> gpio_esp8266, i2c_esp8266 |-> i2c_esp8266, net_esp8266 |-> net_esp8266,
     power_esp8266 |-> power_esp8266, spi_esp8266 |-> spi_esp8266,
     storage_flash_esp8266 |-> storage_flash_esp8266, storage_sd_esp8266 |-> storage_sd_esp8266,
     uart_esp8266 |-> uart_esp8266, wifi_esp8266 |-> wifi_esp8266, adc_arduino |-> adc_arduino,
     gpio_arduino |-> gpio_arduino, i2c_arduino |-> i2c_arduino, power_arduino |-> power_arduino,
     storage_arduino |-> storage_arduino, display_esp8266_arduino |-> display_esp8266_arduino]

----------------------------------------------------------------------------
\* Where the code falls short of the three properties of module Hal; every
\* entry is described in the README.
None == [f \in DOMAIN Files |-> {}]
Unchecked ==
    [None EXCEPT !.spi_avr = {"transfer"}, !.audio_esp32 = {"read"}, !.spi_esp8266 = {"transfer"},
                 !.audio_esp8266 = {"read", "write"}, !.storage_arduino = {"file_open"}]
KnownLeaks ==
    [None EXCEPT !.power_avr = {"timer"}, !.power_esp32 = {"timer", "wake"}, !.power_esp8266 = {"timer", "wake"},
                 !.display_esp32 = {"bus"}, !.display_esp8266 = {"bus"}, !.i2c_arduino = {"bus"},
                 !.gpio_esp32 = {"handler"}, !.gpio_esp8266 = {"handler"}, !.pwm_esp32 = {"device"},
                 !.net_esp32 = {"handler"}, !.net_esp8266 = {"handler"},
                 !.wifi_esp32 = {"handler", "radio"}, !.wifi_esp8266 = {"handler", "radio"},
                 !.storage_arduino = {"fs"}, !.storage_flash_esp8266 = {"fs"},
                 !.storage_sd_esp8266 = {"bus", "card"}]
Forgotten ==
    [None EXCEPT !.pwm_sim = {"enabled"}, !.wifi_sim = {"connected"}, !.display_sim = {"sleeping"},
                 !.spi_esp8266 = {"initialized", "device"}]
============================================================================
