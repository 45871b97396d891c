---------------------------- MODULE DriverTables ----------------------------
(***************************************************************************)
(* How each driver of src/ brings itself up and down: the order in which   *)
(* its init or probe function acquires things, what it releases when a     *)
(* step fails, and the order in which remove and exit release.  These are  *)
(* the tables that module DriverLifecycle runs.                            *)
(*                                                                         *)
(* A thing is named by its kind: "cdev_mem" (cdev_alloc), "region" (the    *)
(* device number), "cdev" (cdev_add), "class", "device" (the /dev node),   *)
(* "gpio", "regs" (ioremap), "irq", "work", ..., and what calls find       *)
(* initialised ("wait_queue", "semaphore", "fap", "chip").                 *)
(***************************************************************************)
EXTENDS Sequences

Step(what, r, undo) == [what |-> what, res |-> r, undo |-> undo]

Get(r, undo)       == Step("get", r, undo)        \* checked: undo and return on failure
Try(r)             == Step("try", r, <<>>)        \* the result is ignored
Sure(r)            == Step("sure", r, <<>>)       \* cannot fail
Use(r)             == Step("use", r, <<>>)        \* dereferences what was got
Check(undo)        == Step("check", "condition", undo) \* a condition that may fail
Lookup(path, undo) == Step("lookup", path, undo)  \* finds a node of the device tree

-----------------------------------------------------------------------------
\* src/io_mutil_dec: every failure returns at once and undoes nothing.
BlockingInit == <<Get("cdev_mem", <<>>), Get("region", <<>>), Get("cdev", <<>>),
                  Get("class", <<>>), Get("device", <<>>), Sure("wait_queue")>>
BlockingExit == <<"device", "class", "cdev", "region", "cdev_mem">>

\* src/Compete/spinlock.c: the same, with a spinlock that nothing takes.
SpinlockInit == <<Get("cdev_mem", <<>>), Get("region", <<>>), Get("cdev", <<>>),
                  Get("class", <<>>), Get("device", <<>>), Sure("spinlock")>>
SpinlockExit == <<"device", "class", "cdev", "region", "cdev_mem">>

\* Faulty variant: the class is destroyed before the node in it.
SignalInitClassFirst == <<Get("cdev_mem", <<>>), Get("region", <<"cdev">>),
                Get("cdev", <<"region", "cdev">>), Get("class", <<"cdev", "region">>),
                Get("device", <<"class", "device", "cdev", "region">>), Sure("fap")>>

\* src/singal_io: failures undo all but the memory of the cdev.
SignalInit == <<Get("cdev_mem", <<>>), Get("region", <<"cdev">>),
                Get("cdev", <<"region", "cdev">>), Get("class", <<"cdev", "region">>),
                Get("device", <<"device", "class", "cdev", "region">>), Sure("fap")>>
SignalExit == <<"device", "class", "cdev", "region", "cdev_mem">>

\* src/Compete/sem.c: nothing is checked after the device number.
SemInit == <<Get("cdev_mem", <<>>), Get("region", <<>>), Try("cdev"),
             Try("class"), Try("device"), Sure("semaphore")>>
SemExit == <<"device", "class", "cdev", "region", "cdev_mem">>

-----------------------------------------------------------------------------
\* Faulty variant: the device number is not given back when cdev_add fails.
PwmProbeForgets == <<Get("pwm", <<>>), Get("region", <<>>), Get("cdev", <<>>),
              Get("class", <<"cdev", "region">>), Get("device", <<"class", "cdev", "region">>)>>

\* Faulty variant: the node is published before the pwm is there.
PwmProbeEarly == <<Get("region", <<>>), Get("cdev", <<"region">>),
              Get("class", <<"cdev", "region">>), Get("device", <<"class", "cdev", "region">>),
              Get("pwm", <<"device", "class", "cdev", "region">>)>>

\* Faulty variant: the result of device_create is ignored.
PwmProbeIgnores == <<Get("pwm", <<>>), Get("region", <<>>), Get("cdev", <<"region">>),
              Get("class", <<"cdev", "region">>), Try("device")>>

\* src/pwm: each failure undoes everything before it; the pwm is a devm resource.
PwmProbe == <<Get("pwm", <<>>), Get("region", <<>>), Get("cdev", <<"region">>),
              Get("class", <<"cdev", "region">>), Get("device", <<"class", "cdev", "region">>)>>

\* Faulty variant: the class is not destroyed.
PwmRemoveKeepsClass == <<"device", "cdev", "region">>

PwmRemove == <<"device", "class", "cdev", "region">>

\* src/dtb/stb_with_gpio.c
DtbProbe  == <<Try("cdev_mem"), Use("cdev_mem"), Get("region", <<>>), Try("cdev"),
               Try("class"), Try("device"), Try("gpio")>>
DtbRemove == <<"gpio", "device", "class", "cdev", "region", "cdev_mem">>

\* src/irt/stb_with_gpio_withq.c: the same, then the keys and the polling work.
WorkProbe  == <<Try("cdev_mem"), Use("cdev_mem"), Get("region", <<>>), Try("cdev"), Try("class"),
                Try("device"), Try("gpio"), Lookup("/gpio-keys", <<>>), Check(<<>>),
                Try("key_gpio"), Sure("work")>>

\* Faulty variant: the work is cancelled after the gpio it drives is given back.
WorkRemoveLate == <<"gpio", "work", "device", "class", "cdev", "region", "cdev_mem">>

\* Faulty variant: the gpio is not given back.
WorkRemoveKeepsGpio == <<"work", "device", "class", "cdev", "region", "cdev_mem">>

WorkRemove == <<"work", "gpio", "device", "class", "cdev", "region", "cdev_mem">>

\* src/irt/only_irq_copy.c: devm interrupts, freed by the driver core after remove.
IrqProbe  == <<Try("cdev_mem"), Use("cdev_mem"), Try("region"), Try("cdev"), Try("class"),
               Try("device"), Try("gpio"), Lookup("/gpio_keys", <<>>), Try("irq")>>
IrqRemove == <<"gpio", "device", "class", "cdev", "region", "cdev_mem">>

\* src/input: the free_irq calls of remove pass another dev_id than the request
\* and free nothing; unregistering the input device also frees it.
InputProbe  == <<Check(<<>>), Try("irq"), Get("input_mem", <<>>), Get("input", <<"input_mem">>)>>
InputRemove == <<"input", "input_mem">>

\* src/platform_up_and_down: nothing is checked; remove leaves the cdev, the
\* device number and the mappings behind.
PlatformProbe  == <<Try("cdev_mem"), Use("cdev_mem"), Try("region"), Try("cdev"),
                    Try("class"), Try("device"), Try("regs"), Use("regs")>>
PlatformRemove == <<"device", "class", "cdev_mem">>

\* src/ds18b20: register_chrdev is one step; a failed ioremap is reported and
\* then used.
WireInit == <<Get("cdev", <<>>), Get("class", <<"cdev">>), Get("device", <<"class", "cdev">>),
              Try("regs"), Use("regs")>>
WireExit == <<"regs", "device", "class", "cdev">>

\* src/simple_io: the labels err_device ... err_free undo in reverse order.
SimpleProbe ==
  <<Get("state", <<>>), Get("gpio", <<"state">>), Get("region", <<"gpio", "state">>),
    Get("cdev", <<"region", "gpio", "state">>),
    Get("class", <<"cdev", "region", "gpio", "state">>),
    Get("device", <<"class", "cdev", "region", "gpio", "state">>)>>
\* remove keeps the gpio.  The exit function releases the same things, without
\* clearing the pointer it tests, before it unregisters the driver.
SimpleRemove == <<"device", "class", "cdev", "region", "state">>
SimpleExit   == <<"device", "class", "cdev", "region", "state">>

\* src/ap3216: the chip is started before the node is published; nobody looks whether
\* the transfers that start it succeed.
LightProbe  == <<Try("chip"), Try("cdev_mem"), Use("cdev_mem"), Try("region"),
                 Try("cdev"), Try("class"), Try("device")>>
LightRemove == <<"device", "class", "cdev", "region", "cdev_mem">>

\* src/icm20608: the chip is started last, its transfers unchecked too; remove
\* releases nothing.
MotionProbe  == <<Try("cdev_mem"), Use("cdev_mem"), Try("region"), Try("cdev"),
                  Try("class"), Try("device"), Try("chip")>>
MotionRemove == <<>>

\* src/adc: probe gets a channel, a devm resource, and reads it once.
AdcProbe  == <<Get("channel", <<>>)>>
AdcRemove == <<>>

-----------------------------------------------------------------------------
DriverNames == {"io_mutil_dec", "spinlock", "singal_io", "sem", "pwm", "dtb", "irt_work",
                "irt_irq", "input", "platform_led", "ds18b20", "simple_io", "ap3216", "icm20608", "adc"}

Load(d) ==
  CASE d = "io_mutil_dec" -> BlockingInit  [] d = "spinlock"     -> SpinlockInit
    [] d = "singal_io"    -> SignalInit    [] d = "sem"          -> SemInit
    [] d = "pwm"          -> PwmProbe      [] d = "dtb"          -> DtbProbe
    [] d = "irt_work"     -> WorkProbe     [] d = "irt_irq"      -> IrqProbe
    [] d = "input"        -> InputProbe    [] d = "platform_led" -> PlatformProbe
    [] d = "ds18b20"      -> WireInit      [] d = "simple_io"    -> SimpleProbe
    [] d = "ap3216"       -> LightProbe    [] d = "icm20608"     -> MotionProbe
    [] d = "adc"          -> AdcProbe

Unload(d) ==
  CASE d = "io_mutil_dec" -> BlockingExit  [] d = "spinlock"     -> SpinlockExit
    [] d = "singal_io"    -> SignalExit    [] d = "sem"          -> SemExit
    [] d = "pwm"          -> PwmRemove     [] d = "dtb"          -> DtbRemove
    [] d = "irt_work"     -> WorkRemove    [] d = "irt_irq"      -> IrqRemove
    [] d = "input"        -> InputRemove   [] d = "platform_led" -> PlatformRemove
    [] d = "ds18b20"      -> WireExit      [] d = "simple_io"    -> SimpleRemove
    [] d = "ap3216"       -> LightRemove   [] d = "icm20608"     -> MotionRemove
    [] d = "adc"          -> AdcRemove

\* What the exit function itself releases, before it unregisters the driver.
ExitFirst(d) == IF d = "simple_io" THEN SimpleExit ELSE <<>>

\* Drivers on a bus: a failed probe leaves the module loaded and unbound.
OnBus == {"pwm", "dtb", "irt_work", "irt_irq", "input", "platform_led", "simple_io",
          "ap3216", "icm20608", "adc"}

\* Drivers whose file_operations name their owner: an open file pins the module.
Owned == DriverNames \ {"io_mutil_dec", "spinlock", "singal_io", "platform_led", "input"}

\* Freed by the driver core when the driver is unbound; gone with the module.
Managed == {"pwm", "key_gpio", "irq", "channel"}
Static  == {"wait_queue", "spinlock", "fap", "semaphore", "chip"}

-----------------------------------------------------------------------------
\* The names under which things are exclusive in the kernel, across drivers.
ClassName(d) ==
  CASE d \in {"io_mutil_dec", "spinlock", "singal_io", "sem", "dtb", "irt_work", "irt_irq"} -> "MYLED"
    [] d \in {"ap3216", "icm20608"} -> "sensor"
    [] OTHER -> d
GpioName(d)   == IF d \in {"dtb", "irt_work", "irt_irq"} THEN "led" ELSE d
DriverName(d) == CASE d \in {"dtb", "irt_work"} -> "imx6ull,led00"
                   [] d \in {"irt_irq", "input"} -> "imx6ull_led"
                   [] OTHER -> d
\* The device a bus driver binds to.
NodeName(d)   == IF d \in {"dtb", "irt_work", "irt_irq"} THEN "imx6ull,led" ELSE d

\* The things an open file's calls use.
FileUses(d) ==
  CASE d = "io_mutil_dec" -> {"cdev_mem", "wait_queue"}
    [] d = "singal_io"    -> {"cdev_mem", "fap"}
    [] d = "sem"          -> {"cdev_mem", "semaphore"}
    [] d = "spinlock"     -> {"cdev_mem"}
    [] d = "pwm"          -> {"pwm"}
    [] d \in {"dtb", "irt_work", "irt_irq"} -> {"cdev_mem", "gpio"}
    [] d = "platform_led" -> {"cdev_mem", "regs"}
    [] d = "ds18b20"      -> {"regs"}
    [] d = "simple_io"    -> {"state", "gpio"}
    [] d \in {"ap3216", "icm20608"} -> {"cdev_mem", "chip"}
    [] OTHER -> {}

\* The things that a held thing uses: the node its class, a cdev its memory, the
\* polling work and the interrupt handlers what they drive or report to.
Needs(d, r) ==
  CASE r = "device" -> {"class"}
    [] r = "cdev"   -> IF d = "simple_io" THEN {"state"}
                       ELSE IF d \in {"pwm", "ds18b20"} THEN {} ELSE {"cdev_mem"}
    [] r = "work"   -> {"gpio"}
    [] r = "irq"    -> IF d = "input" THEN {"input_mem"} ELSE {"gpio"}
    [] r = "input"  -> {"input_mem"}
    [] OTHER -> {}
=============================================================================
