# Linux driver demos for the i.MX6ULL: a verification project

`src/` is a collection of small Linux 4.9 drivers for the 100ask i.MX6ULL board, one
directory per driver, each with the test program that uses it. There is no shared
library and the drivers do not call each other; they meet through the kernel, where
class names, gpios, platform-driver names and device-tree nodes are exclusive, and
through the processes that use them. This project models how each device behaves when
several processes are inside it at once, and how all the drivers come and go.

Run everything from this directory: `tlc -config X.cfg M` for a run of the table below,
`tlapm M.tla` for the proof modules.

## Inventory

| part (src/) | state it keeps | operations | what is hard |
|---|---|---|---|
| `io_mutil_dec` blocking and polled device | `kernel_buf`, `condition`, a wait queue | read (blocking and `O_NONBLOCK`), write, poll; `read_test.c`, `write_test.c` | no lock: wake-ups, messages and the flag race; signals; failing copies |
| `singal_io` signal-driven device | `kernel_buf`, `data_ready`, the fasync list | read, write, fasync, release; `read_test.c` reads in its SIGIO handler | SIGIO is coalesced; the flag races with the buffer |
| `Compete/sem.c` exclusive device | a semaphore of 1 | read = `down_trylock`, release = `up` | release gives back what the file may never have taken |
| `Compete/spinlock.c` | a spinlock that nothing takes | handlers only print | loading only |
| `pwm` servo | a pwm channel, the period, one byte | open, write, release, probe, remove | clients share one channel |
| `dtb` led | a gpio | write, probe, remove | publication order |
| `irt/stb_with_gpio_withq.c` polling keys and led | led and two key gpios, a work item that rearms itself every 30 ms | work function, write, probe, remove | the work and write share the led; stopping the work |
| `irt/only_irq_copy.c` interrupt keys and led | led gpio, two interrupts | two handlers, write, probe, remove | interrupts against remove |
| `input` keys as an input device | two interrupts, an input device | two handlers, probe, remove | interrupts against the life of the input device |
| `platform_up_and_down` memory-mapped led | four mapped registers | write, probe, remove | unchecked mappings |
| `ds18b20` temperature, registers | mapped registers | open, read (one-wire protocol), init, exit | two clients on one wire; timing |
| `simple_io` temperature, gpio | an allocated structure | read, probe, remove, exit | two places release the same things |
| `ap3216` light sensor on i2c | the client pointer | read (three values in six transfers), probe, remove | torn values, failed transfers |
| `icm20608` motion sensor on spi | the spi pointer | read (one burst), probe, remove | byte order and count, nothing released |
| `adc` | an io channel, managed by the driver core | probe (one conversion, printed), remove | loading only |
| `platform`, `uart`, `io_mutil`, `*_test.c`, `stb_no_gpio.c` | none that outlives a call | print, echo, select | nothing that interleaves |

Correctness, part by part: a waiter is woken and a message announced is read or
replaced (blocking device, signal device); a holder is alone unless a file that held
nothing was closed (exclusive device); the servo is off when nobody has it open and
obeys a client that is alone; the led shows what the keys ask for, the work that polls
them never stops by itself and is gone before its gpio; a value a sensor driver returns
is one that the sensor measured; a driver acquires before it publishes, undoes what it
did when a step fails, and releases in reverse order what it acquired, once (all
drivers). `PROJECT.json` lists the hazards behind these at their lines.

## Modules

| module | models |
|---|---|
| `BlockingDev` | `io_mutil_dec/io_mutil.c` and its clients, statement by statement |
| `SignalDev` | `singal_io/io_mutil.c` and its client |
| `ExclusiveDev` | `Compete/sem.c` and its client |
| `DeviceLock` | the abstract lock `ExclusiveDev` implements |
| `DriverTables` | the acquisition, undo and release order of fifteen drivers, as data |
| `DriverLifecycle` | insmod, rmmod, failing steps, open and close, over those tables |
| `OneWire` | the read of `ds18b20` and of `simple_io`, slot by slot, and the sensor |
| `Servo` | `pwm/pwm.c`: clients of one pwm channel, down to the calls of the pwm core |
| `Keys` | two keys and their led under `dtb`, `irt` (both drivers) and `input`: work function, interrupt handlers, write, remove |
| `LightSensor` | the read of `ap3216`, transfer by transfer, and the sensor's registers |
| `MotionSensor` | the burst read of `icm20608`, each byte by where it comes from |
| `Board` | the five modules above together |
| `MCBlocking`, `MCSignal`, `MCExclusive` | symmetry for TLC |
| `BlockingDevProofs`, `SignalDevProofs`, `ExclusiveDevProofs`, `DriverLifecycleProofs`, `ServoProofs`, `KeysProofs`, `SensorProofs` (thermometer, light, motion), `BoardProofs` | theorems |

Definitions called *Faulty variant* are plausible bugs. No specification uses them; each
shows, put in the place of the definition after it, that a property would notice.

### BlockingDev

A process is a program counter. Each statement of a handler that touches shared state
is one action, because the handlers take no lock and can be preempted or sleep between
any two of them:

| code (`io_mutil_dec/io_mutil.c`) | action |
|---|---|
| 57 `wait_event_interruptible(wait_queue, condition == 1)` | `ReadCall` (first test), `Prepare`, `Check` (test again after queueing), `Resume` |
| 58 `condition = 0`, 59-65 `copy_to_user` | `Clear`, `CopyOut` |
| 38-54 the `O_NONBLOCK` path, which copies first and clears afterwards | `NbTest`, `NbCopy`, `NbClear` |
| 113-124 poll | `PollWait`, `PollCheck` |
| 82 memset, 84 `copy_from_user`, 92, 93 | `Memset`, `CopyIn`, `SetCond`, `WakeUp` |

`Prepare`, `Resume` and `Signal` are the kernel's side of the macro; they are modelled
from its documented contract: the task is queued before the condition is tested again, a
wake-up or a signal ends the sleep, and the macro returns -ERESTARTSYS when a signal
ended it. The driver ignores that value, so both exits lead to `Clear`. The message text
is abstracted to what the properties tell apart (`zeroed` by the memset, a `message`,
`spoiled`: a part of one), and the history variable `message` says whether anybody has
copied the last message. A copy from the writer that faults at its first byte leaves what
the buffer held, one that faults later leaves a part of the message, and in every case the
writer returns with the condition as it was. So zeroes or a part of a message can stay
announced by an earlier write; the history variable `failed` says that the last copy failed, and
`ConditionMeansMessage` claims that nothing else brings this about, but for the moment
between a writer's memset and its copy.

### SignalDev

As above. SIGIO is the kernel's pending bit: a second signal while one is pending is
lost, and delivery waits for the handler to return. `unaware` is a history variable:
subscribers to whom nobody owes a signal, because they subscribed after the data was
announced or their read failed with -EFAULT.

### ExclusiveDev

Every handler is one step, since `down_trylock` and `up` take the semaphore's own lock.
`MaxMisuses` bounds how often a file that holds nothing is closed; each such close adds
one to the semaphore, so without the bound `count` would grow for ever. `Holders` maps to
the owners of `DeviceLock`, a lock that works until it is broken.

### DriverTables and DriverLifecycle

A driver's init or probe function is a sequence of steps. A step acquires something and
is checked (`Get`, with what its error path undoes), acquires and is not checked (`Try`),
only initialises memory and cannot fail (`Sure`: a wait queue, a lock, a work item), is a
bare condition (`Check`), looks up a device-tree node (`Lookup`) or dereferences what was
acquired (`Use`). Starting the chip of `ap3216` and of `icm20608` is a `Try`: the probe
writes its registers without looking at the results of the transfers. Remove and exit functions are the
sequence of what they release. `DriverLifecycle` interprets the tables: `Insmod`,
`LoadStep` (success, ignored failure, failure with undo, or a dereference of nothing),
`Loaded`, `Rmmod`, `Release`, `End`, and clients that `Open` and `Close` a node from the
moment it is published. An unsafe use is the phase `oops`, after which that driver does
nothing more (`Crashed`). Two other things a kernel may not survive are not counted there:
an interrupt handler that runs on a device that was not created, and the unloading of a
driver whose file operations have no owner while a file is open. A step fails because of the state (a class name or a gpio that
is taken, a node the device tree lacks) or, if the kernel is `faulty`, by itself. What the
driver core frees is in `Managed`; what lies in the module's own memory is in `Static`.

The drivers differ in what they achieve, and the properties name the sets they are
claimed for. For each driver (TLC; the first two columns and the last when every step may
fail):

| driver | never crashes | undoes a failed load | unload is complete | uses ordered | node serves when open | node when loaded |
|---|---|---|---|---|---|---|
| pwm | yes | yes | yes | yes | yes | yes |
| input | yes | yes | yes | no | - | - |
| adc | yes | yes | yes | yes | - | - |
| singal_io | yes | all but the cdev's memory | yes | yes | no | yes |
| io_mutil_dec, spinlock | yes | no | yes | yes | no | yes |
| ds18b20 | no | yes, unless it crashed | yes | yes | no | yes |
| simple_io | no | yes | no | yes | yes | yes |
| ap3216 | no | no | yes | yes | all but its chip | no |
| sem, dtb | no | no | yes | yes | no | no |
| irt_work | no | no | yes | yes, unless gpio_request fails | no | no |
| irt_irq | no | no | yes | no | no | no |
| icm20608 | no | no | no | yes | no | no |
| platform_led | no | no | no | no | no | no |

The sets `Checking`, `Undoing`, `Complete`, `Ordered`, `PublishesLast` and
`ChecksDevice` are the columns, and `Unchecked` is what a driver in `PublishesLast` uses
without having checked it: an open file of `ap3216` may be served by a chip that was never
started if the kernel is `faulty`. Every "no" is a hazard at its line; adding the driver to
the set makes TLC show the behaviour.

### OneWire

One read is the sequence of slots `Program`: reset, two command bytes, the wait, reset,
two command bytes, sixteen read slots. A slot is what the sensor can tell apart, how long
the line is low and when it is sampled, computed from the calls in `ds18b20_reset`,
`ds18b20_write_bit` and `ds18b20_read_bit`. In `simple_io` a write slot is never low: the
call that pulls the line low is in the comment of line 57. The sensor (`Hear`, `Obey`,
`Sampled`) is external, and a read may find it in any state, in the middle of a command
or of an answer.

Each delay of the code is a busy-wait with interrupts on, so it may take longer than asked
and the code itself gives no bound. The bounds are constants of the model, and the claims
depend on them:

- `PulseDelay`, on the low of a reset and of a written bit (lines 107, 127 and 133 of
  `ds18b20/simple_io.c`): with at most 13 microseconds `CommandsHeard` holds. With 14 TLC
  finds it violated, because a written 1 is low for 2 and the sensor may take it for a 0
  after 15.
- `SampleDelay`, on each of the two delays before a sample (lines 154 and 156): with at most
  1 `ReadsTemperature` holds. With 2 TLC finds it violated: the sensor holds a 0 for 15
  microseconds, and 2 + 10 and twice 2 are 16.

The bytes are composed and split as the code does it, bit by bit (`Bits`, `Number`, `Raw`),
and the number is made signed as an assignment to a short makes it (`Signed`).

### Servo

`pwm_config`, `pwm_enable` and `pwm_disable` read the channel's state (`Snapshot`) and put
it back with one part changed (`Apply`), unless nothing changes; no lock spans the two,
nor the two calls of open and of release. So one client's call can undo another's: an
enable that read the channel before a disable turns it on again. `AloneIsServed` is about
a client beside whom nobody was since it opened the node (`alone`, a history variable);
for two clients the code promises nothing, since the first to close disables the output,
and of calls that interleave only `IdleIsOff` speaks. A write of no bytes copies none and
uses an uninitialised byte of the stack, which the model takes to be any of `Angles`.
Division by 9 in `Pulse` is the integer division of line 48, on values that fit an int.

### Keys

One module for the four drivers that share the keys or their led; `driver` is the one
that is bound. `stage` follows remove: `bound`, `stopping` (inside
`cancel_delayed_work_sync`), `freed` (the gpio or the input device is given back), `out`
(the driver core has freed the interrupts), and `Probe` binds again.

| code | action |
|---|---|
| `irt/stb_with_gpio_withq.c` 34-50 `key_work_func` | `Timer` starts it; `SampleKey1`, `SampleKey2`, `SetForKey1`, `SetForKey2`, `Rearm`, one per statement |
| `irt/only_irq_copy.c` 34-46 and `input/only_irq_copy.c` 30-51, the handlers | `Handler`: set the led, or `Report` to the input core |
| `dtb/stb_with_gpio.c` 32-49 `myled_write`, the same in `irt` | `WriteLed` |
| remove, the driver core after it | `Remove`, `Cancelled`, `Unbound` |

External are the keys (`Press`, bounces included, and `LetGo`), the delay of the work,
the interrupt line (edges that come before the handler are one interrupt), the rule that
nothing queues a work while it is being cancelled, and the input core, which passes on
only an event that changes the key's state. `recent` and `told` are history variables.
The device tree of the repository has no node `imx6ull,led`, and its key node is not the
one `irt_irq` looks up; the module describes the drivers on a board that has both.

### LightSensor

Each value is two one-byte transfers, `ReadLow` and `ReadHigh`. The sensor replaces a pair
of registers as a whole (`Measure`) at any moment, also between the two; a transfer that
fails leaves an uninitialised byte, one of `Garbage`, because `ap3216_read_reg` does not
look at the result. `whole` remembers which measurement a value comes from, and is empty
once it was torn or spoiled. The expressions of lines 49-68 (`Assemble`) are compared with
what the registers mean (`Reading`). `ShowsMeasurements` is about whole values only. The
code returns torn and spoiled ones too, without a sign of it to the client; that is a
hazard no property of this project can exclude.

### MotionSensor

A byte is named by where it comes from, `<<sample, register>>`, so that a misplaced byte
is visible. The burst receives fifteen bytes: the first comes in while the register's
number goes out and is nothing, and the last falls behind the end of the array. What it
overwrites there is undefined and left out; the module shows what the array holds. The
burst is one step: the sensor is taken to keep its registers while it is read, so the
module claims nothing about samples that are mixed. It is there for the finding, that the
words a read returns are not those the comments describe.

### Board

The five devices whose drivers share no variable once loaded, in one specification. A
behaviour uses one of them, `device`, and the others rest in an initial state: the
devices' steps touch disjoint variables and commute, and none of the properties relates
two devices, so interleaving them would show nothing more. The device names the run's
question; the specification of each device can also be checked by itself.

## Runs

| run | asks | result | bounds and why they are enough |
|---|---|---|---|
| `blocking` | `NoLostWakeup`, `NoLostMessage`, `ConditionMeansMessage`, `AnnouncedIsTaken`, `PollReports` | hold | one reader of each kind against two writers: two writers are needed for a memset under an announced message, two sleepers for one to clear what woke the other; signals and failing copies on. The safety part is proved for any number |
| `blocking_signal` | `BlocksUntilCondition`, the comment at line 56 | violated | one reader, one writer, one signal |
| `signal` | `NoStrandedData`, `ClosedMeansUnsubscribed`, `AnnouncedIsTaken` | hold | two subscribers and two writers: a second SIGIO is coalesced, a second reader clears the flag under the first; the safety part is proved for any number |
| `signal_eagain` | `EagainMeansNoData`, the comment at line 36 | violated | two readers, one writer |
| `exclusive_lock` | `LockUntilMisused`, `HoldersBounded`, `NeverLockedOut`, `ImplementsLock` | hold | four files and three misuses: up to four simultaneous holders |
| `exclusive_mutex` | `MutualExclusion`, the comments at lines 40 and 70 | violated | two files |
| `life` | `NoCrash`, `NothingLeftBehind`, `FilesAreServed`, `LoadedIsPublished`, `DependenciesHeld`, `LoadsUnlessSomethingFails` | hold for the sets above | every driver, with and without failing steps; crews of up to three, among them the three drivers of one led and the pairs whose class names clash; loads and unloads unbounded |
| `life_twice` | `ReleasedOnce`, the comments at `simple_io.c:229` and 236 | violated | one driver, one load and unload |
| `devices` | the wire: `CommandsHeard`, `ReadsTemperature`; the servo: `IdleIsOff`, `AloneIsServed`; the keys: `WorkIsGone`, `WorkNeverStops`, `LedFollowsKeys`, `HeldKeyShows`, `PressShows`, `RemovalEnds`; the sensors: `ShowsMeasurements`; the types of the board | hold | the wire: every state the sensor can be left in, low pulses up to 13 microseconds late and each delay before a sample up to 1, the largest for which the claims hold, temperatures at both ends of the range and around zero. The servo: three clients, so that two can undo each other's calls beside a third; one angle besides the rest position. The keys: all there are, every driver. Light: words with and without each flag, high and low bytes that differ; garbage with all bits set and clear. Motion: two samples, for the types only |
| `wire_deaf` | `CommandsHeard`, the comments at `simple_io.c:57` and 109-114 | violated | one read |
| `motion_words` | `ReadsSample`, the comments at `icm20608.c:96` and 102 | violated | one read |
| `keys_input` | `PressesReported`, the comment at `input/only_irq_copy.c:32` | violated | one press |

`life` gives the board both `/gpio-keys`, which its tree has, and `/gpio_keys`, the
name `irt_irq` looks up, so that its interrupts are exercised; on the repository's own
tree its probe always fails after it has published the led's node. Drivers that want the
same class name from independent modules (`io_mutil_dec` and `singal_io`, say) cannot be
loaded together; such crews are in `FaultyCrews`, where a failed load is allowed.

Seven of the runs show a disagreement between the code and what it says of itself; they
are the findings of `PROJECT.json`.

**Fairness.** A process inside a call that is not asleep keeps running, a pending signal
is delivered, and `read_test.c` reads after poll returned: weak fairness on the steps
inside a call, which is what a preemptive scheduler gives. The keys have the fairness of
the kernel's own machinery: a delay ends, a work function that runs goes on, a pending
interrupt is handled, and a remove that has begun returns. Nobody has to start a call,
send a signal, open, close, press a key, let it go or unload a driver. Liveness is stated
so that it needs no more: announced data is taken *or* withdrawn by another reader.

## Proofs

For all values of the constants, so for any number of processes, with signals and failing
copies:

- `BlockingDevProofs`: `TypeOK`, `NoLostWakeup`, `NoLostMessage`, `ConditionMeansMessage`.
  The first three are inductive together with the types. The argument for `NoLostWakeup`
  is that a task tests the condition after it has queued itself, so a writer that sets it
  later still has its wake-up to do; a second writer's wake-up may take over. For
  `NoLostMessage` it is that the blocking path clears the condition before its copy.
  `ConditionMeansMessage` is not inductive: it needs `AnnouncerHasMessage`, that a writer
  about to announce knows the buffer holds a message or is being overwritten. Neither is
  claimed while the last copy from a writer is one that failed (`failed`).
- `SignalDevProofs`: `TypeOK`, `NoStrandedData`, `ClosedMeansUnsubscribed`.
- `ExclusiveDevProofs`: `TypeOK` (the count never goes below zero), `LockUntilMisused`,
  `HoldersBounded` (inductive once the holders are known to be finitely many),
  `NeverLockedOut`, and that the device implements `DeviceLock`. `NeverLockedOut` holds
  because a read that takes the last unit makes its file a holder and a close that
  removes the last holder has just called `up`.
- `ServoProofs`: `ServoTypeOK`, `IdleIsOff`, `AloneIsServed`, for any clients and angles.
  `IdleIsOff` is not inductive; `OnIsOwned` is: while the channel is on, some client has
  the node open and is not in a disable that found the output off already. `AloneIsServed`
  needs `AllServed`, which says what the channel holds at each point of a lone client's calls.
- `KeysProofs`: `KeysTypeOK`, `WorkIsGone`, `WorkNeverStops`, `LedFollowsKeys`. The first two
  follow from `WorkOrder` (in each stage, when the work may be queued and when it may run;
  while it is being cancelled it may run but not be queued), the last from
  `SampledWasDown` (a key the work found down was down during this run).
- `SensorProofs`, light and motion: `LightTypeOK`, `MotionTypeOK` and
  `ShowsMeasurements`, which rests on `AssembleIsReading`, that the masks and shifts
  of `ap3216_read` applied to the two bytes of a word give what the registers mean, and on
  the invariant `Faithful`: while a high byte is still to be read its low byte is that of
  the measurement the registers hold.
- `SensorProofs`, the thermometer: `WireTypeOK` for either driver and any delays;
  `CommandsHeard` for the register driver with low pulses at most 13 microseconds late, and
  `ReadsTemperature` with, besides, each of the two delays before a sample at most 1, for
  every set of temperatures the sensor can measure and every state a read can find it in. `ProgramIs` lists the 51 slots. `Heeds` is the
  invariant of the conversation: before each slot of a command the sensor has heard exactly
  the bits of it that were sent, and expects that command. `Fetches` is that of the answer: what was
  sampled and what the sensor has still to send are its two halves. The arithmetic is in
  three lemmas: the bits of a 16-bit number, put together, are that number
  (`BitsGiveNumber`), those of a command are the command, and what is printed is less than a
  tenth of a degree from what was measured (`PrintsNear`).
- `BoardProofs`: the board implements `WireSpec`, `ServoSpec`, `KeysSpec`, `LightSpec` and
  `MotionSpec`, so what is proved of the five holds on the board that the run checks, its
  type invariant and the action property of the keys included.

`DriverLifecycleProofs` proves every invariant of the run `life`, for all crews that fit
(below) and all sets of device-tree nodes, with loads and unloads without end:

- What is used of the tables is one lemma, `TableFacts`, proved driver by driver: no thing
  is acquired twice, what a thing needs is there when it is acquired, and at each step
  the undo list releases things once and in an order that keeps a user from outliving what
  it uses.
- `BaseInv` is the inductive invariant under all the others. In the middle of a load, an
  undo or an unload none of the properties can be seen to be preserved, because the state
  variable `todo` is just a sequence. `BaseInv` says that it is the rest of the table from
  some place k on, and bounds what the driver holds from both sides: everything that the steps
  before k acquire for certain (`Firm`), and nothing but what they may (`Got`).
- `TypeOK` and `LoadedIsPublished` follow from it. `NothingLeftBehind` needs that the
  releases of a tidy driver cover what it may hold (`TidyInv`), `FilesAreServed` that the
  node is the last thing acquired and the first released (`ServesInv`), and, for the chip of
  `ap3216`, that the kernel is not faulty (`SoundInv`), and
  `DependenciesHeld` that each release comes after those of what needs it (`DependsInv`).
- Three claims are about a kernel in which no step fails by itself: `NoCrash` for all
  drivers but simple_io, `NothingLeftBehind` for `Complete`, and `LoadsUnlessSomethingFails`.
  They need `SoundInv`: a load at place k holds everything up to k, what stays behind is at
  most `Litter`, and of the drivers that bind to one device at most one is up
  (`AloneInv`), which is why class names and gpios that several drivers share are free.

Assumptions are those named in the modules: the kinds of processes are disjoint, the
flags are Booleans, `MaxMisuses` is a natural number, `KeyDrivers` are among the four,
registers hold 16 bits and an uninitialised byte 8, temperatures are those between -55 and
125 degrees, and `CrewsFit`. That one says what has to be true of a crew for its loads to
succeed: two of its drivers want the same class name or gpio only if they bind to the same
device, so that the driver core has only one of them up, and the board has the nodes they
look up. The drivers do not make this so; whoever loads them does. Crews that do not
fit are among `FaultyCrews`, for which nothing of the sort is assumed.

Only model-checked: the liveness properties (`AnnouncedIsTaken`, `PollReports`,
`HeldKeyShows`, `PressShows`, `RemovalEnds`), which rest on fairness; and the violations.
Every invariant that a passing run checks is also a theorem.

## Not modelled

- Message lengths and the file offset; the text of messages.
- The register write of the memory-mapped led, one bit set to what the client asks for.
- Two clients on one wire and a sensor that is missing: the code has no lock and goes on
  without a presence pulse, and claims nothing for either. The clients' own conversions in the
  `app.c` files.
- `platform` and `dtb/stb_no_gpio.c`, whose handlers only print; `uart` and `io_mutil`,
  sequential programs over kernel devices; the test drivers of the sensors, which keep no
  state between calls; makefiles; the device tree, except for which nodes exist.
- Calls of the pwm core that fail: `pwm.c` ignores their results, and the servo would keep
  the angle it has.
- Unbinding through sysfs: a driver is unbound by rmmod only, which an open file refuses.
- `Compete/sem.c` is modelled as if line 37, a comment without its slashes, were one.

## Plan

1. done: the blocking, signal-driven and exclusive devices; the drivers' life cycle;
   one read over one wire.
2. done: the shared servo, the keys and their led, the light and motion sensors, the board
   that composes them, and the proofs of the servo, the keys and the two sensors.
3. done: the proofs of the life cycle and of the thermometer.
4. A missing sensor and two clients in `OneWire`, as fault models that bound what a client
   may conclude from a read; sharper action properties for the life cycle (the order of
   release as a property of steps) with their proofs.
