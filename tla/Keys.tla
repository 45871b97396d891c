-------------------------------- MODULE Keys --------------------------------
(***************************************************************************)
(* The two keys of the board and what the drivers of src/dtb, src/irt and  *)
(* src/input do with them, from the moment one of them is bound.           *)
(*                                                                         *)
(*   dtb       clients write the led, nobody looks at the keys             *)
(*   irt_work  a work item that rearms itself polls the keys               *)
(*   irt_irq   two interrupt handlers set the led                          *)
(*   input     two interrupt handlers report events to the input core      *)
(*                                                                         *)
(* Work and handlers run beside the clients' writes and beside remove.     *)
(* The workqueue, the interrupt controller and the input core are external *)
(* and modelled from what these drivers rely on.                           *)
(***************************************************************************)
EXTENDS Integers

CONSTANT KeyDrivers   \* the drivers that may be bound, of the four above

ASSUME KeysAssumption == KeyDrivers \subseteq {"dtb", "irt_work", "irt_irq", "input"}

VARIABLES
  driver,    \* the one that is
  stage,     \* "bound", "stopping", "freed" (the led or input device is) or "out"
  down,      \* the keys that are held down
  led,       \* the level of the led's gpio; it shines at 0
  armed,     \* is the work queued, or its timer running?
  worker,    \* the statement of the work function that comes next, or "off"
  sampled,   \* the keys that the work function found down
  pending,   \* the keys whose interrupt waits for its handler
  bits,      \* the keys that are down for the input core
  recent,    \* history: keys that were down since the work function began
  told       \* history: keys whose last press, if handled, reached the clients

keys == <<driver, stage, down, led, armed, worker, sampled, pending, bits, recent, told>>

TheKeys == {"key1", "key2"}
LedOf(k) == IF k = "key1" THEN 0 ELSE 1
KeyOf(level) == IF level = 0 THEN "key1" ELSE "key2"

HasLed == driver # "input"
HasIrq == driver \in {"irt_irq", "input"}

\* As probe leaves it: the led is set to 0 and the work is queued.
KeysInit ==
  /\ driver \in KeyDrivers
  /\ stage = "bound"
  /\ down \in SUBSET TheKeys
  /\ led = 0
  /\ armed = (driver = "irt_work") /\ worker = "off" /\ sampled = {}
  /\ pending = {} /\ bits = {}
  /\ recent = {} /\ told = TheKeys

-----------------------------------------------------------------------------
\* A key goes down, a bounce of it included; falling edges that come before the
\* handler are one interrupt.
Press(k) ==
  /\ k \notin down
  /\ down' = down \cup {k}
  /\ recent' = recent \cup {k}
  /\ pending' = IF HasIrq /\ stage # "out" THEN pending \cup {k} ELSE pending
  /\ UNCHANGED <<driver, stage, led, armed, worker, sampled, bits, told>>

LetGo(k) ==
  /\ k \in down
  /\ down' = down \ {k}
  /\ UNCHANGED <<driver, stage, led, armed, worker, sampled, pending, bits, recent, told>>

\* write: "1" sets the gpio, anything else and a failed copy clear it.  An open
\* file keeps the module from being removed.
WriteLed ==
  /\ HasLed /\ stage = "bound"
  /\ led' \in {0, 1}
  /\ UNCHANGED <<driver, stage, down, armed, worker, sampled, pending, bits, recent, told>>

-----------------------------------------------------------------------------
\* The statements of key_work_func.
Work(at, next) == worker = at /\ worker' = next

\* The delay is over.
Timer ==
  /\ armed /\ Work("off", "key1")
  /\ armed' = FALSE
  /\ recent' = down
  /\ UNCHANGED <<driver, stage, down, led, sampled, pending, bits, told>>

SampleKey1 ==
  /\ Work("key1", "key2")
  /\ sampled' = down \cap {"key1"}
  /\ UNCHANGED <<driver, stage, down, led, armed, pending, bits, recent, told>>

\* Faulty variant: both values are read from the first key.
SampleKey1Again ==
  /\ Work("key2", "led1")
  /\ sampled' = IF "key1" \in down THEN sampled \cup {"key2"} ELSE sampled
  /\ UNCHANGED <<driver, stage, down, led, armed, pending, bits, recent, told>>

SampleKey2 ==
  /\ Work("key2", "led1")
  /\ sampled' = sampled \cup (down \cap {"key2"})
  /\ UNCHANGED <<driver, stage, down, led, armed, pending, bits, recent, told>>

SetForKey1 ==
  /\ Work("led1", "led2")
  /\ led' = IF "key1" \in sampled THEN 0 ELSE led
  /\ UNCHANGED <<driver, stage, down, armed, sampled, pending, bits, recent, told>>

\* Faulty variant: the function waits until the key is let go.
SetAndWaitForKey2 ==
  /\ Work("led2", "rearm")
  /\ led' = IF "key2" \in sampled THEN 1 ELSE led
  /\ down \cap sampled = {}
  /\ UNCHANGED <<driver, stage, down, armed, sampled, pending, bits, recent, told>>

SetForKey2 ==
  /\ Work("led2", "rearm")
  /\ led' = IF "key2" \in sampled THEN 1 ELSE led
  /\ UNCHANGED <<driver, stage, down, armed, sampled, pending, bits, recent, told>>

\* Faulty variant: the work is queued again even while it is being cancelled.
RearmAlways ==
  /\ Work("rearm", "off")
  /\ armed' = TRUE
  /\ UNCHANGED <<driver, stage, down, led, sampled, pending, bits, recent, told>>

\* schedule_delayed_work does nothing while the work is being cancelled.
Rearm ==
  /\ Work("rearm", "off")
  /\ armed' = (stage # "stopping")
  /\ UNCHANGED <<driver, stage, down, led, sampled, pending, bits, recent, told>>

WorkStep == SampleKey1 \/ SampleKey2 \/ SetForKey1 \/ SetForKey2 \/ Rearm

-----------------------------------------------------------------------------
\* input_report_key: the core passes on only what changes the state of the key.
Report(k, value) ==
  LET passed == value # (k \in bits) IN
    /\ bits' = IF value THEN bits \cup {k} ELSE bits \ {k}
    /\ told' = IF passed THEN told \cup {k} ELSE told \ {k}

\* Faulty variant: the levels of the two keys are exchanged.
HandlerSwapped(k) ==
  /\ k \in pending
  /\ pending' = pending \ {k}
  /\ IF driver = "irt_irq" THEN led' = 1 - LedOf(k) /\ UNCHANGED <<bits, told>>
                           ELSE Report(k, k = "key2") /\ UNCHANGED led
  /\ UNCHANGED <<driver, stage, down, armed, worker, sampled, recent>>

\* key1_irq_handler and key2_irq_handler: in irt they set the led; in input the
\* first always reports 0, and also writes the gpio of its key, which is an input
\* and stays as it is; the second always reports 1.
Handler(k) ==
  /\ k \in pending
  /\ pending' = pending \ {k}
  /\ IF driver = "irt_irq" THEN led' = LedOf(k) /\ UNCHANGED <<bits, told>>
                           ELSE Report(k, k = "key2") /\ UNCHANGED led
  /\ UNCHANGED <<driver, stage, down, armed, worker, sampled, recent>>

-----------------------------------------------------------------------------
\* Faulty variant: remove cancels the timer and does not wait for the function.
RemoveAtOnce ==
  /\ stage = "bound"
  /\ stage' = "freed"
  /\ armed' = FALSE
  /\ UNCHANGED <<driver, down, led, worker, sampled, pending, bits, recent, told>>

\* remove: irt_work first cancels the work, which takes it out of the queue and
\* keeps it out; the others give back the led, or the input device, at once.
Remove ==
  /\ stage = "bound"
  /\ stage' = IF driver = "irt_work" THEN "stopping" ELSE "freed"
  /\ armed' = FALSE
  /\ UNCHANGED <<driver, down, led, worker, sampled, pending, bits, recent, told>>

\* cancel_delayed_work_sync returns once the function is not running; then the
\* gpio is given back.
Cancelled ==
  /\ stage = "stopping" /\ worker = "off"
  /\ stage' = "freed"
  /\ UNCHANGED <<driver, down, led, armed, worker, sampled, pending, bits, recent, told>>

\* The driver core frees the interrupts after remove.
Unbound ==
  /\ stage = "freed"
  /\ stage' = "out"
  /\ pending' = {}
  /\ UNCHANGED <<driver, down, led, armed, worker, sampled, bits, recent, told>>

\* The driver is bound again.
Probe ==
  /\ stage = "out"
  /\ stage' = "bound"
  /\ led' = IF HasLed THEN 0 ELSE led
  /\ armed' = (driver = "irt_work")
  /\ bits' = {} /\ told' = TheKeys
  /\ UNCHANGED <<driver, down, worker, sampled, pending, recent>>

KeysNext ==
  \/ \E k \in TheKeys : Press(k) \/ LetGo(k) \/ Handler(k)
  \/ WriteLed \/ Timer \/ WorkStep
  \/ Remove \/ Cancelled \/ Unbound \/ Probe

\* Time passes, the workqueue and the interrupt controller do their work, and a
\* removal that has begun goes on.  Nobody has to touch a key, write or remove.
KeysFairness ==
  /\ WF_keys(Timer) /\ WF_keys(WorkStep)
  /\ \A k \in TheKeys : WF_keys(Handler(k))
  /\ WF_keys(Cancelled) /\ WF_keys(Unbound)

KeysSpec == KeysInit /\ [][KeysNext]_keys /\ KeysFairness

-----------------------------------------------------------------------------
\* The types of the variables.
KeysTypeOK ==
  /\ driver \in KeyDrivers
  /\ stage \in {"bound", "stopping", "freed", "out"}
  /\ led \in {0, 1}
  /\ armed \in BOOLEAN
  /\ worker \in {"off", "key1", "key2", "led1", "led2", "rearm"}
  /\ down \cup sampled \cup pending \cup bits \cup recent \cup told \subseteq TheKeys

\* Once the led's gpio is given back the work is neither running nor queued, although
\* it queues itself at the end of every run and the keys never rest.
WorkIsGone == stage \in {"freed", "out"} => ~armed /\ worker = "off"

\* While the driver is bound, exactly one of: the work is queued, or it is running.
\* It never stops polling and never runs twice.
WorkNeverStops == driver = "irt_work" /\ stage = "bound" => armed = (worker = "off")

\* The work and the handlers change the led only to what a key asks for that was
\* down during this run, or has an interrupt to handle.
LedFollowsKeys ==
  [][led' # led /\ stage' = stage /\ <<worker, pending>>' # <<worker, pending>> =>
       KeyOf(led') \in (IF driver = "irt_work" THEN recent ELSE pending)]_keys

\* A key that stays down by itself has its way, whatever the clients write: irt_work
\* sets the led again and again.
HeldKeyShows ==
  \A k \in TheKeys :
    <>[](driver = "irt_work" /\ stage = "bound" /\ down = {k}) => []<>(led = LedOf(k))

\* A press is never lost: irt_irq sets the led for it unless it is removed before.
PressShows ==
  \A k \in TheKeys :
    driver = "irt_irq" /\ stage = "bound" /\ k \in pending ~> led = LedOf(k) \/ stage # "bound"

\* Removing the driver ends, although the work keeps queueing itself and the keys
\* may be held for ever.
RemovalEnds == stage = "stopping" ~> stage = "out"

\* "Report the key event": whenever a press has been handled, its clients have got
\* an event for it.
PressesReported == TheKeys \subseteq told
=============================================================================
