--------------------------- MODULE DriverLifecycle ---------------------------
(***************************************************************************)
(* Loading and unloading the drivers of src/: insmod runs the steps of     *)
(* Load(d), any of which may fail, rmmod those of Unload(d).  Several      *)
(* drivers are loaded and unloaded concurrently in one kernel, where class *)
(* names, gpios, driver names and device-tree nodes are exclusive; and as  *)
(* soon as a driver has published its /dev node a client may open it.      *)
(***************************************************************************)
EXTENDS DriverTables, FiniteSets

CONSTANTS
  Crews,        \* the sets of drivers somebody may load and unload in one kernel
  FaultyCrews,  \* the same, in a kernel where any step may fail by itself
  Nodes         \* the device-tree paths that exist among those looked up

ASSUME CrewsAssumption == Crews \cup FaultyCrews \subseteq SUBSET DriverNames

\* Where no step fails by itself, two drivers that want the same class name or gpio
\* are there together only if they also bind to the same device, and the board has
\* the device-tree nodes they look up.
ASSUME CrewsFit ==
  \A crew \in Crews : \A d \in crew :
    /\ \A e \in crew \ {d} : ClassName(d) = ClassName(e) \/ GpioName(d) = GpioName(e)
         => {d, e} \subseteq OnBus /\ NodeName(d) = NodeName(e)
    /\ \A i \in DOMAIN Load(d) : Load(d)[i].what = "lookup" => Load(d)[i].res \in Nodes

VARIABLES
  faulty,   \* can a step fail by itself (no memory, no number, no such node, ...)?
  phase,    \* "absent" from the crew, "out", "loading", "undoing", "loaded",
            \* "unbound", "unloading" or "oops"
  todo,     \* the steps of the load, or the releases, still to do
  held,     \* what the driver holds
  gone,     \* what it has released since it was loaded
  leaked,   \* what earlier loads left behind
  open      \* does a client have the node open?

vars == <<faulty, phase, todo, held, gone, leaked, open>>

Init ==
  /\ faulty \in BOOLEAN
  /\ \E crew \in (IF faulty THEN FaultyCrews ELSE Crews) :
       phase = [d \in DriverNames |-> IF d \in crew THEN "out" ELSE "absent"]
  /\ todo   = [d \in DriverNames |-> <<>>]
  /\ held   = [d \in DriverNames |-> {}]
  /\ gone   = [d \in DriverNames |-> {}]
  /\ leaked = [d \in DriverNames |-> {}]
  /\ open   = [d \in DriverNames |-> FALSE]

-----------------------------------------------------------------------------
Enter(d, p, steps) ==
  /\ phase' = [phase EXCEPT ![d] = p]
  /\ todo'  = [todo EXCEPT ![d] = steps]

\* Is the name under which d wants r in use, by a driver or by what one left?
Taken(d, r) ==
  \E e \in DriverNames :
    /\ r \in held[e] \cup leaked[e]
    /\ \/ r = "class" /\ ClassName(e) = ClassName(d)
       \/ r = "gpio" /\ GpioName(e) = GpioName(d)

\* class_create of a name that is there, device_create without a class, ...
MustFail(d, s) ==
  \/ s.what = "lookup" /\ s.res \notin Nodes
  \/ /\ s.what \in {"get", "try"}
     /\ Taken(d, s.res) \/ (s.res = "device" /\ "class" \notin held[d])

MayFail(d, s) == MustFail(d, s) \/ (faulty /\ s.what \in {"get", "try", "check", "lookup"})

Oops(d) ==
  /\ Enter(d, "oops", <<>>)
  /\ UNCHANGED <<held, gone, leaked, open>>

Registered(e) == phase[e] \notin {"absent", "out"}
Bound(e)      == phase[e] \in {"loading", "undoing", "loaded", "unloading"}

\* Faulty variant: a device is probed by a driver although another one has it.
InsmodBindsTwice(d) ==
  /\ phase[d] = "out"
  /\ Enter(d, "loading", Load(d))
  /\ gone' = [gone EXCEPT ![d] = {}]
  /\ UNCHANGED <<held, leaked, open>>

\* insmod.  A driver on a bus registers first, which fails if the name is taken,
\* and is probed if its device is there and nobody else has it.
Insmod(d) ==
  /\ phase[d] = "out"
  /\ \A e \in DriverNames : d \in OnBus /\ Registered(e) => DriverName(e) # DriverName(d)
  /\ IF d \in OnBus /\ \E e \in DriverNames : Bound(e) /\ NodeName(e) = NodeName(d)
     THEN Enter(d, "unbound", <<>>)
     ELSE Enter(d, "loading", Load(d))
  /\ gone' = [gone EXCEPT ![d] = {}]
  /\ UNCHANGED <<held, leaked, open>>

\* The next step succeeds, is ignored when it fails, makes the load fail, or
\* dereferences what is not there.
LoadStep(d) ==
  /\ phase[d] = "loading"
  /\ todo[d] # <<>>
  /\ LET s == Head(todo[d]) IN
       \/ /\ ~MustFail(d, s)
          /\ s.what = "use" => s.res \in held[d]
          /\ Enter(d, "loading", Tail(todo[d]))
          /\ held' = IF s.what \in {"get", "try", "sure"}
                     THEN [held EXCEPT ![d] = @ \cup {s.res}] ELSE held
          /\ UNCHANGED <<gone, leaked, open>>
       \/ /\ MayFail(d, s)
          /\ IF s.what = "try" THEN Enter(d, "loading", Tail(todo[d]))
                               ELSE Enter(d, "undoing", s.undo)
          /\ UNCHANGED <<held, gone, leaked, open>>
       \/ s.what = "use" /\ s.res \notin held[d] /\ Oops(d)

\* Faulty variant: the load is over before its last step.
LoadedEarly(d) ==
  /\ phase[d] = "loading"
  /\ phase' = [phase EXCEPT ![d] = "loaded"]
  /\ UNCHANGED <<todo, held, gone, leaked, open>>

Loaded(d) ==
  /\ phase[d] = "loading"
  /\ todo[d] = <<>>
  /\ Enter(d, "loaded", <<>>)
  /\ UNCHANGED <<held, gone, leaked, open>>

\* rmmod is refused while the module is in use.  remove runs only on a bound
\* device; simple_io guards both its lists by a pointer that is set once the
\* state was allocated and cleared by remove alone.
Rmmod(d) ==
  /\ phase[d] \in {"loaded", "unbound"}
  /\ d \in Owned => ~open[d]
  /\ LET first == IF "state" \in held[d] \cup gone[d] THEN ExitFirst(d) ELSE <<>>
         then  == IF phase[d] = "loaded" THEN Unload(d) ELSE <<>>
     IN  Enter(d, "unloading", first \o then)
  /\ UNCHANGED <<held, gone, leaked, open>>

\* Releasing again what was released, or a node by a class that is not there, is
\* a use after free; releasing what was never got does nothing.
Release(d) ==
  /\ phase[d] \in {"undoing", "unloading"}
  /\ todo[d] # <<>>
  /\ LET r == Head(todo[d]) IN
       IF r \in gone[d] \/ (r = "device" /\ "class" \notin held[d])
       THEN Oops(d)
       ELSE /\ Enter(d, phase[d], Tail(todo[d]))
            /\ held' = [held EXCEPT ![d] = @ \ {r}]
            /\ gone' = [gone EXCEPT ![d] = @ \cup ({r} \cap held[d])]
            /\ UNCHANGED <<leaked, open>>

\* The end of a failed load or of an unload: the driver core frees what it
\* manages.  What else is still held stays behind when the module goes.
End(d) ==
  /\ phase[d] \in {"undoing", "unloading"}
  /\ todo[d] = <<>>
  /\ IF phase[d] = "undoing" /\ d \in OnBus
     THEN /\ Enter(d, "unbound", <<>>)
          /\ held' = [held EXCEPT ![d] = @ \ Managed]
          /\ UNCHANGED leaked
     ELSE /\ Enter(d, "out", <<>>)
          /\ held' = [held EXCEPT ![d] = {}]
          /\ leaked' = [leaked EXCEPT ![d] = @ \cup (held[d] \ (Managed \cup Static))]
  /\ UNCHANGED <<gone, open>>

\* A node that is published, or was left behind, can be opened; the module of a
\* driver that names itself as owner cannot be entered while it is leaving.
Open(d) ==
  /\ ~open[d]
  /\ {"device", "cdev"} \subseteq held[d] \cup leaked[d]
  /\ ~(d \in Owned /\ phase[d] = "unloading")
  /\ open' = [open EXCEPT ![d] = TRUE]
  /\ UNCHANGED <<phase, todo, held, gone, leaked>>

Close(d) ==
  /\ open[d]
  /\ open' = [open EXCEPT ![d] = FALSE]
  /\ UNCHANGED <<phase, todo, held, gone, leaked>>

\* After a use of what is not there the driver does nothing more.
Crashed(d) == phase[d] = "oops" /\ UNCHANGED vars

Next ==
  \E d \in DriverNames :
    \/ UNCHANGED faulty /\ \/ Insmod(d) \/ LoadStep(d) \/ Loaded(d) \/ Rmmod(d)
                            \/ Release(d) \/ End(d) \/ Open(d) \/ Close(d)
    \/ Crashed(d)

Spec == Init /\ [][Next]_vars

-----------------------------------------------------------------------------
Kinds(d) == {Load(d)[i].res : i \in DOMAIN Load(d)}

Phases == {"absent", "out", "loading", "undoing", "loaded", "unbound", "unloading", "oops"}

TypeOK ==
  /\ phase \in [DriverNames -> Phases]
  /\ {d \in DriverNames : phase[d] # "absent"} \in (IF faulty THEN FaultyCrews ELSE Crews)
  /\ \A d \in DriverNames :
       /\ held[d] \cup gone[d] \cup leaked[d] \subseteq Kinds(d)
       /\ held[d] \cap gone[d] = {}
       /\ open[d] \in BOOLEAN
       /\ phase[d] \notin {"loading", "undoing", "unloading"} => todo[d] = <<>>

\* What the drivers achieve differs; each property names those it is claimed for.
\* No step of theirs uses the result of one that failed.
Checking == {"io_mutil_dec", "spinlock", "singal_io", "pwm", "input", "adc"}
\* A failed load undoes what it had done, but for the memory that singal_io forgets.
Undoing == {"pwm", "input", "singal_io", "ds18b20", "simple_io", "adc"}
Forgotten(d) == IF d = "singal_io" THEN {"cdev_mem"} ELSE {}
\* An unload releases what a load acquired.
Complete == DriverNames \ {"platform_led", "simple_io", "icm20608"}
\* Things are acquired before, and released after, what uses them.
Ordered == DriverNames \ {"irt_irq", "input", "platform_led"}
\* A failed device_create fails the load.
ChecksDevice == {"io_mutil_dec", "spinlock", "singal_io", "pwm", "ds18b20", "simple_io"}
\* The node is published last, withdrawn first, and pins the module while open.
PublishesLast == {"pwm", "simple_io", "ap3216"}
\* What such a driver takes for granted once it has tried it.
Unchecked(d) == IF d = "ap3216" THEN {"chip"} ELSE {}

\* A load that succeeds followed by an unload leaves nothing behind in the kernel,
\* and where steps fail, nor do the drivers that undo, at whichever step.
NothingLeftBehind ==
  \A d \in (IF faulty THEN Undoing ELSE Complete) :
    /\ leaked[d] \subseteq (IF faulty THEN Forgotten(d) ELSE {})
    /\ phase[d] \in {"out", "unbound"} => held[d] = {}

\* No driver touches what it does not have: no step dereferences the result of a
\* failed one, and nothing is released twice or through a class that is not there.
NoCrash ==
  \A d \in (IF faulty THEN Checking ELSE DriverNames \ {"simple_io"}) :
    phase[d] # "oops"

\* A node, a cdev, a work item or an interrupt never outlives what it uses, nor
\* is it there before it; irt_work starts its work even if it did not get the gpio.
DependenciesHeld ==
  \A d \in (IF faulty THEN Ordered \ {"irt_work"} ELSE Ordered) :
    \A r \in held[d] : Needs(d, r) \subseteq held[d]

\* Whenever a client has the node open its calls find the module there and all
\* they use initialised, but for one thing: where steps fail, the chip of ap3216
\* may never have been started.
FilesAreServed ==
  \A d \in PublishesLast :
    open[d] => /\ phase[d] # "out"
               /\ FileUses(d) \ (IF faulty THEN Unchecked(d) ELSE {}) \subseteq held[d]

\* A driver that says it is loaded has its node, whichever of its steps failed.
LoadedIsPublished ==
  \A d \in ChecksDevice : phase[d] = "loaded" => "device" \in held[d]

\* When nothing fails by itself a load succeeds, however often these drivers were
\* loaded and unloaded before, in whatever order.
LoadsUnlessSomethingFails == ~faulty => \A d \in DriverNames : phase[d] # "undoing"

\* "Release safely", "clear after freeing, against a dangling pointer": simple_io
\* never releases anything twice.
ReleasedOnce == \A d \in DriverNames : phase[d] # "oops"
=============================================================================
