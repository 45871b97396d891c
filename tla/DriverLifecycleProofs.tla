------------------------ MODULE DriverLifecycleProofs ------------------------
(***************************************************************************)
(* Proofs about module DriverLifecycle.  What holds while a driver is being*)
(* brought up or down depends on how far it has got in its table, so the   *)
(* inductive invariant says where the steps still to do begin, which of the*)
(* things acquired before that place the driver certainly holds, and which *)
(* it can hold at most.  All that is used of the tables is stated once for *)
(* every driver (TableFacts) and proved driver by driver.                  *)
(***************************************************************************)
EXTENDS DriverLifecycle, Integers, SequenceTheorems, TLAPS

Entries(s) == {s[i] : i \in DOMAIN s}
IsSeq(s)   == s \in Seq(Entries(s))

\* What is left of s from place k on, and what came before.
Rest(s, k)   == SubSeq(s, k, Len(s))
Before(s, k) == {s[i] : i \in {j \in DOMAIN s : j < k}}

\* What is a sequence over some set is one over its own entries.
LEMMA SeqIsSeq == ASSUME NEW X, NEW s \in Seq(X) PROVE IsSeq(s)
BY DEF IsSeq, Entries

\* A non-empty rest starts with the entry at its place, and goes on with the rest
\* from the next place.
LEMMA RestProperties ==
  ASSUME NEW s, IsSeq(s), NEW k \in Nat, 0 < k, k <= Len(s) + 1
  PROVE  /\ Rest(s, k) # <<>> <=> k <= Len(s)
         /\ k <= Len(s) => /\ k \in DOMAIN s
                           /\ Head(Rest(s, k)) = s[k]
                           /\ Tail(Rest(s, k)) = Rest(s, k + 1)
<1>1. s \in Seq(Entries(s)) /\ Len(s) \in Nat /\ DOMAIN s = 1 .. Len(s)
  BY LenProperties DEF IsSeq
<1>2. CASE k = Len(s) + 1
  BY <1>1, <1>2, SubSeqEmpty DEF Rest
<1>3. CASE k <= Len(s)
  <2>1. k \in 1 .. Len(s) /\ Len(s) \in k .. Len(s)
    BY <1>1, <1>3
  <2>2. Head(Rest(s, k)) = s[k] /\ Tail(Rest(s, k)) = Rest(s, k + 1)
    BY <1>1, <2>1, HeadTailOfSubSeq DEF Rest
  <2>3. Len(Rest(s, k)) = Len(s) - k + 1
    BY <1>1, <2>1, SubSeqProperties DEF Rest
  <2>4. Rest(s, k) # <<>>
    BY <1>1, <1>3, <2>3
  <2> QED BY <1>1, <1>3, <2>1, <2>2, <2>4
<1> QED BY <1>1, <1>2, <1>3

\* At the first place all is left.
LEMMA RestAll == ASSUME NEW s, IsSeq(s) PROVE Rest(s, 1) = s
BY SubSeqFull DEF IsSeq, Rest

\* What comes before the first place, the next place and the end.
LEMMA BeforeProperties ==
  ASSUME NEW s, IsSeq(s)
  PROVE  /\ Before(s, 1) = {}
         /\ \A k \in DOMAIN s : Before(s, k + 1) = Before(s, k) \cup {s[k]}
         /\ Before(s, Len(s) + 1) = Entries(s)
<1>1. Len(s) \in Nat /\ DOMAIN s = 1 .. Len(s)
  BY LenProperties DEF IsSeq
<1> QED BY <1>1 DEF Before, Entries

-----------------------------------------------------------------------------
Acquires(step) == step.what \in {"get", "try", "sure"}
\* A load gets past such a step only with the thing in hand.
Firmly(step)   == step.what \in {"get", "sure", "use"}
Fails(step)    == step.what \in {"get", "check", "lookup"}

\* What a load that is at step k may have acquired, and what it certainly has.
Got(d, k)  == {Load(d)[i].res : i \in {j \in DOMAIN Load(d) : j < k /\ Acquires(Load(d)[j])}}
Firm(d, k) == {Load(d)[i].res : i \in {j \in DOMAIN Load(d) : j < k /\ Firmly(Load(d)[j])}}

\* Where nothing fails by itself a load at step k has all of these: icm20608 finds
\* its class name taken by what its own earlier load left.
Full(d, k) == IF d = "icm20608" THEN Got(d, k) \ {"class", "device"} ELSE Got(d, k)

\* What an unload leaves behind.
Litter(d) == CASE d = "platform_led" -> {"region", "cdev", "regs"}
               [] d = "icm20608"     -> {"cdev_mem", "region", "cdev", "class", "device"}
               [] OTHER              -> {}

\* Whatever fails, the load of these keeps nothing it may not: that of ap3216
\* has no step that makes it fail.
Tidy == Undoing \cup PublishesLast

Done(d)       == Len(Load(d)) + 1            \* the place after the last step
FromLoaded(d) == ExitFirst(d) \o Unload(d)   \* what an unload releases

\* No thing is acquired twice; what a thing needs, but for the class of the node,
\* is in hand when it is acquired; the class comes before the node, whose creation
\* can fail; what is dereferenced may have been got.
LoadFacts(d) ==
  \A i \in DOMAIN Load(d) : LET step == Load(d)[i] IN
    /\ Acquires(step) => step.res \notin Got(d, i)
    /\ Acquires(step) /\ d \in Ordered => Needs(d, step.res) \ {"class"} \subseteq Got(d, i)
    /\ Acquires(step) /\ d \in Ordered \ {"irt_work"}
         => Needs(d, step.res) \ {"class"} \subseteq Firm(d, i)
    /\ step.res = "device" => step.what \in {"get", "try"} /\ "class" \in Got(d, i)
    /\ d = "icm20608" => ~Fails(step)
    /\ step.what = "use" => step.res \in Got(d, i) \ {"class", "device"} /\ d \notin Checking

\* The list s, run when the first m - 1 steps were done, releases nothing before
\* what needs it, ...
InOrder(d, m, s) ==
  \A j \in DOMAIN s : \A r \in Got(d, m) : s[j] \in Needs(d, r) => r \in Before(s, j)

\* ... nothing twice, nor the node without its class, if certain is what is held, ...
Safely(s, certain) ==
  \A j \in DOMAIN s :
    /\ s[j] \notin Before(s, j)
    /\ s[j] = "device" => "class" \in certain /\ "class" \notin Before(s, j)

\* ... and everything but what it may keep.
Everything(d, m, s, kept) == Got(d, m) \subseteq Entries(s) \cup kept

UndoFacts(d, m) ==
  LET s == Load(d)[m].undo IN
    /\ IsSeq(s)
    /\ d \in Ordered \ {"irt_work"} => InOrder(d, m, s)
    /\ d \in Checking => Safely(s, Firm(d, m))
    /\ d \in Tidy => Everything(d, m, s, Managed \cup Forgotten(d))

UnloadFacts(d) ==
  LET s == FromLoaded(d) IN
    /\ IsSeq(s)
    /\ d \in Ordered => InOrder(d, Done(d), s)
    /\ d # "simple_io" => /\ Safely(s, Full(d, Done(d)))
                          /\ Everything(d, Done(d), s, Managed \cup Static \cup Litter(d))
    /\ d \in Checking => Safely(s, Firm(d, Done(d)))
    /\ d = "simple_io" => \E i, j \in DOMAIN s : i < j /\ s[i] = "device" /\ s[j] = "device"

\* The node is the last thing the drivers of PublishesLast acquire, the first they
\* release, and by then they have all that its calls use, or have tried to get it.
PublishFacts(d) ==
  /\ d \in ChecksDevice => "device" \in Firm(d, Done(d))
  /\ d \in PublishesLast =>
       /\ \A i \in DOMAIN Load(d) : Acquires(Load(d)[i]) /\ Load(d)[i].res = "device"
            => i = Len(Load(d))
       /\ FileUses(d) \ Unchecked(d) \subseteq Firm(d, Done(d))
       /\ FileUses(d) \subseteq Full(d, Done(d))
       /\ FromLoaded(d) # <<>> /\ FromLoaded(d)[1] = "device"

TableFacts(d) ==
  /\ IsSeq(Load(d))
  /\ LoadFacts(d)
  /\ \A m \in DOMAIN Load(d) : Fails(Load(d)[m]) => UndoFacts(d, m)
  /\ UnloadFacts(d)
  /\ PublishFacts(d)

\* The tables, driver by driver: each is expanded, and the facts read off its rows.
LEMMA BlockingInitFacts == TableFacts("io_mutil_dec")
<1> DEFINE L == Load("io_mutil_dec")
<1>1. L = BlockingInit /\ DOMAIN L = 1 .. 6 /\ Len(L) = 6 /\ IsSeq(L)
  BY DEF Load, BlockingInit, Get, Sure, Step, IsSeq, Entries
<1>2. /\ L[1].what = "get" /\ L[1].res = "cdev_mem" /\ L[1].undo = <<>>
      /\ L[2].what = "get" /\ L[2].res = "region" /\ L[2].undo = <<>>
      /\ L[3].what = "get" /\ L[3].res = "cdev" /\ L[3].undo = <<>>
      /\ L[4].what = "get" /\ L[4].res = "class" /\ L[4].undo = <<>>
      /\ L[5].what = "get" /\ L[5].res = "device" /\ L[5].undo = <<>>
      /\ L[6].what = "sure" /\ L[6].res = "wait_queue" /\ L[6].undo = <<>>
  BY <1>1 DEF BlockingInit, Get, Sure, Step
<1>3. LoadFacts("io_mutil_dec")
  BY <1>1, <1>2 DEF LoadFacts, Got, Firm, Acquires, Firmly, Needs, Ordered, Checking, DriverNames
<1>4. ASSUME NEW m \in DOMAIN L, Fails(L[m]) PROVE UndoFacts("io_mutil_dec", m)
  <2> L[m].undo = <<>>
    BY <1>1, <1>2, <1>4 DEF Fails
  <2>1. IsSeq(<<>>)
    BY DEF IsSeq, Entries
  <2>2. InOrder("io_mutil_dec", m, L[m].undo)
    BY DEF InOrder
  <2>3. Safely(L[m].undo, Firm("io_mutil_dec", m))
    BY DEF Safely
  <2> QED BY <2>1, <2>2, <2>3 DEF UndoFacts, Tidy, Undoing, PublishesLast
<1>5. UnloadFacts("io_mutil_dec")
  <2>1. FromLoaded("io_mutil_dec") = BlockingExit
    BY DEF FromLoaded, ExitFirst, Unload, BlockingExit
  <2>2. IsSeq(BlockingExit)
    BY DEF BlockingExit, IsSeq, Entries
  <2>3. InOrder("io_mutil_dec", Done("io_mutil_dec"), BlockingExit)
    BY <1>1, <1>2 DEF InOrder, Got, Acquires, Before, Needs, Done, BlockingExit
  <2>4. Safely(BlockingExit, Full("io_mutil_dec", Done("io_mutil_dec")))
    BY <1>1, <1>2 DEF Safely, Full, Got, Acquires, Before, Done, BlockingExit
  <2>5. Safely(BlockingExit, Firm("io_mutil_dec", Done("io_mutil_dec")))
    BY <1>1, <1>2 DEF Safely, Firm, Firmly, Before, Done, BlockingExit
  <2>6. Everything("io_mutil_dec", Done("io_mutil_dec"), BlockingExit, Managed \cup Static \cup Litter("io_mutil_dec"))
    BY <1>1, <1>2 DEF Everything, Got, Acquires, Entries, Managed, Static, Done, BlockingExit
  <2> QED BY <2>1, <2>2, <2>3, <2>4, <2>5, <2>6 DEF UnloadFacts
<1>6. PublishFacts("io_mutil_dec")
  BY <1>1, <1>2 DEF PublishFacts, ChecksDevice, PublishesLast, Firm, Firmly, Done
<1> QED BY <1>1, <1>3, <1>4, <1>5, <1>6 DEF TableFacts

LEMMA SpinlockInitFacts == TableFacts("spinlock")
<1> DEFINE L == Load("spinlock")
<1>1. L = SpinlockInit /\ DOMAIN L = 1 .. 6 /\ Len(L) = 6 /\ IsSeq(L)
  BY DEF Load, SpinlockInit, Get, Sure, Step, IsSeq, Entries
<1>2. /\ L[1].what = "get" /\ L[1].res = "cdev_mem" /\ L[1].undo = <<>>
      /\ L[2].what = "get" /\ L[2].res = "region" /\ L[2].undo = <<>>
      /\ L[3].what = "get" /\ L[3].res = "cdev" /\ L[3].undo = <<>>
      /\ L[4].what = "get" /\ L[4].res = "class" /\ L[4].undo = <<>>
      /\ L[5].what = "get" /\ L[5].res = "device" /\ L[5].undo = <<>>
      /\ L[6].what = "sure" /\ L[6].res = "spinlock" /\ L[6].undo = <<>>
  BY <1>1 DEF SpinlockInit, Get, Sure, Step
<1>3. LoadFacts("spinlock")
  BY <1>1, <1>2 DEF LoadFacts, Got, Firm, Acquires, Firmly, Needs, Ordered, Checking, DriverNames
<1>4. ASSUME NEW m \in DOMAIN L, Fails(L[m]) PROVE UndoFacts("spinlock", m)
  <2> L[m].undo = <<>>
    BY <1>1, <1>2, <1>4 DEF Fails
  <2>1. IsSeq(<<>>)
    BY DEF IsSeq, Entries
  <2>2. InOrder("spinlock", m, L[m].undo)
    BY DEF InOrder
  <2>3. Safely(L[m].undo, Firm("spinlock", m))
    BY DEF Safely
  <2> QED BY <2>1, <2>2, <2>3 DEF UndoFacts, Tidy, Undoing, PublishesLast
<1>5. UnloadFacts("spinlock")
  <2>1. FromLoaded("spinlock") = SpinlockExit
    BY DEF FromLoaded, ExitFirst, Unload, SpinlockExit
  <2>2. IsSeq(SpinlockExit)
    BY DEF SpinlockExit, IsSeq, Entries
  <2>3. InOrder("spinlock", Done("spinlock"), SpinlockExit)
    BY <1>1, <1>2 DEF InOrder, Got, Acquires, Before, Needs, Done, SpinlockExit
  <2>4. Safely(SpinlockExit, Full("spinlock", Done("spinlock")))
    BY <1>1, <1>2 DEF Safely, Full, Got, Acquires, Before, Done, SpinlockExit
  <2>5. Safely(SpinlockExit, Firm("spinlock", Done("spinlock")))
    BY <1>1, <1>2 DEF Safely, Firm, Firmly, Before, Done, SpinlockExit
  <2>6. Everything("spinlock", Done("spinlock"), SpinlockExit, Managed \cup Static \cup Litter("spinlock"))
    BY <1>1, <1>2 DEF Everything, Got, Acquires, Entries, Managed, Static, Done, SpinlockExit
  <2> QED BY <2>1, <2>2, <2>3, <2>4, <2>5, <2>6 DEF UnloadFacts
<1>6. PublishFacts("spinlock")
  BY <1>1, <1>2 DEF PublishFacts, ChecksDevice, PublishesLast, Firm, Firmly, Done
<1> QED BY <1>1, <1>3, <1>4, <1>5, <1>6 DEF TableFacts

LEMMA SignalInitFacts == TableFacts("singal_io")
<1> DEFINE L == Load("singal_io")
<1>1. L = SignalInit /\ DOMAIN L = 1 .. 6 /\ Len(L) = 6 /\ IsSeq(L)
  BY DEF Load, SignalInit, Get, Sure, Step, IsSeq, Entries
<1>2. /\ L[1].what = "get" /\ L[1].res = "cdev_mem" /\ L[1].undo = <<>>
      /\ L[2].what = "get" /\ L[2].res = "region" /\ L[2].undo = <<"cdev">>
      /\ L[3].what = "get" /\ L[3].res = "cdev" /\ L[3].undo = <<"region", "cdev">>
      /\ L[4].what = "get" /\ L[4].res = "class" /\ L[4].undo = <<"cdev", "region">>
      /\ L[5].what = "get" /\ L[5].res = "device" /\ L[5].undo = <<"device", "class", "cdev", "region">>
      /\ L[6].what = "sure" /\ L[6].res = "fap" /\ L[6].undo = <<>>
  BY <1>1 DEF SignalInit, Get, Sure, Step
<1>3. LoadFacts("singal_io")
  BY <1>1, <1>2 DEF LoadFacts, Got, Firm, Acquires, Firmly, Needs, Ordered, Checking, DriverNames
<1>4. ASSUME NEW m \in DOMAIN L, Fails(L[m]) PROVE UndoFacts("singal_io", m)
  <2>1. IsSeq(L[m].undo)
    <3>1. /\ IsSeq(<<>>)
          /\ IsSeq(<<"cdev">>)
          /\ IsSeq(<<"region", "cdev">>)
          /\ IsSeq(<<"cdev", "region">>)
          /\ IsSeq(<<"device", "class", "cdev", "region">>)
      BY DEF IsSeq, Entries
    <3> QED BY <1>1, <1>2, <1>4, <3>1 DEF Fails
  <2>2. InOrder("singal_io", m, L[m].undo)
    BY <1>1, <1>2, <1>4 DEF Fails, InOrder, Got, Acquires, Before, Needs
  <2>3. Safely(L[m].undo, Firm("singal_io", m))
    BY <1>1, <1>2, <1>4 DEF Fails, Safely, Firm, Firmly, Before
  <2>4. Everything("singal_io", m, L[m].undo, Managed \cup Forgotten("singal_io"))
    BY <1>1, <1>2, <1>4 DEF Fails, Everything, Got, Acquires, Entries, Managed, Forgotten
  <2> QED BY <2>1, <2>2, <2>3, <2>4 DEF UndoFacts
<1>5. UnloadFacts("singal_io")
  <2>1. FromLoaded("singal_io") = SignalExit
    BY DEF FromLoaded, ExitFirst, Unload, SignalExit
  <2>2. IsSeq(SignalExit)
    BY DEF SignalExit, IsSeq, Entries
  <2>3. InOrder("singal_io", Done("singal_io"), SignalExit)
    BY <1>1, <1>2 DEF InOrder, Got, Acquires, Before, Needs, Done, SignalExit
  <2>4. Safely(SignalExit, Full("singal_io", Done("singal_io")))
    BY <1>1, <1>2 DEF Safely, Full, Got, Acquires, Before, Done, SignalExit
  <2>5. Safely(SignalExit, Firm("singal_io", Done("singal_io")))
    BY <1>1, <1>2 DEF Safely, Firm, Firmly, Before, Done, SignalExit
  <2>6. Everything("singal_io", Done("singal_io"), SignalExit, Managed \cup Static \cup Litter("singal_io"))
    BY <1>1, <1>2 DEF Everything, Got, Acquires, Entries, Managed, Static, Done, SignalExit
  <2> QED BY <2>1, <2>2, <2>3, <2>4, <2>5, <2>6 DEF UnloadFacts
<1>6. PublishFacts("singal_io")
  BY <1>1, <1>2 DEF PublishFacts, ChecksDevice, PublishesLast, Firm, Firmly, Done
<1> QED BY <1>1, <1>3, <1>4, <1>5, <1>6 DEF TableFacts

LEMMA SemInitFacts == TableFacts("sem")
<1> DEFINE L == Load("sem")
<1>1. L = SemInit /\ DOMAIN L = 1 .. 6 /\ Len(L) = 6 /\ IsSeq(L)
  BY DEF Load, SemInit, Get, Sure, Try, Step, IsSeq, Entries
<1>2. /\ L[1].what = "get" /\ L[1].res = "cdev_mem" /\ L[1].undo = <<>>
      /\ L[2].what = "get" /\ L[2].res = "region" /\ L[2].undo = <<>>
      /\ L[3].what = "try" /\ L[3].res = "cdev" /\ L[3].undo = <<>>
      /\ L[4].what = "try" /\ L[4].res = "class" /\ L[4].undo = <<>>
      /\ L[5].what = "try" /\ L[5].res = "device" /\ L[5].undo = <<>>
      /\ L[6].what = "sure" /\ L[6].res = "semaphore" /\ L[6].undo = <<>>
  BY <1>1 DEF SemInit, Get, Sure, Try, Step
<1>3. LoadFacts("sem")
  BY <1>1, <1>2 DEF LoadFacts, Got, Firm, Acquires, Firmly, Needs, Ordered, Checking, DriverNames
<1>4. ASSUME NEW m \in DOMAIN L, Fails(L[m]) PROVE UndoFacts("sem", m)
  <2> L[m].undo = <<>>
    BY <1>1, <1>2, <1>4 DEF Fails
  <2>1. IsSeq(<<>>)
    BY DEF IsSeq, Entries
  <2>2. InOrder("sem", m, L[m].undo)
    BY DEF InOrder
  <2> QED BY <2>1, <2>2 DEF UndoFacts, Checking, Tidy, Undoing, PublishesLast
<1>5. UnloadFacts("sem")
  <2>1. FromLoaded("sem") = SemExit
    BY DEF FromLoaded, ExitFirst, Unload, SemExit
  <2>2. IsSeq(SemExit)
    BY DEF SemExit, IsSeq, Entries
  <2>3. InOrder("sem", Done("sem"), SemExit)
    BY <1>1, <1>2 DEF InOrder, Got, Acquires, Before, Needs, Done, SemExit
  <2>4. Safely(SemExit, Full("sem", Done("sem")))
    BY <1>1, <1>2 DEF Safely, Full, Got, Acquires, Before, Done, SemExit
  <2>5. Everything("sem", Done("sem"), SemExit, Managed \cup Static \cup Litter("sem"))
    BY <1>1, <1>2 DEF Everything, Got, Acquires, Entries, Managed, Static, Done, SemExit
  <2> QED BY <2>1, <2>2, <2>3, <2>4, <2>5 DEF UnloadFacts, Checking
<1>6. PublishFacts("sem")
  BY <1>1, <1>2 DEF PublishFacts, ChecksDevice, PublishesLast, Firm, Firmly, Done
<1> QED BY <1>1, <1>3, <1>4, <1>5, <1>6 DEF TableFacts

LEMMA PwmProbeFacts == TableFacts("pwm")
<1> DEFINE L == Load("pwm")
<1>1. L = PwmProbe /\ DOMAIN L = 1 .. 5 /\ Len(L) = 5 /\ IsSeq(L)
  BY DEF Load, PwmProbe, Get, Step, IsSeq, Entries
<1>2. /\ L[1].what = "get" /\ L[1].res = "pwm" /\ L[1].undo = <<>>
      /\ L[2].what = "get" /\ L[2].res = "region" /\ L[2].undo = <<>>
      /\ L[3].what = "get" /\ L[3].res = "cdev" /\ L[3].undo = <<"region">>
      /\ L[4].what = "get" /\ L[4].res = "class" /\ L[4].undo = <<"cdev", "region">>
      /\ L[5].what = "get" /\ L[5].res = "device" /\ L[5].undo = <<"class", "cdev", "region">>
  BY <1>1 DEF PwmProbe, Get, Step
<1>3. LoadFacts("pwm")
  BY <1>1, <1>2 DEF LoadFacts, Got, Firm, Acquires, Firmly, Needs, Ordered, Checking, DriverNames
<1>4. ASSUME NEW m \in DOMAIN L, Fails(L[m]) PROVE UndoFacts("pwm", m)
  <2>1. IsSeq(L[m].undo)
    <3>1. /\ IsSeq(<<>>)
          /\ IsSeq(<<"region">>)
          /\ IsSeq(<<"cdev", "region">>)
          /\ IsSeq(<<"class", "cdev", "region">>)
      BY DEF IsSeq, Entries
    <3> QED BY <1>1, <1>2, <1>4, <3>1 DEF Fails
  <2>2. InOrder("pwm", m, L[m].undo)
    BY <1>1, <1>2, <1>4 DEF Fails, InOrder, Got, Acquires, Before, Needs
  <2>3. Safely(L[m].undo, Firm("pwm", m))
    BY <1>1, <1>2, <1>4 DEF Fails, Safely, Firm, Firmly, Before
  <2>4. Everything("pwm", m, L[m].undo, Managed \cup Forgotten("pwm"))
    BY <1>1, <1>2, <1>4 DEF Fails, Everything, Got, Acquires, Entries, Managed, Forgotten
  <2> QED BY <2>1, <2>2, <2>3, <2>4 DEF UndoFacts
<1>5. UnloadFacts("pwm")
  <2>1. FromLoaded("pwm") = PwmRemove
    BY DEF FromLoaded, ExitFirst, Unload, PwmRemove
  <2>2. IsSeq(PwmRemove)
    BY DEF PwmRemove, IsSeq, Entries
  <2>3. InOrder("pwm", Done("pwm"), PwmRemove)
    BY <1>1, <1>2 DEF InOrder, Got, Acquires, Before, Needs, Done, PwmRemove
  <2>4. Safely(PwmRemove, Full("pwm", Done("pwm")))
    BY <1>1, <1>2 DEF Safely, Full, Got, Acquires, Before, Done, PwmRemove
  <2>5. Safely(PwmRemove, Firm("pwm", Done("pwm")))
    BY <1>1, <1>2 DEF Safely, Firm, Firmly, Before, Done, PwmRemove
  <2>6. Everything("pwm", Done("pwm"), PwmRemove, Managed \cup Static \cup Litter("pwm"))
    BY <1>1, <1>2 DEF Everything, Got, Acquires, Entries, Managed, Static, Done, PwmRemove
  <2> QED BY <2>1, <2>2, <2>3, <2>4, <2>5, <2>6 DEF UnloadFacts
<1>6. PublishFacts("pwm")
  <2>1. "pwm" \in ChecksDevice => "device" \in Firm("pwm", Done("pwm"))
    BY <1>1, <1>2 DEF ChecksDevice, Firm, Firmly, Done
  <2>2. ASSUME NEW i \in DOMAIN L, L[i].res = "device" PROVE i = Len(L)
    <3>1. i = 1 \/ i = 2 \/ i = 3 \/ i = 4 \/ i = 5
      BY <1>1
    <3> QED BY <1>1, <1>2, <2>2, <3>1
  <2>3. FileUses("pwm") \ Unchecked("pwm") \subseteq Firm("pwm", Done("pwm"))
    BY <1>1, <1>2 DEF FileUses, Unchecked, Firm, Firmly, Done
  <2>5. FileUses("pwm") \subseteq Full("pwm", Done("pwm"))
    BY <1>1, <1>2 DEF FileUses, Full, Got, Acquires, Done
  <2>4. FromLoaded("pwm") # <<>> /\ FromLoaded("pwm")[1] = "device"
    BY DEF FromLoaded, ExitFirst, Unload, PwmRemove
  <2> QED BY <2>1, <2>2, <2>3, <2>4, <2>5 DEF PublishFacts
<1> QED BY <1>1, <1>3, <1>4, <1>5, <1>6 DEF TableFacts

LEMMA DtbProbeFacts == TableFacts("dtb")
<1> DEFINE L == Load("dtb")
<1>1. L = DtbProbe /\ DOMAIN L = 1 .. 7 /\ Len(L) = 7 /\ IsSeq(L)
  BY DEF Load, DtbProbe, Get, Try, Use, Step, IsSeq, Entries
<1>2. /\ L[1].what = "try" /\ L[1].res = "cdev_mem" /\ L[1].undo = <<>>
      /\ L[2].what = "use" /\ L[2].res = "cdev_mem" /\ L[2].undo = <<>>
      /\ L[3].what = "get" /\ L[3].res = "region" /\ L[3].undo = <<>>
      /\ L[4].what = "try" /\ L[4].res = "cdev" /\ L[4].undo = <<>>
      /\ L[5].what = "try" /\ L[5].res = "class" /\ L[5].undo = <<>>
      /\ L[6].what = "try" /\ L[6].res = "device" /\ L[6].undo = <<>>
      /\ L[7].what = "try" /\ L[7].res = "gpio" /\ L[7].undo = <<>>
  BY <1>1 DEF DtbProbe, Get, Try, Use, Step
<1>3. ASSUME NEW i \in DOMAIN L, Acquires(L[i])
      PROVE  \/ i = 1 /\ L[i].res = "cdev_mem"
             \/ i = 3 /\ L[i].res = "region"
             \/ i = 4 /\ L[i].res = "cdev"
             \/ i = 5 /\ L[i].res = "class"
             \/ i = 6 /\ L[i].res = "device"
             \/ i = 7 /\ L[i].res = "gpio"
  <2>1. i = 1 \/ i = 2 \/ i = 3 \/ i = 4 \/ i = 5 \/ i = 6 \/ i = 7
    BY <1>1
  <2> QED BY <1>2, <1>3, <2>1 DEF Acquires
<1>4. LoadFacts("dtb")
  <2> SUFFICES ASSUME NEW i \in DOMAIN L
               PROVE  /\ Acquires(L[i]) => L[i].res \notin Got("dtb", i)
                      /\ Acquires(L[i]) => Needs("dtb", L[i].res) \ {"class"} \subseteq Got("dtb", i) \cap Firm("dtb", i)
                      /\ L[i].res = "device" => L[i].what \in {"get", "try"} /\ "class" \in Got("dtb", i)
                      /\ L[i].what = "use" => L[i].res \in Got("dtb", i) \ {"class", "device"}
    BY DEF LoadFacts, Ordered, Checking
  <2>1. Acquires(L[i]) => L[i].res \notin Got("dtb", i)
    BY <1>3 DEF Got
  <2>2. Acquires(L[i]) => Needs("dtb", L[i].res) \ {"class"} \subseteq Got("dtb", i) \cap Firm("dtb", i)
    BY <1>1, <1>2 DEF Got, Firm, Acquires, Firmly, Needs
  <2>3. L[i].what = "use" => L[i].res \in Got("dtb", i) \ {"class", "device"}
    BY <1>1, <1>2 DEF Got, Acquires
  <2>4. L[i].res = "device" => L[i].what \in {"get", "try"} /\ "class" \in Got("dtb", i)
    <3>1. i = 1 \/ i = 2 \/ i = 3 \/ i = 4 \/ i = 5 \/ i = 6 \/ i = 7
      BY <1>1
    <3>2. L[i].res = "device" => i = 6
      BY <1>2, <3>1
    <3> QED BY <1>1, <1>2, <3>2 DEF Got, Acquires
  <2> QED BY <2>1, <2>2, <2>3, <2>4
<1>5. ASSUME NEW m \in DOMAIN L, Fails(L[m]) PROVE UndoFacts("dtb", m)
  <2> L[m].undo = <<>>
    BY <1>1, <1>2, <1>5 DEF Fails
  <2>1. IsSeq(<<>>)
    BY DEF IsSeq, Entries
  <2>2. InOrder("dtb", m, L[m].undo)
    BY DEF InOrder
  <2> QED BY <2>1, <2>2 DEF UndoFacts, Checking, Tidy, Undoing, PublishesLast
<1>6. UnloadFacts("dtb")
  <2>1. FromLoaded("dtb") = DtbRemove
    BY DEF FromLoaded, ExitFirst, Unload, DtbRemove
  <2>2. IsSeq(DtbRemove)
    BY DEF DtbRemove, IsSeq, Entries
  <2>3. InOrder("dtb", Done("dtb"), DtbRemove)
    BY <1>1, <1>2 DEF InOrder, Got, Acquires, Before, Needs, Done, DtbRemove
  <2>4. Safely(DtbRemove, Full("dtb", Done("dtb")))
    BY <1>1, <1>2 DEF Safely, Full, Got, Acquires, Before, Done, DtbRemove
  <2>5. Everything("dtb", Done("dtb"), DtbRemove, Managed \cup Static \cup Litter("dtb"))
    BY <1>1, <1>2 DEF Everything, Got, Acquires, Entries, Managed, Static, Done, DtbRemove
  <2> QED BY <2>1, <2>2, <2>3, <2>4, <2>5 DEF UnloadFacts, Checking
<1>7. PublishFacts("dtb")
  BY <1>1, <1>2 DEF PublishFacts, ChecksDevice, PublishesLast, Firm, Firmly, Done
<1> QED BY <1>1, <1>4, <1>5, <1>6, <1>7 DEF TableFacts

LEMMA WorkProbeFacts == TableFacts("irt_work")
<1> DEFINE L == Load("irt_work")
<1>1. L = WorkProbe /\ DOMAIN L = 1 .. 11 /\ Len(L) = 11 /\ IsSeq(L)
  BY DEF Load, WorkProbe, Check, Get, Lookup, Sure, Try, Use, Step, IsSeq, Entries
<1>2. /\ L[1].what = "try" /\ L[1].res = "cdev_mem" /\ L[1].undo = <<>>
      /\ L[2].what = "use" /\ L[2].res = "cdev_mem" /\ L[2].undo = <<>>
      /\ L[3].what = "get" /\ L[3].res = "region" /\ L[3].undo = <<>>
      /\ L[4].what = "try" /\ L[4].res = "cdev" /\ L[4].undo = <<>>
      /\ L[5].what = "try" /\ L[5].res = "class" /\ L[5].undo = <<>>
      /\ L[6].what = "try" /\ L[6].res = "device" /\ L[6].undo = <<>>
      /\ L[7].what = "try" /\ L[7].res = "gpio" /\ L[7].undo = <<>>
      /\ L[8].what = "lookup" /\ L[8].res = "/gpio-keys" /\ L[8].undo = <<>>
      /\ L[9].what = "check" /\ L[9].res = "condition" /\ L[9].undo = <<>>
      /\ L[10].what = "try" /\ L[10].res = "key_gpio" /\ L[10].undo = <<>>
      /\ L[11].what = "sure" /\ L[11].res = "work" /\ L[11].undo = <<>>
  BY <1>1 DEF WorkProbe, Check, Get, Lookup, Sure, Try, Use, Step
<1>3. ASSUME NEW i \in DOMAIN L, Acquires(L[i])
      PROVE  \/ i = 1 /\ L[i].res = "cdev_mem"
             \/ i = 3 /\ L[i].res = "region"
             \/ i = 4 /\ L[i].res = "cdev"
             \/ i = 5 /\ L[i].res = "class"
             \/ i = 6 /\ L[i].res = "device"
             \/ i = 7 /\ L[i].res = "gpio"
             \/ i = 10 /\ L[i].res = "key_gpio"
             \/ i = 11 /\ L[i].res = "work"
  <2>1. i = 1 \/ i = 2 \/ i = 3 \/ i = 4 \/ i = 5 \/ i = 6 \/ i = 7 \/ i = 8 \/ i = 9 \/ i = 10 \/ i = 11
    BY <1>1
  <2> QED BY <1>2, <1>3, <2>1 DEF Acquires
<1>4. LoadFacts("irt_work")
  <2> SUFFICES ASSUME NEW i \in DOMAIN L
               PROVE  /\ Acquires(L[i]) => L[i].res \notin Got("irt_work", i)
                      /\ Acquires(L[i]) => Needs("irt_work", L[i].res) \ {"class"} \subseteq Got("irt_work", i)
                      /\ L[i].res = "device" => L[i].what \in {"get", "try"} /\ "class" \in Got("irt_work", i)
                      /\ L[i].what = "use" => L[i].res \in Got("irt_work", i) \ {"class", "device"}
    BY DEF LoadFacts, Ordered, Checking
  <2>1. Acquires(L[i]) => L[i].res \notin Got("irt_work", i)
    BY <1>3 DEF Got
  <2>2. Acquires(L[i]) => Needs("irt_work", L[i].res) \ {"class"} \subseteq Got("irt_work", i)
    BY <1>1, <1>2, <1>3 DEF Got, Acquires, Needs
  <2>3. L[i].what = "use" => L[i].res \in Got("irt_work", i) \ {"class", "device"}
    BY <1>1, <1>2 DEF Got, Acquires
  <2>4. L[i].res = "device" => L[i].what \in {"get", "try"} /\ "class" \in Got("irt_work", i)
    <3>1. i = 1 \/ i = 2 \/ i = 3 \/ i = 4 \/ i = 5 \/ i = 6 \/ i = 7 \/ i = 8 \/ i = 9 \/ i = 10 \/ i = 11
      BY <1>1
    <3>2. L[i].res = "device" => i = 6
      BY <1>2, <3>1
    <3> QED BY <1>1, <1>2, <3>2 DEF Got, Acquires
  <2> QED BY <2>1, <2>2, <2>3, <2>4
<1>5. ASSUME NEW m \in DOMAIN L, Fails(L[m]) PROVE UndoFacts("irt_work", m)
  <2> L[m].undo = <<>>
    BY <1>1, <1>2, <1>5 DEF Fails
  <2>1. IsSeq(<<>>)
    BY DEF IsSeq, Entries
  <2> QED BY <2>1 DEF UndoFacts, Ordered, Checking, Tidy, Undoing, PublishesLast
<1>6. UnloadFacts("irt_work")
  <2>1. FromLoaded("irt_work") = WorkRemove
    BY DEF FromLoaded, ExitFirst, Unload, WorkRemove
  <2>2. IsSeq(WorkRemove)
    BY DEF WorkRemove, IsSeq, Entries
  <2>3. Got("irt_work", Done("irt_work")) \subseteq {"cdev_mem", "region", "cdev", "class", "device", "gpio", "key_gpio", "work"}
    BY <1>3 DEF Got
  <2>4. InOrder("irt_work", Done("irt_work"), WorkRemove)
    BY <2>3 DEF InOrder, Before, Needs, Done, WorkRemove
  <2>5. Safely(WorkRemove, Full("irt_work", Done("irt_work")))
    BY <1>1, <1>2 DEF Safely, Full, Got, Acquires, Before, Done, WorkRemove
  <2>6. Everything("irt_work", Done("irt_work"), WorkRemove, Managed \cup Static \cup Litter("irt_work"))
    BY <2>3 DEF Everything, Entries, Managed, Static, Done, WorkRemove
  <2> QED BY <2>1, <2>2, <2>4, <2>5, <2>6 DEF UnloadFacts, Checking
<1>7. PublishFacts("irt_work")
  BY <1>1, <1>2 DEF PublishFacts, ChecksDevice, PublishesLast, Firm, Firmly, Done
<1> QED BY <1>1, <1>4, <1>5, <1>6, <1>7 DEF TableFacts

LEMMA IrqProbeFacts == TableFacts("irt_irq")
<1> DEFINE L == Load("irt_irq")
<1>1. L = IrqProbe /\ DOMAIN L = 1 .. 9 /\ Len(L) = 9 /\ IsSeq(L)
  BY DEF Load, IrqProbe, Lookup, Try, Use, Step, IsSeq, Entries
<1>2. /\ L[1].what = "try" /\ L[1].res = "cdev_mem" /\ L[1].undo = <<>>
      /\ L[2].what = "use" /\ L[2].res = "cdev_mem" /\ L[2].undo = <<>>
      /\ L[3].what = "try" /\ L[3].res = "region" /\ L[3].undo = <<>>
      /\ L[4].what = "try" /\ L[4].res = "cdev" /\ L[4].undo = <<>>
      /\ L[5].what = "try" /\ L[5].res = "class" /\ L[5].undo = <<>>
      /\ L[6].what = "try" /\ L[6].res = "device" /\ L[6].undo = <<>>
      /\ L[7].what = "try" /\ L[7].res = "gpio" /\ L[7].undo = <<>>
      /\ L[8].what = "lookup" /\ L[8].res = "/gpio_keys" /\ L[8].undo = <<>>
      /\ L[9].what = "try" /\ L[9].res = "irq" /\ L[9].undo = <<>>
  BY <1>1 DEF IrqProbe, Lookup, Try, Use, Step
<1>3. ASSUME NEW i \in DOMAIN L, Acquires(L[i])
      PROVE  \/ i = 1 /\ L[i].res = "cdev_mem"
             \/ i = 3 /\ L[i].res = "region"
             \/ i = 4 /\ L[i].res = "cdev"
             \/ i = 5 /\ L[i].res = "class"
             \/ i = 6 /\ L[i].res = "device"
             \/ i = 7 /\ L[i].res = "gpio"
             \/ i = 9 /\ L[i].res = "irq"
  <2>1. i = 1 \/ i = 2 \/ i = 3 \/ i = 4 \/ i = 5 \/ i = 6 \/ i = 7 \/ i = 8 \/ i = 9
    BY <1>1
  <2> QED BY <1>2, <1>3, <2>1 DEF Acquires
<1>4. LoadFacts("irt_irq")
  <2> SUFFICES ASSUME NEW i \in DOMAIN L
               PROVE  /\ Acquires(L[i]) => L[i].res \notin Got("irt_irq", i)
                      /\ Acquires(L[i]) => Needs("irt_irq", L[i].res) \ {"class"} \subseteq Got("irt_irq", i)
                      /\ L[i].res = "device" => L[i].what \in {"get", "try"} /\ "class" \in Got("irt_irq", i)
                      /\ L[i].what = "use" => L[i].res \in Got("irt_irq", i) \ {"class", "device"}
    BY DEF LoadFacts, Ordered, Checking
  <2>1. Acquires(L[i]) => L[i].res \notin Got("irt_irq", i)
    BY <1>3 DEF Got
  <2>2. Acquires(L[i]) => Needs("irt_irq", L[i].res) \ {"class"} \subseteq Got("irt_irq", i)
    BY <1>1, <1>2, <1>3 DEF Got, Acquires, Needs
  <2>3. L[i].what = "use" => L[i].res \in Got("irt_irq", i) \ {"class", "device"}
    BY <1>1, <1>2 DEF Got, Acquires
  <2>4. L[i].res = "device" => L[i].what \in {"get", "try"} /\ "class" \in Got("irt_irq", i)
    <3>1. i = 1 \/ i = 2 \/ i = 3 \/ i = 4 \/ i = 5 \/ i = 6 \/ i = 7 \/ i = 8 \/ i = 9
      BY <1>1
    <3>2. L[i].res = "device" => i = 6
      BY <1>2, <3>1
    <3> QED BY <1>1, <1>2, <3>2 DEF Got, Acquires
  <2> QED BY <2>1, <2>2, <2>3, <2>4
<1>5. ASSUME NEW m \in DOMAIN L, Fails(L[m]) PROVE UndoFacts("irt_irq", m)
  <2> L[m].undo = <<>>
    BY <1>1, <1>2, <1>5 DEF Fails
  <2>1. IsSeq(<<>>)
    BY DEF IsSeq, Entries
  <2> QED BY <2>1 DEF UndoFacts, Ordered, Checking, Tidy, Undoing, PublishesLast
<1>6. UnloadFacts("irt_irq")
  <2>1. FromLoaded("irt_irq") = IrqRemove
    BY DEF FromLoaded, ExitFirst, Unload, IrqRemove
  <2>2. IsSeq(IrqRemove)
    BY DEF IrqRemove, IsSeq, Entries
  <2>3. Got("irt_irq", Done("irt_irq")) \subseteq {"cdev_mem", "region", "cdev", "class", "device", "gpio", "irq"}
    BY <1>3 DEF Got
  <2>4. Safely(IrqRemove, Full("irt_irq", Done("irt_irq")))
    BY <1>1, <1>2 DEF Safely, Full, Got, Acquires, Before, Done, IrqRemove
  <2>5. Everything("irt_irq", Done("irt_irq"), IrqRemove, Managed \cup Static \cup Litter("irt_irq"))
    BY <2>3 DEF Everything, Entries, Managed, Static, Done, IrqRemove
  <2> QED BY <2>1, <2>2, <2>4, <2>5 DEF UnloadFacts, Ordered, Checking
<1>7. PublishFacts("irt_irq")
  BY <1>1, <1>2 DEF PublishFacts, ChecksDevice, PublishesLast, Firm, Firmly, Done
<1> QED BY <1>1, <1>4, <1>5, <1>6, <1>7 DEF TableFacts

LEMMA InputProbeFacts == TableFacts("input")
<1> DEFINE L == Load("input")
<1>1. L = InputProbe /\ DOMAIN L = 1 .. 4 /\ Len(L) = 4 /\ IsSeq(L)
  BY DEF Load, InputProbe, Check, Get, Try, Step, IsSeq, Entries
<1>2. /\ L[1].what = "check" /\ L[1].res = "condition" /\ L[1].undo = <<>>
      /\ L[2].what = "try" /\ L[2].res = "irq" /\ L[2].undo = <<>>
      /\ L[3].what = "get" /\ L[3].res = "input_mem" /\ L[3].undo = <<>>
      /\ L[4].what = "get" /\ L[4].res = "input" /\ L[4].undo = <<"input_mem">>
  BY <1>1 DEF InputProbe, Check, Get, Try, Step
<1>3. LoadFacts("input")
  BY <1>1, <1>2 DEF LoadFacts, Got, Firm, Acquires, Firmly, Needs, Ordered, Checking, DriverNames
<1>4. ASSUME NEW m \in DOMAIN L, Fails(L[m]) PROVE UndoFacts("input", m)
  <2>1. IsSeq(L[m].undo)
    <3>1. /\ IsSeq(<<>>)
          /\ IsSeq(<<"input_mem">>)
      BY DEF IsSeq, Entries
    <3> QED BY <1>1, <1>2, <1>4, <3>1 DEF Fails
  <2>2. Safely(L[m].undo, Firm("input", m))
    BY <1>1, <1>2, <1>4 DEF Fails, Safely, Firm, Firmly, Before
  <2>3. Everything("input", m, L[m].undo, Managed \cup Forgotten("input"))
    BY <1>1, <1>2, <1>4 DEF Fails, Everything, Got, Acquires, Entries, Managed, Forgotten
  <2> QED BY <2>1, <2>2, <2>3 DEF UndoFacts, Ordered
<1>5. UnloadFacts("input")
  <2>1. FromLoaded("input") = InputRemove
    BY DEF FromLoaded, ExitFirst, Unload, InputRemove
  <2>2. IsSeq(InputRemove)
    BY DEF InputRemove, IsSeq, Entries
  <2>3. Safely(InputRemove, Full("input", Done("input")))
    BY <1>1, <1>2 DEF Safely, Full, Got, Acquires, Before, Done, InputRemove
  <2>4. Safely(InputRemove, Firm("input", Done("input")))
    BY <1>1, <1>2 DEF Safely, Firm, Firmly, Before, Done, InputRemove
  <2>5. Everything("input", Done("input"), InputRemove, Managed \cup Static \cup Litter("input"))
    BY <1>1, <1>2 DEF Everything, Got, Acquires, Entries, Managed, Static, Done, InputRemove
  <2> QED BY <2>1, <2>2, <2>3, <2>4, <2>5 DEF UnloadFacts, Ordered
<1>6. PublishFacts("input")
  BY <1>1, <1>2 DEF PublishFacts, ChecksDevice, PublishesLast, Firm, Firmly, Done
<1> QED BY <1>1, <1>3, <1>4, <1>5, <1>6 DEF TableFacts

LEMMA PlatformProbeFacts == TableFacts("platform_led")
<1> DEFINE L == Load("platform_led")
<1>1. L = PlatformProbe /\ DOMAIN L = 1 .. 8 /\ Len(L) = 8 /\ IsSeq(L)
  BY DEF Load, PlatformProbe, Try, Use, Step, IsSeq, Entries
<1>2. /\ L[1].what = "try" /\ L[1].res = "cdev_mem" /\ L[1].undo = <<>>
      /\ L[2].what = "use" /\ L[2].res = "cdev_mem" /\ L[2].undo = <<>>
      /\ L[3].what = "try" /\ L[3].res = "region" /\ L[3].undo = <<>>
      /\ L[4].what = "try" /\ L[4].res = "cdev" /\ L[4].undo = <<>>
      /\ L[5].what = "try" /\ L[5].res = "class" /\ L[5].undo = <<>>
      /\ L[6].what = "try" /\ L[6].res = "device" /\ L[6].undo = <<>>
      /\ L[7].what = "try" /\ L[7].res = "regs" /\ L[7].undo = <<>>
      /\ L[8].what = "use" /\ L[8].res = "regs" /\ L[8].undo = <<>>
  BY <1>1 DEF PlatformProbe, Try, Use, Step
<1>3. ASSUME NEW i \in DOMAIN L, Acquires(L[i])
      PROVE  \/ i = 1 /\ L[i].res = "cdev_mem"
             \/ i = 3 /\ L[i].res = "region"
             \/ i = 4 /\ L[i].res = "cdev"
             \/ i = 5 /\ L[i].res = "class"
             \/ i = 6 /\ L[i].res = "device"
             \/ i = 7 /\ L[i].res = "regs"
  <2>1. i = 1 \/ i = 2 \/ i = 3 \/ i = 4 \/ i = 5 \/ i = 6 \/ i = 7 \/ i = 8
    BY <1>1
  <2> QED BY <1>2, <1>3, <2>1 DEF Acquires
<1>4. LoadFacts("platform_led")
  <2> SUFFICES ASSUME NEW i \in DOMAIN L
               PROVE  /\ Acquires(L[i]) => L[i].res \notin Got("platform_led", i)
                      /\ Acquires(L[i]) => Needs("platform_led", L[i].res) \ {"class"} \subseteq Got("platform_led", i)
                      /\ L[i].res = "device" => L[i].what \in {"get", "try"} /\ "class" \in Got("platform_led", i)
                      /\ L[i].what = "use" => L[i].res \in Got("platform_led", i) \ {"class", "device"}
    BY DEF LoadFacts, Ordered, Checking
  <2>1. Acquires(L[i]) => L[i].res \notin Got("platform_led", i)
    BY <1>3 DEF Got
  <2>2. Acquires(L[i]) => Needs("platform_led", L[i].res) \ {"class"} \subseteq Got("platform_led", i)
    BY <1>1, <1>2 DEF Got, Firm, Acquires, Firmly, Needs
  <2>3. L[i].what = "use" => L[i].res \in Got("platform_led", i) \ {"class", "device"}
    BY <1>1, <1>2 DEF Got, Acquires
  <2>4. L[i].res = "device" => L[i].what \in {"get", "try"} /\ "class" \in Got("platform_led", i)
    <3>1. i = 1 \/ i = 2 \/ i = 3 \/ i = 4 \/ i = 5 \/ i = 6 \/ i = 7 \/ i = 8
      BY <1>1
    <3>2. L[i].res = "device" => i = 6
      BY <1>2, <3>1
    <3> QED BY <1>1, <1>2, <3>2 DEF Got, Acquires
  <2> QED BY <2>1, <2>2, <2>3, <2>4
<1>5. \A m \in DOMAIN L : ~Fails(L[m])
  BY <1>1, <1>2 DEF Fails
<1>6. UnloadFacts("platform_led")
  <2>1. FromLoaded("platform_led") = PlatformRemove
    BY DEF FromLoaded, ExitFirst, Unload, PlatformRemove
  <2>2. IsSeq(PlatformRemove)
    BY DEF PlatformRemove, IsSeq, Entries
  <2>3. Safely(PlatformRemove, Full("platform_led", Done("platform_led")))
    BY <1>1, <1>2 DEF Safely, Full, Got, Acquires, Before, Done, PlatformRemove
  <2>4. Everything("platform_led", Done("platform_led"), PlatformRemove, Managed \cup Static \cup Litter("platform_led"))
    BY <1>1, <1>2 DEF Everything, Got, Acquires, Entries, Managed, Static, Done, Litter, PlatformRemove
  <2> QED BY <2>1, <2>2, <2>3, <2>4 DEF UnloadFacts, Ordered, Checking
<1>7. PublishFacts("platform_led")
  BY <1>1, <1>2 DEF PublishFacts, ChecksDevice, PublishesLast, Firm, Firmly, Done
<1> QED BY <1>1, <1>4, <1>5, <1>6, <1>7 DEF TableFacts

LEMMA WireInitFacts == TableFacts("ds18b20")
<1> DEFINE L == Load("ds18b20")
<1>1. L = WireInit /\ DOMAIN L = 1 .. 5 /\ Len(L) = 5 /\ IsSeq(L)
  BY DEF Load, WireInit, Get, Try, Use, Step, IsSeq, Entries
<1>2. /\ L[1].what = "get" /\ L[1].res = "cdev" /\ L[1].undo = <<>>
      /\ L[2].what = "get" /\ L[2].res = "class" /\ L[2].undo = <<"cdev">>
      /\ L[3].what = "get" /\ L[3].res = "device" /\ L[3].undo = <<"class", "cdev">>
      /\ L[4].what = "try" /\ L[4].res = "regs" /\ L[4].undo = <<>>
      /\ L[5].what = "use" /\ L[5].res = "regs" /\ L[5].undo = <<>>
  BY <1>1 DEF WireInit, Get, Try, Use, Step
<1>3. LoadFacts("ds18b20")
  BY <1>1, <1>2 DEF LoadFacts, Got, Firm, Acquires, Firmly, Needs, Ordered, Checking, DriverNames
<1>4. ASSUME NEW m \in DOMAIN L, Fails(L[m]) PROVE UndoFacts("ds18b20", m)
  <2>1. IsSeq(L[m].undo)
    <3>1. /\ IsSeq(<<>>)
          /\ IsSeq(<<"cdev">>)
          /\ IsSeq(<<"class", "cdev">>)
      BY DEF IsSeq, Entries
    <3> QED BY <1>1, <1>2, <1>4, <3>1 DEF Fails
  <2>2. InOrder("ds18b20", m, L[m].undo)
    BY <1>1, <1>2, <1>4 DEF Fails, InOrder, Got, Acquires, Before, Needs
  <2>3. Everything("ds18b20", m, L[m].undo, Managed \cup Forgotten("ds18b20"))
    BY <1>1, <1>2, <1>4 DEF Fails, Everything, Got, Acquires, Entries, Managed, Forgotten
  <2> QED BY <2>1, <2>2, <2>3 DEF UndoFacts, Checking
<1>5. UnloadFacts("ds18b20")
  <2>1. FromLoaded("ds18b20") = WireExit
    BY DEF FromLoaded, ExitFirst, Unload, WireExit
  <2>2. IsSeq(WireExit)
    BY DEF WireExit, IsSeq, Entries
  <2>3. InOrder("ds18b20", Done("ds18b20"), WireExit)
    BY <1>1, <1>2 DEF InOrder, Got, Acquires, Before, Needs, Done, WireExit
  <2>4. Safely(WireExit, Full("ds18b20", Done("ds18b20")))
    BY <1>1, <1>2 DEF Safely, Full, Got, Acquires, Before, Done, WireExit
  <2>5. Everything("ds18b20", Done("ds18b20"), WireExit, Managed \cup Static \cup Litter("ds18b20"))
    BY <1>1, <1>2 DEF Everything, Got, Acquires, Entries, Managed, Static, Done, WireExit
  <2> QED BY <2>1, <2>2, <2>3, <2>4, <2>5 DEF UnloadFacts, Checking
<1>6. PublishFacts("ds18b20")
  BY <1>1, <1>2 DEF PublishFacts, ChecksDevice, PublishesLast, Firm, Firmly, Done
<1> QED BY <1>1, <1>3, <1>4, <1>5, <1>6 DEF TableFacts

LEMMA SimpleProbeFacts == TableFacts("simple_io")
<1> DEFINE L == Load("simple_io")
<1>1. L = SimpleProbe /\ DOMAIN L = 1 .. 6 /\ Len(L) = 6 /\ IsSeq(L)
  BY DEF Load, SimpleProbe, Get, Step, IsSeq, Entries
<1>2. /\ L[1].what = "get" /\ L[1].res = "state" /\ L[1].undo = <<>>
      /\ L[2].what = "get" /\ L[2].res = "gpio" /\ L[2].undo = <<"state">>
      /\ L[3].what = "get" /\ L[3].res = "region" /\ L[3].undo = <<"gpio", "state">>
      /\ L[4].what = "get" /\ L[4].res = "cdev" /\ L[4].undo = <<"region", "gpio", "state">>
      /\ L[5].what = "get" /\ L[5].res = "class" /\ L[5].undo = <<"cdev", "region", "gpio", "state">>
      /\ L[6].what = "get" /\ L[6].res = "device" /\ L[6].undo = <<"class", "cdev", "region", "gpio", "state">>
  BY <1>1 DEF SimpleProbe, Get, Step
<1> DEFINE S == FromLoaded("simple_io")
           Names == {"device", "class", "cdev", "region", "state"}
<1>3. /\ S \in Seq(Names) /\ Len(S) = 10 /\ DOMAIN S = 1 .. 10
      /\ S[1] = "device" /\ S[2] = "class" /\ S[3] = "cdev" /\ S[4] = "region" /\ S[5] = "state"
      /\ S[6] = "device" /\ S[7] = "class" /\ S[8] = "cdev" /\ S[9] = "region" /\ S[10] = "state"
  <2>1. SimpleExit \in Seq(Names) /\ SimpleRemove \in Seq(Names)
    BY DEF SimpleExit, SimpleRemove
  <2>2. Len(SimpleExit) = 5 /\ Len(SimpleRemove) = 5
    BY DEF SimpleExit, SimpleRemove
  <2>3. /\ SimpleExit[1] = "device" /\ SimpleExit[2] = "class" /\ SimpleExit[3] = "cdev"
        /\ SimpleExit[4] = "region" /\ SimpleExit[5] = "state"
        /\ SimpleRemove[1] = "device" /\ SimpleRemove[2] = "class" /\ SimpleRemove[3] = "cdev"
        /\ SimpleRemove[4] = "region" /\ SimpleRemove[5] = "state"
    BY DEF SimpleExit, SimpleRemove
  <2>4. S = SimpleExit \o SimpleRemove
    BY DEF FromLoaded, ExitFirst, Unload
  <2> HIDE DEF S, Names
  <2>5. /\ S \in Seq(Names) /\ Len(S) = 10
        /\ \A i \in 1 .. 10 : S[i] = IF i <= 5 THEN SimpleExit[i] ELSE SimpleRemove[i - 5]
    <3>1. /\ S \in Seq(Names) /\ Len(S) = Len(SimpleExit) + Len(SimpleRemove)
          /\ \A i \in 1 .. Len(SimpleExit) + Len(SimpleRemove) :
               S[i] = IF i <= Len(SimpleExit) THEN SimpleExit[i] ELSE SimpleRemove[i - Len(SimpleExit)]
      BY <2>1, <2>4, ConcatProperties
    <3>2. Len(SimpleExit) + Len(SimpleRemove) = 10
      BY <2>2
    <3> QED BY <2>2, <3>1, <3>2
  <2>6. DOMAIN S = 1 .. 10
    BY <2>5
  <2>7. /\ S[1] = SimpleExit[1] /\ S[2] = SimpleExit[2] /\ S[3] = SimpleExit[3]
        /\ S[4] = SimpleExit[4] /\ S[5] = SimpleExit[5]
        /\ S[6] = SimpleRemove[1] /\ S[7] = SimpleRemove[2] /\ S[8] = SimpleRemove[3]
        /\ S[9] = SimpleRemove[4] /\ S[10] = SimpleRemove[5]
    BY <2>5
  <2> QED BY <2>3, <2>5, <2>6, <2>7
<1> HIDE DEF S
<1>4. LoadFacts("simple_io")
  BY <1>1, <1>2 DEF LoadFacts, Got, Firm, Acquires, Firmly, Needs, Ordered, Checking, DriverNames
<1>5. ASSUME NEW m \in DOMAIN L, Fails(L[m]) PROVE UndoFacts("simple_io", m)
  <2>1. IsSeq(L[m].undo)
    <3>1. /\ IsSeq(<<>>)
          /\ IsSeq(<<"state">>)
          /\ IsSeq(<<"gpio", "state">>)
          /\ IsSeq(<<"region", "gpio", "state">>)
          /\ IsSeq(<<"cdev", "region", "gpio", "state">>)
          /\ IsSeq(<<"class", "cdev", "region", "gpio", "state">>)
      BY DEF IsSeq, Entries
    <3> QED BY <1>1, <1>2, <1>5, <3>1 DEF Fails
  <2>2. InOrder("simple_io", m, L[m].undo)
    BY <1>1, <1>2, <1>5 DEF Fails, InOrder, Got, Acquires, Before, Needs
  <2>3. Everything("simple_io", m, L[m].undo, Managed \cup Forgotten("simple_io"))
    BY <1>1, <1>2, <1>5 DEF Fails, Everything, Got, Acquires, Entries, Managed, Forgotten
  <2> QED BY <2>1, <2>2, <2>3 DEF UndoFacts, Checking
<1>6. UnloadFacts("simple_io")
  <2>1. IsSeq(S)
    BY <1>3, SeqIsSeq
  <2>2. InOrder("simple_io", Done("simple_io"), S)
    BY <1>1, <1>2, <1>3 DEF InOrder, Got, Acquires, Before, Needs, Done
  <2>3. 1 \in DOMAIN S /\ 6 \in DOMAIN S /\ 1 < 6 /\ S[1] = "device" /\ S[6] = "device"
    BY <1>3
  <2> QED BY <2>1, <2>2, <2>3 DEF S, UnloadFacts, Checking
<1>7. PublishFacts("simple_io")
  <2>1. "simple_io" \in ChecksDevice => "device" \in Firm("simple_io", Done("simple_io"))
    BY <1>1, <1>2 DEF ChecksDevice, Firm, Firmly, Done
  <2>2. ASSUME NEW i \in DOMAIN L, L[i].res = "device" PROVE i = Len(L)
    <3>1. i = 1 \/ i = 2 \/ i = 3 \/ i = 4 \/ i = 5 \/ i = 6
      BY <1>1
    <3> QED BY <1>1, <1>2, <2>2, <3>1
  <2>3. FileUses("simple_io") \ Unchecked("simple_io") \subseteq Firm("simple_io", Done("simple_io"))
    BY <1>1, <1>2 DEF FileUses, Unchecked, Firm, Firmly, Done
  <2>5. FileUses("simple_io") \subseteq Full("simple_io", Done("simple_io"))
    BY <1>1, <1>2 DEF FileUses, Full, Got, Acquires, Done
  <2>4. S # <<>> /\ S[1] = "device"
    BY <1>3
  <2> QED BY <2>1, <2>2, <2>3, <2>4, <2>5 DEF S, PublishFacts
<1> QED BY <1>1, <1>4, <1>5, <1>6, <1>7 DEF TableFacts

LEMMA LightProbeFacts == TableFacts("ap3216")
<1> DEFINE L == Load("ap3216")
<1>1. L = LightProbe /\ DOMAIN L = 1 .. 7 /\ Len(L) = 7 /\ IsSeq(L)
  BY DEF Load, LightProbe, Try, Use, Step, IsSeq, Entries
<1>2. /\ L[1].what = "try" /\ L[1].res = "chip" /\ L[1].undo = <<>>
      /\ L[2].what = "try" /\ L[2].res = "cdev_mem" /\ L[2].undo = <<>>
      /\ L[3].what = "use" /\ L[3].res = "cdev_mem" /\ L[3].undo = <<>>
      /\ L[4].what = "try" /\ L[4].res = "region" /\ L[4].undo = <<>>
      /\ L[5].what = "try" /\ L[5].res = "cdev" /\ L[5].undo = <<>>
      /\ L[6].what = "try" /\ L[6].res = "class" /\ L[6].undo = <<>>
      /\ L[7].what = "try" /\ L[7].res = "device" /\ L[7].undo = <<>>
  BY <1>1 DEF LightProbe, Try, Use, Step
<1>3. ASSUME NEW i \in DOMAIN L, Acquires(L[i])
      PROVE  \/ i = 1 /\ L[i].res = "chip"
             \/ i = 2 /\ L[i].res = "cdev_mem"
             \/ i = 4 /\ L[i].res = "region"
             \/ i = 5 /\ L[i].res = "cdev"
             \/ i = 6 /\ L[i].res = "class"
             \/ i = 7 /\ L[i].res = "device"
  <2>1. i = 1 \/ i = 2 \/ i = 3 \/ i = 4 \/ i = 5 \/ i = 6 \/ i = 7
    BY <1>1
  <2> QED BY <1>2, <1>3, <2>1 DEF Acquires
<1>4. LoadFacts("ap3216")
  <2> SUFFICES ASSUME NEW i \in DOMAIN L
               PROVE  /\ Acquires(L[i]) => L[i].res \notin Got("ap3216", i)
                      /\ Acquires(L[i]) => Needs("ap3216", L[i].res) \ {"class"} \subseteq Got("ap3216", i) \cap Firm("ap3216", i)
                      /\ L[i].res = "device" => L[i].what \in {"get", "try"} /\ "class" \in Got("ap3216", i)
                      /\ L[i].what = "use" => L[i].res \in Got("ap3216", i) \ {"class", "device"}
    BY DEF LoadFacts, Ordered, Checking
  <2>1. Acquires(L[i]) => L[i].res \notin Got("ap3216", i)
    BY <1>3 DEF Got
  <2>2. Acquires(L[i]) => Needs("ap3216", L[i].res) \ {"class"} \subseteq Got("ap3216", i) \cap Firm("ap3216", i)
    BY <1>1, <1>2 DEF Got, Firm, Acquires, Firmly, Needs
  <2>3. L[i].what = "use" => L[i].res \in Got("ap3216", i) \ {"class", "device"}
    BY <1>1, <1>2 DEF Got, Acquires
  <2>4. L[i].res = "device" => L[i].what \in {"get", "try"} /\ "class" \in Got("ap3216", i)
    <3>1. i = 1 \/ i = 2 \/ i = 3 \/ i = 4 \/ i = 5 \/ i = 6 \/ i = 7
      BY <1>1
    <3>2. L[i].res = "device" => i = 7
      BY <1>2, <3>1
    <3> QED BY <1>1, <1>2, <3>2 DEF Got, Acquires
  <2> QED BY <2>1, <2>2, <2>3, <2>4
<1>5. \A m \in DOMAIN L : ~Fails(L[m])
  BY <1>1, <1>2 DEF Fails
<1>6. UnloadFacts("ap3216")
  <2>1. FromLoaded("ap3216") = LightRemove
    BY DEF FromLoaded, ExitFirst, Unload, LightRemove
  <2>2. IsSeq(LightRemove)
    BY DEF LightRemove, IsSeq, Entries
  <2>3. InOrder("ap3216", Done("ap3216"), LightRemove)
    BY <1>1, <1>2 DEF InOrder, Got, Acquires, Before, Needs, Done, LightRemove
  <2>4. Safely(LightRemove, Full("ap3216", Done("ap3216")))
    BY <1>1, <1>2 DEF Safely, Full, Got, Acquires, Before, Done, LightRemove
  <2>5. Everything("ap3216", Done("ap3216"), LightRemove, Managed \cup Static \cup Litter("ap3216"))
    BY <1>1, <1>2 DEF Everything, Got, Acquires, Entries, Managed, Static, Done, LightRemove
  <2> QED BY <2>1, <2>2, <2>3, <2>4, <2>5 DEF UnloadFacts, Checking
<1>7. PublishFacts("ap3216")
  <2>1. "ap3216" \in ChecksDevice => "device" \in Firm("ap3216", Done("ap3216"))
    BY <1>1, <1>2 DEF ChecksDevice, Firm, Firmly, Done
  <2>2. ASSUME NEW i \in DOMAIN L, L[i].res = "device" PROVE i = Len(L)
    <3>1. i = 1 \/ i = 2 \/ i = 3 \/ i = 4 \/ i = 5 \/ i = 6 \/ i = 7
      BY <1>1
    <3> QED BY <1>1, <1>2, <2>2, <3>1
  <2>3. FileUses("ap3216") \ Unchecked("ap3216") \subseteq Firm("ap3216", Done("ap3216"))
    BY <1>1, <1>2 DEF FileUses, Unchecked, Firm, Firmly, Done
  <2>5. FileUses("ap3216") \subseteq Full("ap3216", Done("ap3216"))
    BY <1>1, <1>2 DEF FileUses, Full, Got, Acquires, Done
  <2>4. FromLoaded("ap3216") # <<>> /\ FromLoaded("ap3216")[1] = "device"
    BY DEF FromLoaded, ExitFirst, Unload, LightRemove
  <2> QED BY <2>1, <2>2, <2>3, <2>4, <2>5 DEF PublishFacts
<1> QED BY <1>1, <1>4, <1>5, <1>6, <1>7 DEF TableFacts

LEMMA MotionProbeFacts == TableFacts("icm20608")
<1> DEFINE L == Load("icm20608")
<1>1. L = MotionProbe /\ DOMAIN L = 1 .. 7 /\ Len(L) = 7 /\ IsSeq(L)
  BY DEF Load, MotionProbe, Try, Use, Step, IsSeq, Entries
<1>2. /\ L[1].what = "try" /\ L[1].res = "cdev_mem" /\ L[1].undo = <<>>
      /\ L[2].what = "use" /\ L[2].res = "cdev_mem" /\ L[2].undo = <<>>
      /\ L[3].what = "try" /\ L[3].res = "region" /\ L[3].undo = <<>>
      /\ L[4].what = "try" /\ L[4].res = "cdev" /\ L[4].undo = <<>>
      /\ L[5].what = "try" /\ L[5].res = "class" /\ L[5].undo = <<>>
      /\ L[6].what = "try" /\ L[6].res = "device" /\ L[6].undo = <<>>
      /\ L[7].what = "try" /\ L[7].res = "chip" /\ L[7].undo = <<>>
  BY <1>1 DEF MotionProbe, Try, Use, Step
<1>3. ASSUME NEW i \in DOMAIN L, Acquires(L[i])
      PROVE  \/ i = 1 /\ L[i].res = "cdev_mem"
             \/ i = 3 /\ L[i].res = "region"
             \/ i = 4 /\ L[i].res = "cdev"
             \/ i = 5 /\ L[i].res = "class"
             \/ i = 6 /\ L[i].res = "device"
             \/ i = 7 /\ L[i].res = "chip"
  <2>1. i = 1 \/ i = 2 \/ i = 3 \/ i = 4 \/ i = 5 \/ i = 6 \/ i = 7
    BY <1>1
  <2> QED BY <1>2, <1>3, <2>1 DEF Acquires
<1>4. LoadFacts("icm20608")
  <2> SUFFICES ASSUME NEW i \in DOMAIN L
               PROVE  /\ Acquires(L[i]) => L[i].res \notin Got("icm20608", i)
                      /\ Acquires(L[i]) => Needs("icm20608", L[i].res) \ {"class"} \subseteq Got("icm20608", i) \cap Firm("icm20608", i)
                      /\ L[i].res = "device" => L[i].what \in {"get", "try"} /\ "class" \in Got("icm20608", i)
                      /\ ~Fails(L[i])
                      /\ L[i].what = "use" => L[i].res \in Got("icm20608", i) \ {"class", "device"}
    BY DEF LoadFacts, Ordered, Checking
  <2>1. Acquires(L[i]) => L[i].res \notin Got("icm20608", i)
    BY <1>3 DEF Got
  <2>2. Acquires(L[i]) => Needs("icm20608", L[i].res) \ {"class"} \subseteq Got("icm20608", i) \cap Firm("icm20608", i)
    BY <1>1, <1>2 DEF Got, Firm, Acquires, Firmly, Needs
  <2>3. L[i].what = "use" => L[i].res \in Got("icm20608", i) \ {"class", "device"}
    BY <1>1, <1>2 DEF Got, Acquires
  <2>4. L[i].res = "device" => L[i].what \in {"get", "try"} /\ "class" \in Got("icm20608", i)
    <3>1. i = 1 \/ i = 2 \/ i = 3 \/ i = 4 \/ i = 5 \/ i = 6 \/ i = 7
      BY <1>1
    <3>2. L[i].res = "device" => i = 6
      BY <1>2, <3>1
    <3> QED BY <1>1, <1>2, <3>2 DEF Got, Acquires
  <2>5. ~Fails(L[i])
    BY <1>1, <1>2 DEF Fails
  <2> QED BY <2>1, <2>2, <2>3, <2>4, <2>5
<1>5. \A m \in DOMAIN L : ~Fails(L[m])
  BY <1>1, <1>2 DEF Fails
<1>6. UnloadFacts("icm20608")
  <2>1. FromLoaded("icm20608") = MotionRemove
    BY DEF FromLoaded, ExitFirst, Unload, MotionRemove
  <2>2. IsSeq(MotionRemove)
    BY DEF MotionRemove, IsSeq, Entries
  <2>3. InOrder("icm20608", Done("icm20608"), MotionRemove)
    BY <1>1, <1>2 DEF InOrder, Got, Acquires, Before, Needs, Done, MotionRemove
  <2>4. Safely(MotionRemove, Full("icm20608", Done("icm20608")))
    BY <1>1, <1>2 DEF Safely, Full, Got, Acquires, Before, Done, MotionRemove
  <2>5. Everything("icm20608", Done("icm20608"), MotionRemove, Managed \cup Static \cup Litter("icm20608"))
    BY <1>1, <1>2 DEF Everything, Got, Acquires, Entries, Managed, Static, Done, Litter, MotionRemove
  <2> QED BY <2>1, <2>2, <2>3, <2>4, <2>5 DEF UnloadFacts, Checking
<1>7. PublishFacts("icm20608")
  BY <1>1, <1>2 DEF PublishFacts, ChecksDevice, PublishesLast, Firm, Firmly, Done
<1> QED BY <1>1, <1>4, <1>5, <1>6, <1>7 DEF TableFacts

LEMMA AdcProbeFacts == TableFacts("adc")
<1> DEFINE L == Load("adc")
<1>1. L = AdcProbe /\ DOMAIN L = 1 .. 1 /\ Len(L) = 1 /\ IsSeq(L)
  BY DEF Load, AdcProbe, Get, Step, IsSeq, Entries
<1>2. /\ L[1].what = "get" /\ L[1].res = "channel" /\ L[1].undo = <<>>
  BY <1>1 DEF AdcProbe, Get, Step
<1>3. LoadFacts("adc")
  BY <1>1, <1>2 DEF LoadFacts, Got, Firm, Acquires, Firmly, Needs, Ordered, Checking, DriverNames
<1>4. ASSUME NEW m \in DOMAIN L, Fails(L[m]) PROVE UndoFacts("adc", m)
  <2> L[m].undo = <<>>
    BY <1>1, <1>2, <1>4 DEF Fails
  <2>1. IsSeq(<<>>)
    BY DEF IsSeq, Entries
  <2>2. InOrder("adc", m, L[m].undo)
    BY DEF InOrder
  <2>3. Safely(L[m].undo, Firm("adc", m))
    BY DEF Safely
  <2>4. Everything("adc", m, L[m].undo, Managed \cup Forgotten("adc"))
    BY <1>1, <1>2, <1>4 DEF Fails, Everything, Got, Acquires, Entries, Managed, Forgotten
  <2> QED BY <2>1, <2>2, <2>3, <2>4 DEF UndoFacts
<1>5. UnloadFacts("adc")
  <2>1. FromLoaded("adc") = AdcRemove
    BY DEF FromLoaded, ExitFirst, Unload, AdcRemove
  <2>2. IsSeq(AdcRemove)
    BY DEF AdcRemove, IsSeq, Entries
  <2>3. InOrder("adc", Done("adc"), AdcRemove)
    BY <1>1, <1>2 DEF InOrder, Got, Acquires, Before, Needs, Done, AdcRemove
  <2>4. Safely(AdcRemove, Full("adc", Done("adc")))
    BY <1>1, <1>2 DEF Safely, Full, Got, Acquires, Before, Done, AdcRemove
  <2>5. Safely(AdcRemove, Firm("adc", Done("adc")))
    BY <1>1, <1>2 DEF Safely, Firm, Firmly, Before, Done, AdcRemove
  <2>6. Everything("adc", Done("adc"), AdcRemove, Managed \cup Static \cup Litter("adc"))
    BY <1>1, <1>2 DEF Everything, Got, Acquires, Entries, Managed, Static, Done, AdcRemove
  <2> QED BY <2>1, <2>2, <2>3, <2>4, <2>5, <2>6 DEF UnloadFacts
<1>6. PublishFacts("adc")
  BY <1>1, <1>2 DEF PublishFacts, ChecksDevice, PublishesLast, Firm, Firmly, Done
<1> QED BY <1>1, <1>3, <1>4, <1>5, <1>6 DEF TableFacts

\* Every driver's tables have them.
LEMMA Tables == \A d \in DriverNames : TableFacts(d)
BY BlockingInitFacts, SpinlockInitFacts, SignalInitFacts, SemInitFacts, PwmProbeFacts,
   DtbProbeFacts, WorkProbeFacts, IrqProbeFacts, InputProbeFacts, PlatformProbeFacts,
   WireInitFacts, SimpleProbeFacts, LightProbeFacts, MotionProbeFacts, AdcProbeFacts
   DEF DriverNames

\* What a load has acquired, at the first place, at the next and at the end.
LEMMA GotProperties ==
  ASSUME NEW d \in DriverNames
  PROVE  /\ Got(d, 1) = {} /\ Firm(d, 1) = {}
         /\ \A k \in DOMAIN Load(d) :
              /\ Got(d, k) \subseteq Got(d, Done(d))
              /\ Got(d, k + 1) = Got(d, k) \cup (IF Acquires(Load(d)[k]) THEN {Load(d)[k].res} ELSE {})
              /\ Firm(d, k + 1) = Firm(d, k) \cup (IF Firmly(Load(d)[k]) THEN {Load(d)[k].res} ELSE {})
              /\ Got(d, k + 1) \subseteq Got(d, Done(d))
         /\ Got(d, Done(d)) \subseteq Kinds(d)
<1>1. Len(Load(d)) \in Nat /\ DOMAIN Load(d) = 1 .. Len(Load(d))
  BY Tables, LenProperties DEF TableFacts, IsSeq
<1>2. Got(d, 1) = {} /\ Firm(d, 1) = {}
  BY <1>1 DEF Got, Firm
<1>3. ASSUME NEW k \in DOMAIN Load(d)
      PROVE  /\ Got(d, k + 1) = Got(d, k) \cup (IF Acquires(Load(d)[k]) THEN {Load(d)[k].res} ELSE {})
             /\ Firm(d, k + 1) = Firm(d, k) \cup (IF Firmly(Load(d)[k]) THEN {Load(d)[k].res} ELSE {})
             /\ Got(d, k) \subseteq Got(d, Done(d))
             /\ Got(d, k + 1) \subseteq Got(d, Done(d))
  <2>1. \A j \in DOMAIN Load(d) : j < k + 1 <=> j < k \/ j = k
    BY <1>1
  <2>2. \A j \in DOMAIN Load(d) : j < Done(d)
    BY <1>1 DEF Done
  <2>3. Got(d, k + 1) = Got(d, k) \cup (IF Acquires(Load(d)[k]) THEN {Load(d)[k].res} ELSE {})
    BY <2>1 DEF Got
  <2>4. Firm(d, k + 1) = Firm(d, k) \cup (IF Firmly(Load(d)[k]) THEN {Load(d)[k].res} ELSE {})
    BY <2>1 DEF Firm
  <2> QED BY <2>2, <2>3, <2>4 DEF Got
<1>4. Got(d, Done(d)) \subseteq Kinds(d)
  BY DEF Got, Kinds
<1> QED BY <1>2, <1>3, <1>4

-----------------------------------------------------------------------------
\* The state variables are functions on the drivers, and which drivers there are
\* does not change.
Shape ==
  /\ phase \in [DriverNames -> Phases]
  /\ todo   = [d \in DriverNames |-> todo[d]]
  /\ held   = [d \in DriverNames |-> held[d]]
  /\ gone   = [d \in DriverNames |-> gone[d]]
  /\ leaked = [d \in DriverNames |-> leaked[d]]
  /\ open \in [DriverNames -> BOOLEAN]
  /\ {d \in DriverNames : phase[d] # "absent"} \in (IF faulty THEN FaultyCrews ELSE Crews)

\* The load of d is at step k.
LoadingAt(d, k) ==
  /\ todo[d] = Rest(Load(d), k)
  /\ Firm(d, k) \subseteq held[d]
  /\ held[d] \subseteq Got(d, k)

\* d releases what s lists, is at place k of it, and began when its load was at
\* step m.  The last conjunct says that nothing it certainly had was passed twice.
ReleasingAt(d, m, s, k) ==
  /\ todo[d] = Rest(s, k)
  /\ held[d] \subseteq Got(d, m)
  /\ held[d] \cap Before(s, k) = {}
  /\ gone[d] \subseteq Before(s, k)
  /\ Firm(d, m) \subseteq held[d] \cup gone[d]
  /\ \A i, j \in DOMAIN s : i < j /\ j < k /\ s[i] = s[j] => s[i] \notin Firm(d, m)

Releasing(d, m, s) ==
  \E k \in Nat : 0 < k /\ k <= Len(s) + 1 /\ ReleasingAt(d, m, s, k)

Settled(d) ==
  /\ held[d] \cup gone[d] \cup leaked[d] \subseteq Got(d, Done(d))
  /\ held[d] \cap gone[d] = {}
  /\ phase[d] \notin {"loading", "undoing", "unloading"} => todo[d] = <<>>
  /\ phase[d] \in {"absent", "out"} => held[d] = {}
  /\ phase[d] = "unbound" /\ d \in Tidy => held[d] = {}

InLoad(d) ==
  phase[d] = "loading" =>
    /\ gone[d] = {}
    /\ \E k \in Nat : 0 < k /\ k <= Done(d) /\ LoadingAt(d, k)

AfterLoad(d) ==
  phase[d] = "loaded" => gone[d] = {} /\ Firm(d, Done(d)) \subseteq held[d]

InUndo(d) ==
  phase[d] = "undoing" =>
    \E m \in DOMAIN Load(d) : Fails(Load(d)[m]) /\ Releasing(d, m, Load(d)[m].undo)

\* A driver that was bound releases the list of its unload; one that was not has
\* nothing to release, but for the exit function of simple_io.
InUnload(d) ==
  phase[d] = "unloading" =>
    \/ Releasing(d, Done(d), FromLoaded(d))
    \/ /\ d \in Tidy => held[d] = {}
       /\ todo[d] = <<>> \/ d = "simple_io"

Base(d) == Settled(d) /\ InLoad(d) /\ AfterLoad(d) /\ InUndo(d) /\ InUnload(d)

BaseInv == Shape /\ \A d \in DriverNames : Base(d)

-----------------------------------------------------------------------------
\* The state of e is the same after the step.
Same(e) ==
  /\ phase'[e] = phase[e] /\ todo'[e] = todo[e] /\ held'[e] = held[e]
  /\ gone'[e] = gone[e] /\ leaked'[e] = leaked[e] /\ open'[e] = open[e]

Acts(d) == Insmod(d) \/ LoadStep(d) \/ Loaded(d) \/ Rmmod(d) \/ Release(d) \/ End(d) \/ Open(d) \/ Close(d)

\* A step of one driver leaves the state of the others alone.
LEMMA Frame ==
  ASSUME Shape, UNCHANGED faulty, NEW d \in DriverNames, Acts(d)
  PROVE  Shape' /\ \A e \in DriverNames \ {d} : Same(e)
<1> USE DEF Shape, Same, Enter, Oops, Phases
<1>1. CASE Insmod(d)
  BY <1>1 DEF Insmod
<1>2. CASE LoadStep(d)
  BY <1>2 DEF LoadStep
<1>3. CASE Loaded(d)
  BY <1>3 DEF Loaded
<1>4. CASE Rmmod(d)
  BY <1>4 DEF Rmmod
<1>5. CASE Release(d)
  BY <1>5 DEF Release
<1>6. CASE End(d)
  <2>1. CASE phase[d] = "undoing" /\ d \in OnBus
    BY <1>6, <2>1 DEF End
  <2>2. CASE ~(phase[d] = "undoing" /\ d \in OnBus)
    BY <1>6, <2>2 DEF End
  <2> QED BY <2>1, <2>2
<1>7. CASE Open(d)
  BY <1>7 DEF Open
<1>8. CASE Close(d)
  BY <1>8 DEF Close
<1> QED BY <1>1, <1>2, <1>3, <1>4, <1>5, <1>6, <1>7, <1>8 DEF Acts

\* A driver whose state did not change satisfies the invariant as before.
LEMMA SameBase ==
  ASSUME NEW e \in DriverNames, Base(e), Same(e)
  PROVE  Base(e)'
BY DEF Same, Base, Settled, InLoad, AfterLoad, InUndo, InUnload, LoadingAt, Releasing, ReleasingAt

\* The release of r = s[k], the next thing on the list: either r was released
\* before, or is a node whose class is gone, or the driver is one place further.
LEMMA ReleaseStep ==
  ASSUME Shape, NEW d \in DriverNames, NEW m, NEW s, IsSeq(s),
         NEW k \in Nat, 0 < k, k <= Len(s) + 1, ReleasingAt(d, m, s, k), Release(d)
  PROVE  /\ k \in DOMAIN s /\ k + 1 <= Len(s) + 1
         /\ \/ /\ s[k] \in gone[d] \/ (s[k] = "device" /\ "class" \notin held[d])
               /\ Oops(d)
            \/ /\ s[k] \notin gone[d] /\ (s[k] = "device" => "class" \in held[d])
               /\ phase'[d] = phase[d] /\ held'[d] = held[d] \ {s[k]}
               /\ gone'[d] = gone[d] \cup ({s[k]} \cap held[d])
               /\ leaked'[d] = leaked[d] /\ open'[d] = open[d]
               /\ ReleasingAt(d, m, s, k + 1)'
<1>1. /\ k \in DOMAIN s /\ k + 1 <= Len(s) + 1
      /\ Head(todo[d]) = s[k] /\ Tail(todo[d]) = Rest(s, k + 1)
  <2>1. Len(s) \in Nat
    BY LenProperties DEF IsSeq
  <2> QED BY <2>1, RestProperties DEF Release, ReleasingAt
<1>2. CASE s[k] \in gone[d] \/ (s[k] = "device" /\ "class" \notin held[d])
  BY <1>1, <1>2 DEF Release
<1>3. CASE ~(s[k] \in gone[d] \/ (s[k] = "device" /\ "class" \notin held[d]))
  <2>1. /\ phase'[d] = phase[d] /\ todo'[d] = Rest(s, k + 1)
        /\ held'[d] = held[d] \ {s[k]}
        /\ gone'[d] = gone[d] \cup ({s[k]} \cap held[d])
        /\ leaked'[d] = leaked[d] /\ open'[d] = open[d]
    BY <1>1, <1>3 DEF Release, Enter, Shape
  <2>2. Before(s, k + 1) = Before(s, k) \cup {s[k]}
    BY <1>1, BeforeProperties
  <2>3. /\ held'[d] \subseteq Got(d, m) /\ held'[d] \cap Before(s, k + 1) = {}
        /\ gone'[d] \subseteq Before(s, k + 1) /\ Firm(d, m) \subseteq held'[d] \cup gone'[d]
    BY <2>1, <2>2 DEF ReleasingAt
  <2>4. ASSUME NEW i \in DOMAIN s, NEW j \in DOMAIN s, i < j, j < k + 1, s[i] = s[j]
        PROVE  s[i] \notin Firm(d, m)
    <3>1. i \in Nat /\ j \in Nat /\ (j < k \/ j = k)
      BY <2>4, LenProperties DEF IsSeq
    <3>2. CASE j < k
      BY <2>4, <3>2 DEF ReleasingAt
    <3>3. CASE j = k
      BY <1>3, <2>4, <3>3 DEF ReleasingAt, Before
    <3> QED BY <3>1, <3>2, <3>3
  <2> QED BY <1>1, <1>3, <2>1, <2>3, <2>4 DEF ReleasingAt
<1> QED BY <1>2, <1>3, <1>1

\* Each action, in turn, keeps the invariant of the driver that takes it.
LEMMA InsmodBase ==
  ASSUME BaseInv, NEW d \in DriverNames, Insmod(d)
  PROVE  Base(d)'
<1> USE DEF BaseInv, Base, Settled
<1>1. /\ todo'[d] = (IF phase'[d] = "loading" THEN Load(d) ELSE <<>>)
      /\ phase'[d] \in {"loading", "unbound"}
      /\ held'[d] = {} /\ gone'[d] = {} /\ leaked'[d] = leaked[d]
  BY DEF Insmod, Enter, Shape
<1>2. Settled(d)'
  BY <1>1
<1>3. InLoad(d)'
  <2>1. Len(Load(d)) \in Nat
    BY Tables, LenProperties DEF TableFacts, IsSeq
  <2>2. phase'[d] = "loading" => LoadingAt(d, 1)'
    BY <1>1, Tables, RestAll, GotProperties DEF TableFacts, LoadingAt
  <2> QED BY <1>1, <2>1, <2>2 DEF InLoad, Done
<1> QED BY <1>1, <1>2, <1>3 DEF AfterLoad, InUndo, InUnload

\* The three outcomes of a step of a load that is at step k.
LEMMA LoadStepCases ==
  ASSUME Shape, NEW d \in DriverNames, NEW k \in Nat, 0 < k, k <= Done(d), LoadingAt(d, k), LoadStep(d)
  PROVE  /\ k \in DOMAIN Load(d) /\ k + 1 \in Nat /\ k + 1 <= Done(d)
         /\ gone'[d] = gone[d] /\ leaked'[d] = leaked[d] /\ open'[d] = open[d]
         /\ LET step == Load(d)[k] IN
              \/ /\ ~MustFail(d, step) /\ (step.what = "use" => step.res \in held[d])
                 /\ phase'[d] = "loading" /\ todo'[d] = Rest(Load(d), k + 1)
                 /\ held'[d] = held[d] \cup (IF Acquires(step) THEN {step.res} ELSE {})
              \/ /\ step.what = "try" /\ MayFail(d, step)
                 /\ phase'[d] = "loading" /\ todo'[d] = Rest(Load(d), k + 1) /\ held'[d] = held[d]
              \/ /\ Fails(step) /\ MayFail(d, step)
                 /\ phase'[d] = "undoing" /\ todo'[d] = step.undo /\ held'[d] = held[d]
              \/ /\ step.what = "use" /\ step.res \notin held[d]
                 /\ phase'[d] = "oops" /\ todo'[d] = <<>> /\ held'[d] = held[d]
<1>1. IsSeq(Load(d)) /\ Len(Load(d)) \in Nat
  BY Tables, LenProperties DEF TableFacts, IsSeq
<1>2. /\ k \in DOMAIN Load(d) /\ k <= Len(Load(d))
      /\ Head(todo[d]) = Load(d)[k] /\ Tail(todo[d]) = Rest(Load(d), k + 1)
  BY <1>1, RestProperties DEF LoadStep, LoadingAt, Done
<1>3. k + 1 \in Nat /\ k + 1 <= Done(d)
  BY <1>1, <1>2 DEF Done
<1>4. gone'[d] = gone[d] /\ leaked'[d] = leaked[d] /\ open'[d] = open[d]
  BY DEF LoadStep, Oops
<1> DEFINE step == Load(d)[k]
<1>5. CASE /\ ~MustFail(d, step)
           /\ step.what = "use" => step.res \in held[d]
           /\ Enter(d, "loading", Tail(todo[d]))
           /\ held' = IF step.what \in {"get", "try", "sure"}
                      THEN [held EXCEPT ![d] = @ \cup {step.res}] ELSE held
  <2>1. held'[d] = held[d] \cup (IF Acquires(step) THEN {step.res} ELSE {})
    BY <1>5 DEF Acquires, Shape
  <2> QED BY <1>2, <1>3, <1>4, <1>5, <2>1 DEF Enter, Shape
<1>6. CASE /\ MayFail(d, step)
           /\ IF step.what = "try" THEN Enter(d, "loading", Tail(todo[d]))
                                   ELSE Enter(d, "undoing", step.undo)
           /\ UNCHANGED <<held, gone, leaked, open>>
  <2>1. step.what # "try" => Fails(step)
    BY <1>6 DEF MayFail, MustFail, Fails
  <2> QED BY <1>2, <1>3, <1>4, <1>6, <2>1 DEF Enter, Shape
<1>7. CASE step.what = "use" /\ step.res \notin held[d] /\ Oops(d)
  BY <1>2, <1>3, <1>4, <1>7 DEF Oops, Enter, Shape
<1> QED BY <1>2, <1>5, <1>6, <1>7 DEF LoadStep

LEMMA LoadStepBase ==
  ASSUME BaseInv, NEW d \in DriverNames, LoadStep(d)
  PROVE  Base(d)'
<1>1. gone[d] = {} /\ Settled(d) /\ Shape
  BY DEF BaseInv, Base, InLoad, LoadStep
<1>2. PICK k \in Nat : 0 < k /\ k <= Done(d) /\ LoadingAt(d, k)
  BY DEF BaseInv, Base, InLoad, LoadStep
<1> DEFINE step == Load(d)[k]
<1>3. /\ k \in DOMAIN Load(d) /\ k + 1 \in Nat /\ 0 < k + 1 /\ k + 1 <= Done(d)
      /\ gone'[d] = {} /\ leaked'[d] = leaked[d]
  BY <1>1, <1>2, LoadStepCases
<1>4. /\ Got(d, k) \subseteq Got(d, Done(d)) /\ Got(d, k + 1) \subseteq Got(d, Done(d))
      /\ Got(d, k + 1) = Got(d, k) \cup (IF Acquires(step) THEN {step.res} ELSE {})
      /\ Firm(d, k + 1) = Firm(d, k) \cup (IF Firmly(step) THEN {step.res} ELSE {})
  BY <1>3, GotProperties
<1>5. ASSUME phase'[d] = "loading", todo'[d] = Rest(Load(d), k + 1),
             Firm(d, k + 1) \subseteq held'[d], held'[d] \subseteq Got(d, k + 1)
      PROVE  Base(d)'
  <2>1. LoadingAt(d, k + 1)'
    BY <1>5 DEF LoadingAt
  <2>2. Settled(d)'
    BY <1>1, <1>3, <1>4, <1>5 DEF Settled
  <2> QED BY <1>3, <1>5, <2>1, <2>2 DEF Base, InLoad, AfterLoad, InUndo, InUnload
<1>6. CASE /\ ~MustFail(d, step) /\ (step.what = "use" => step.res \in held[d])
           /\ phase'[d] = "loading" /\ todo'[d] = Rest(Load(d), k + 1)
           /\ held'[d] = held[d] \cup (IF Acquires(step) THEN {step.res} ELSE {})
  BY <1>2, <1>4, <1>5, <1>6 DEF LoadingAt, Acquires, Firmly
<1>7. CASE /\ step.what = "try"
           /\ phase'[d] = "loading" /\ todo'[d] = Rest(Load(d), k + 1) /\ held'[d] = held[d]
  BY <1>2, <1>4, <1>5, <1>7 DEF LoadingAt, Acquires, Firmly
<1>8. CASE Fails(step) /\ phase'[d] = "undoing" /\ todo'[d] = step.undo /\ held'[d] = held[d]
  <2>1. IsSeq(step.undo)
    BY <1>3, <1>8, Tables DEF TableFacts, UndoFacts
  <2>2. Firm(d, k) \subseteq held'[d] /\ held'[d] \subseteq Got(d, k)
    BY <1>2, <1>8 DEF LoadingAt
  <2>3. Releasing(d, k, step.undo)'
    <3>1. /\ Rest(step.undo, 1) = step.undo /\ Before(step.undo, 1) = {} /\ Len(step.undo) \in Nat
          /\ DOMAIN step.undo = 1 .. Len(step.undo)
      BY <2>1, RestAll, BeforeProperties, LenProperties DEF IsSeq
    <3>2. ReleasingAt(d, k, step.undo, 1)'
      BY <1>3, <1>8, <2>2, <3>1 DEF ReleasingAt
    <3> QED BY <3>1, <3>2 DEF Releasing
  <2>4. Settled(d)'
    BY <1>1, <1>3, <1>8 DEF Settled
  <2> QED BY <1>3, <1>8, <2>3, <2>4 DEF Base, InLoad, AfterLoad, InUndo, InUnload
<1>9. CASE phase'[d] = "oops" /\ todo'[d] = <<>> /\ held'[d] = held[d]
  BY <1>1, <1>3, <1>9 DEF Base, Settled, InLoad, AfterLoad, InUndo, InUnload
<1> QED BY <1>1, <1>2, <1>6, <1>7, <1>8, <1>9, LoadStepCases

LEMMA LoadedBase ==
  ASSUME BaseInv, NEW d \in DriverNames, Loaded(d)
  PROVE  Base(d)'
<1>1. gone[d] = {} /\ Settled(d) /\ Shape
  BY DEF BaseInv, Base, InLoad, Loaded
<1>2. PICK k \in Nat : 0 < k /\ k <= Done(d) /\ LoadingAt(d, k)
  BY DEF BaseInv, Base, InLoad, Loaded
<1>3. k = Done(d)
  <2>1. IsSeq(Load(d)) /\ Len(Load(d)) \in Nat
    BY Tables, LenProperties DEF TableFacts, IsSeq
  <2> QED BY <1>2, <2>1, RestProperties DEF Loaded, LoadingAt, Done
<1>4. /\ phase'[d] = "loaded" /\ todo'[d] = <<>>
      /\ held'[d] = held[d] /\ gone'[d] = gone[d] /\ leaked'[d] = leaked[d]
  BY <1>1 DEF Loaded, Enter, Shape
<1> QED BY <1>1, <1>2, <1>3, <1>4 DEF Base, Settled, InLoad, AfterLoad, InUndo, InUnload, LoadingAt

\* What rmmod sets out to release.
LEMMA RmmodList ==
  ASSUME BaseInv, NEW d \in DriverNames, Rmmod(d)
  PROVE  /\ phase'[d] = "unloading"
         /\ held'[d] = held[d] /\ gone'[d] = gone[d] /\ leaked'[d] = leaked[d] /\ open'[d] = open[d]
         /\ phase[d] = "loaded" => todo'[d] = FromLoaded(d)
         /\ phase[d] = "unbound" /\ (d # "simple_io" \/ held[d] \cup gone[d] = {}) => todo'[d] = <<>>
<1>1. /\ phase'[d] = "unloading"
      /\ held'[d] = held[d] /\ gone'[d] = gone[d] /\ leaked'[d] = leaked[d] /\ open'[d] = open[d]
      /\ todo'[d] = (IF "state" \in held[d] \cup gone[d] THEN ExitFirst(d) ELSE <<>>)
                     \o (IF phase[d] = "loaded" THEN Unload(d) ELSE <<>>)
  BY DEF Rmmod, Enter, BaseInv, Shape
<1>2. CASE d = "simple_io"
  <2>1. phase[d] = "loaded" => "state" \in held[d]
    <3>1. "state" \in Firm("simple_io", Done("simple_io"))
      BY Tables, <1>2 DEF TableFacts, PublishFacts, PublishesLast, FileUses, Unchecked
    <3> QED BY <1>2, <3>1 DEF BaseInv, Base, AfterLoad
  <2>2. <<>> \o <<>> = <<>>
    OBVIOUS
  <2> QED BY <1>1, <1>2, <2>1, <2>2 DEF FromLoaded
<1>3. CASE d # "simple_io"
  <2>1. ExitFirst(d) = <<>>
    BY <1>3 DEF ExitFirst
  <2>2. <<>> \o <<>> = <<>>
    OBVIOUS
  <2> QED BY <1>1, <1>3, <2>1, <2>2 DEF FromLoaded, Rmmod
<1> QED BY <1>2, <1>3

\* An unload begins at the first place of its list.
LEMMA RmmodReleases ==
  ASSUME BaseInv, NEW d \in DriverNames, Rmmod(d), phase[d] = "loaded"
  PROVE  Releasing(d, Done(d), FromLoaded(d))'
<1> DEFINE s == FromLoaded(d)
<1>1. IsSeq(s)
  BY Tables DEF TableFacts, UnloadFacts
<1>2. Rest(s, 1) = s /\ Before(s, 1) = {} /\ Len(s) \in Nat /\ DOMAIN s = 1 .. Len(s)
  BY <1>1, RestAll, BeforeProperties, LenProperties DEF IsSeq
<1>3. gone[d] = {} /\ Firm(d, Done(d)) \subseteq held[d] /\ held[d] \subseteq Got(d, Done(d))
  BY DEF BaseInv, Base, AfterLoad, Settled
<1>4. ReleasingAt(d, Done(d), s, 1)'
  BY <1>2, <1>3, RmmodList DEF ReleasingAt
<1> QED BY <1>2, <1>4 DEF Releasing

LEMMA RmmodBase ==
  ASSUME BaseInv, NEW d \in DriverNames, Rmmod(d)
  PROVE  Base(d)'
<1>1. Settled(d) /\ AfterLoad(d) /\ phase[d] \in {"loaded", "unbound"}
  BY DEF BaseInv, Base, Rmmod
<1>2. Settled(d)'
  BY <1>1, RmmodList DEF Settled
<1>3. CASE phase[d] = "loaded"
  BY <1>2, <1>3, RmmodList, RmmodReleases DEF Base, InLoad, AfterLoad, InUndo, InUnload
<1>4. CASE phase[d] = "unbound"
  <2>1. (d \in Tidy => held'[d] = {}) /\ (todo'[d] = <<>> \/ d = "simple_io")
    BY <1>1, <1>4, RmmodList DEF Settled
  <2> QED BY <1>2, <2>1, RmmodList DEF Base, InLoad, AfterLoad, InUndo, InUnload
<1> QED BY <1>1, <1>3, <1>4

LEMMA ReleaseBase ==
  ASSUME BaseInv, NEW d \in DriverNames, Release(d)
  PROVE  Base(d)'
<1>1. Settled(d) /\ InUndo(d) /\ InUnload(d) /\ Shape
  BY DEF BaseInv, Base
<1>2. ASSUME NEW m, NEW s, IsSeq(s), Releasing(d, m, s)
      PROVE  /\ phase'[d] = "oops" \/ (phase'[d] = phase[d] /\ Releasing(d, m, s)')
             /\ Settled(d)'
  <2>1. PICK k \in Nat : 0 < k /\ k <= Len(s) + 1 /\ ReleasingAt(d, m, s, k)
    BY <1>2 DEF Releasing
  <2>2. Len(s) \in Nat
    BY <1>2, LenProperties DEF IsSeq
  <2>3. CASE Oops(d)
    BY <1>1, <2>3 DEF Oops, Enter, Shape, Settled
  <2>4. CASE /\ k \in DOMAIN s /\ k + 1 <= Len(s) + 1
             /\ phase'[d] = phase[d] /\ held'[d] = held[d] \ {s[k]}
             /\ gone'[d] = gone[d] \cup ({s[k]} \cap held[d])
             /\ leaked'[d] = leaked[d] /\ open'[d] = open[d]
             /\ ReleasingAt(d, m, s, k + 1)'
    <3>1. Releasing(d, m, s)'
      BY <2>1, <2>4 DEF Releasing
    <3> QED BY <1>1, <2>4, <3>1 DEF Settled, Release
  <2>5. /\ k \in DOMAIN s /\ k + 1 <= Len(s) + 1
        /\ \/ /\ s[k] \in gone[d] \/ (s[k] = "device" /\ "class" \notin held[d])
              /\ Oops(d)
           \/ /\ s[k] \notin gone[d] /\ (s[k] = "device" => "class" \in held[d])
              /\ phase'[d] = phase[d] /\ held'[d] = held[d] \ {s[k]}
              /\ gone'[d] = gone[d] \cup ({s[k]} \cap held[d])
              /\ leaked'[d] = leaked[d] /\ open'[d] = open[d]
              /\ ReleasingAt(d, m, s, k + 1)'
    BY <1>1, <1>2, <2>1, ReleaseStep
  <2> QED BY <2>3, <2>4, <2>5
<1>3. CASE phase[d] = "undoing"
  <2>1. PICK m \in DOMAIN Load(d) : Fails(Load(d)[m]) /\ Releasing(d, m, Load(d)[m].undo)
    BY <1>1, <1>3 DEF InUndo
  <2>2. IsSeq(Load(d)[m].undo)
    BY <2>1, Tables DEF TableFacts, UndoFacts
  <2> QED BY <1>2, <1>3, <2>1, <2>2 DEF Base, InLoad, AfterLoad, InUndo, InUnload
<1>4. CASE phase[d] = "unloading" /\ Releasing(d, Done(d), FromLoaded(d))
  <2>1. IsSeq(FromLoaded(d))
    BY Tables DEF TableFacts, UnloadFacts
  <2> QED BY <1>2, <1>4, <2>1 DEF Base, InLoad, AfterLoad, InUndo, InUnload
<1>5. CASE phase[d] = "unloading" /\ d = "simple_io" /\ held[d] = {}
  <2>1. CASE Oops(d)
    BY <1>1, <1>5, <2>1 DEF Oops, Enter, Shape, Base, Settled, InLoad, AfterLoad, InUndo, InUnload
  <2>2. CASE ~Oops(d)
    <3>1. /\ phase'[d] = "unloading" /\ held'[d] = {} /\ gone'[d] = gone[d]
          /\ leaked'[d] = leaked[d]
      <4> DEFINE r == Head(todo[d])
      <4>1. /\ Enter(d, phase[d], Tail(todo[d]))
            /\ held' = [held EXCEPT ![d] = @ \ {r}]
            /\ gone' = [gone EXCEPT ![d] = @ \cup ({r} \cap held[d])]
            /\ UNCHANGED <<leaked, open>>
        BY <2>2 DEF Release
      <4>2. held'[d] = held[d] \ {r} /\ gone'[d] = gone[d] \cup ({r} \cap held[d])
        BY <1>1, <4>1 DEF Shape
      <4> QED BY <1>1, <1>5, <4>1, <4>2 DEF Enter, Shape
    <3> QED BY <1>1, <1>5, <3>1 DEF Base, Settled, InLoad, AfterLoad, InUndo, InUnload
  <2> QED BY <2>1, <2>2
<1> QED BY <1>1, <1>3, <1>4, <1>5 DEF Release, InUnload, Tidy, Undoing

\* At the end of a list everything on it is released.
LEMMA ReleasedAll ==
  ASSUME NEW d \in DriverNames, NEW m, NEW s, IsSeq(s), Releasing(d, m, s), todo[d] = <<>>
  PROVE  /\ held[d] \subseteq Got(d, m) \ Entries(s)
         /\ \A i, j \in DOMAIN s : i < j /\ s[i] = s[j] => s[i] \notin Firm(d, m)
<1>1. PICK k \in Nat : 0 < k /\ k <= Len(s) + 1 /\ ReleasingAt(d, m, s, k)
  BY DEF Releasing
<1>2. Len(s) \in Nat /\ DOMAIN s = 1 .. Len(s)
  BY LenProperties DEF IsSeq
<1>3. k = Len(s) + 1
  BY <1>1, <1>2, RestProperties DEF ReleasingAt
<1>4. \A j \in DOMAIN s : j < k
  BY <1>2, <1>3
<1> QED BY <1>1, <1>3, <1>4, BeforeProperties DEF ReleasingAt

\* A load that fails leaves a driver that undoes only what it may keep.
LEMMA UndoneAll ==
  ASSUME BaseInv, NEW d \in Tidy, phase[d] = "undoing", todo[d] = <<>>
  PROVE  held[d] \subseteq Managed \cup Forgotten(d)
<1>1. d \in DriverNames
  BY DEF Tidy, Undoing, PublishesLast, DriverNames
<1>2. PICK m \in DOMAIN Load(d) : Fails(Load(d)[m]) /\ Releasing(d, m, Load(d)[m].undo)
  BY <1>1 DEF BaseInv, Base, InUndo
<1>3. UndoFacts(d, m)
  BY <1>1, <1>2, Tables DEF TableFacts
<1> QED BY <1>1, <1>2, <1>3, ReleasedAll DEF UndoFacts, Everything

\* What an end does to the driver.
LEMMA EndCases ==
  ASSUME Shape, NEW d \in DriverNames, End(d)
  PROVE  /\ todo[d] = <<>> /\ todo'[d] = <<>> /\ gone'[d] = gone[d] /\ open'[d] = open[d]
         /\ \/ /\ phase[d] = "undoing" /\ d \in OnBus /\ phase'[d] = "unbound"
               /\ held'[d] = held[d] \ Managed /\ leaked'[d] = leaked[d]
            \/ /\ phase[d] = "unloading" \/ (phase[d] = "undoing" /\ d \notin OnBus)
               /\ phase'[d] = "out" /\ held'[d] = {}
               /\ leaked'[d] = leaked[d] \cup (held[d] \ (Managed \cup Static))
<1>1. CASE phase[d] = "undoing" /\ d \in OnBus
  BY <1>1 DEF End, Enter, Shape
<1>2. CASE ~(phase[d] = "undoing" /\ d \in OnBus)
  BY <1>2 DEF End, Enter, Shape
<1> QED BY <1>1, <1>2

LEMMA EndBase ==
  ASSUME BaseInv, NEW d \in DriverNames, End(d)
  PROVE  Base(d)'
<1>1. Settled(d) /\ Shape
  BY DEF BaseInv, Base
<1>2. d \in Tidy /\ d \in OnBus /\ phase[d] = "undoing" => held[d] \subseteq Managed
  BY <1>1, EndCases, UndoneAll DEF OnBus, Forgotten
<1>3. Settled(d)'
  BY <1>1, <1>2, EndCases DEF Settled
<1> QED BY <1>1, <1>3, EndCases DEF Base, InLoad, AfterLoad, InUndo, InUnload

LEMMA OpenCloseBase ==
  ASSUME BaseInv, NEW d \in DriverNames, Open(d) \/ Close(d)
  PROVE  Base(d)'
<1>1. /\ phase'[d] = phase[d] /\ todo'[d] = todo[d] /\ held'[d] = held[d]
      /\ gone'[d] = gone[d] /\ leaked'[d] = leaked[d]
  BY DEF Open, Close
<1> QED BY <1>1 DEF BaseInv, Base, Settled, InLoad, AfterLoad, InUndo, InUnload,
                    LoadingAt, Releasing, ReleasingAt

\* The kernel starts with no driver holding anything.
LEMMA InitBase == Init => BaseInv
<1> SUFFICES ASSUME Init PROVE BaseInv
  OBVIOUS
<1>1. PICK crew \in (IF faulty THEN FaultyCrews ELSE Crews) :
        phase = [d \in DriverNames |-> IF d \in crew THEN "out" ELSE "absent"]
  BY DEF Init
<1>2. {d \in DriverNames : phase[d] # "absent"} = crew
  BY <1>1, CrewsAssumption
<1>3. Shape
  BY <1>1, <1>2 DEF Init, Shape, Phases
<1>4. ASSUME NEW d \in DriverNames PROVE Base(d)
  BY <1>1 DEF Init, Base, Settled, InLoad, AfterLoad, InUndo, InUnload
<1> QED BY <1>3, <1>4 DEF BaseInv

\* Each step but those of a driver that crashed is an action of one driver.
LEMMA NextCases ==
  ASSUME [Next]_vars
  PROVE  UNCHANGED vars \/ (UNCHANGED faulty /\ \E d \in DriverNames : Acts(d))
BY DEF Next, Acts, Crashed

\* Every step keeps the invariant of every driver.
LEMMA NextBase == BaseInv /\ [Next]_vars => BaseInv'
<1> SUFFICES ASSUME BaseInv, [Next]_vars PROVE BaseInv'
  OBVIOUS
<1>1. CASE UNCHANGED vars
  BY <1>1, SameBase DEF vars, BaseInv, Shape, Same
<1>2. CASE UNCHANGED faulty /\ \E d \in DriverNames : Acts(d)
  <2>1. PICK d \in DriverNames : Acts(d)
    BY <1>2
  <2>2. Shape' /\ \A e \in DriverNames \ {d} : Same(e)
    BY <1>2, <2>1, Frame DEF BaseInv
  <2>3. Base(d)'
    BY <2>1, InsmodBase, LoadStepBase, LoadedBase, RmmodBase, ReleaseBase, EndBase, OpenCloseBase DEF Acts
  <2>4. \A e \in DriverNames \ {d} : Base(e)'
    BY <2>2, SameBase DEF BaseInv
  <2> QED BY <2>2, <2>3, <2>4 DEF BaseInv
<1> QED BY <1>1, <1>2, NextCases

\* At every moment the place a driver has reached in its table says what it holds.
THEOREM BaseHolds == Spec => []BaseInv
BY InitBase, NextBase, PTL DEF Spec

\* Every variable has its type; a driver holds, and leaves behind, only what its
\* load acquires, and holds nothing that it has released.
THEOREM Typed == Spec => []TypeOK
<1>1. BaseInv => TypeOK
  <2> SUFFICES ASSUME BaseInv PROVE TypeOK
    OBVIOUS
  <2>1. Shape
    BY DEF BaseInv
  <2>2. ASSUME NEW d \in DriverNames
        PROVE  /\ held[d] \cup gone[d] \cup leaked[d] \subseteq Kinds(d)
               /\ held[d] \cap gone[d] = {}
               /\ open[d] \in BOOLEAN
               /\ phase[d] \notin {"loading", "undoing", "unloading"} => todo[d] = <<>>
    BY <2>1, GotProperties DEF BaseInv, Base, Settled, Shape
  <2> QED BY <2>1, <2>2 DEF TypeOK, Shape
<1> QED BY <1>1, BaseHolds, PTL

\* A driver of ChecksDevice that says it is loaded has its node.
THEOREM Published == Spec => []LoadedIsPublished
<1>1. BaseInv => LoadedIsPublished
  BY Tables DEF TableFacts, PublishFacts, BaseInv, Base, AfterLoad, LoadedIsPublished, ChecksDevice, DriverNames
<1> QED BY <1>1, BaseHolds, PTL

-----------------------------------------------------------------------------
\* The list a driver is at, with the step its load had reached, in either phase.
AtList(d, m, s) ==
  \/ phase[d] = "undoing" /\ m \in DOMAIN Load(d) /\ Fails(Load(d)[m]) /\ s = Load(d)[m].undo
  \/ phase[d] = "unloading" /\ m = Done(d) /\ s = FromLoaded(d)

\* A driver that releases is at a place of one of its lists, unless it never was
\* bound; what is known of the list is in TableFacts.
LEMMA Lists ==
  ASSUME BaseInv, NEW d \in DriverNames, phase[d] \in {"undoing", "unloading"}
  PROVE  \/ \E m, s : AtList(d, m, s) /\ IsSeq(s) /\ Releasing(d, m, s)
         \/ /\ phase[d] = "unloading" /\ (d \in Tidy => held[d] = {})
            /\ todo[d] = <<>> \/ d = "simple_io"
<1>1. InUndo(d) /\ InUnload(d)
  BY DEF BaseInv, Base
<1>2. CASE phase[d] = "undoing"
  <2>1. PICK m \in DOMAIN Load(d) : Fails(Load(d)[m]) /\ Releasing(d, m, Load(d)[m].undo)
    BY <1>1, <1>2 DEF InUndo
  <2>2. IsSeq(Load(d)[m].undo)
    BY <2>1, Tables DEF TableFacts, UndoFacts
  <2> QED BY <1>2, <2>1, <2>2 DEF AtList
<1>3. CASE phase[d] = "unloading" /\ Releasing(d, Done(d), FromLoaded(d))
  <2>1. IsSeq(FromLoaded(d))
    BY Tables DEF TableFacts, UnloadFacts
  <2> QED BY <1>3, <2>1 DEF AtList
<1> QED BY <1>1, <1>2, <1>3 DEF InUnload

\* The tidy drivers are drivers.
LEMMA TidyDrivers == Tidy \subseteq DriverNames
BY DEF Tidy, Undoing, PublishesLast, DriverNames

\* The end of a tidy driver's list adds nothing to what stays behind, but for what
\* a failed load forgets: the second node on the list of simple_io is never passed.
LEMMA TidyEnd ==
  ASSUME BaseInv, NEW d \in Tidy, End(d)
  PROVE  leaked'[d] \subseteq leaked[d] \cup Forgotten(d)
<1>1. d \in DriverNames /\ Shape /\ todo[d] = <<>>
  BY TidyDrivers DEF BaseInv, End
<1>2. CASE phase[d] = "undoing"
  BY <1>1, <1>2, EndCases, UndoneAll
<1>3. CASE phase[d] = "unloading" /\ Releasing(d, Done(d), FromLoaded(d))
  <2>1. UnloadFacts(d) /\ PublishFacts(d)
    BY <1>1, Tables DEF TableFacts
  <2>2. IsSeq(FromLoaded(d))
    BY <2>1 DEF UnloadFacts
  <2>3. d # "simple_io"
    BY <1>1, <1>3, <2>1, <2>2, ReleasedAll DEF UnloadFacts, PublishFacts, ChecksDevice
  <2>4. held[d] \subseteq Managed \cup Static
    BY <1>1, <1>3, <2>1, <2>2, <2>3, ReleasedAll
       DEF UnloadFacts, Everything, Litter, Tidy, Undoing, PublishesLast
  <2> QED BY <1>1, <1>3, <2>4, EndCases
<1>4. CASE phase[d] = "unloading" /\ held[d] = {}
  BY <1>1, <1>4, EndCases
<1> QED BY <1>1, <1>2, <1>3, <1>4, Lists DEF End, AtList

TidyInv == \A d \in Tidy : leaked[d] \subseteq Forgotten(d)

\* What a step does to what drivers left behind.
LEMMA LeakedStep ==
  ASSUME BaseInv, UNCHANGED faulty, NEW d \in DriverNames, Acts(d)
  PROVE  /\ \A e \in DriverNames \ {d} : leaked'[e] = leaked[e]
         /\ leaked'[d] = leaked[d] \/ End(d)
<1>1. \A e \in DriverNames \ {d} : leaked'[e] = leaked[e]
  BY Frame DEF BaseInv, Same
<1>2. leaked' = leaked \/ End(d)
  BY DEF Acts, Insmod, LoadStep, Loaded, Rmmod, Release, Open, Close, Oops
<1> QED BY <1>1, <1>2

\* Drivers that undo what a failed load did leave nothing behind in the kernel, and
\* hold nothing while they are out or unbound, whichever step fails.
THEOREM TidyLeaveNothing == Spec => [](TidyInv /\ \A d \in Tidy : phase[d] \in {"out", "unbound"} => held[d] = {})
<1>1. Init => TidyInv
  BY TidyDrivers DEF Init, TidyInv
<1>2. BaseInv /\ TidyInv /\ [Next]_vars => TidyInv'
  <2> SUFFICES ASSUME BaseInv, TidyInv, [Next]_vars, NEW d \in Tidy
               PROVE  leaked'[d] \subseteq Forgotten(d)
    BY DEF TidyInv
  <2>1. CASE UNCHANGED vars
    BY <2>1 DEF vars, TidyInv
  <2>2. CASE UNCHANGED faulty /\ \E e \in DriverNames : Acts(e)
    <3>1. PICK e \in DriverNames : Acts(e)
      BY <2>2
    <3> QED BY <2>2, <3>1, LeakedStep, TidyEnd, TidyDrivers DEF TidyInv
  <2> QED BY <2>1, <2>2, NextCases
<1>3. BaseInv => \A d \in Tidy : phase[d] \in {"out", "unbound"} => held[d] = {}
  BY TidyDrivers DEF BaseInv, Base, Settled
<1> QED BY <1>1, <1>2, <1>3, BaseHolds, PTL DEF Spec

-----------------------------------------------------------------------------
\* The node of a driver that publishes it last exists only when its load is over or
\* at its end and until its unload begins, with its class; and only then is it open.
Serves(d) ==
  /\ "device" \in held[d] =>
       /\ phase[d] \in {"loading", "loaded", "unloading"}
       /\ phase[d] = "loading" => todo[d] = <<>>
       /\ "class" \in held[d]
  /\ open[d] => phase[d] \in {"loading", "loaded"} /\ "device" \in held[d]

ServesInv == \A d \in PublishesLast : Serves(d)

\* A driver that publishes its node last is tidy, and its node owned by the module.
LEMMA PublishingDrivers == PublishesLast \subseteq Tidy /\ PublishesLast \subseteq Owned
BY DEF Tidy, PublishesLast, Owned, DriverNames

\* What the steps of a load, the releases and every other step do to an open node.
LEMMA LoadStepServes ==
  ASSUME BaseInv, NEW d \in PublishesLast, Serves(d), LoadStep(d)
  PROVE  Serves(d)'
<1>1. d \in DriverNames /\ Shape /\ LoadFacts(d) /\ PublishFacts(d) /\ IsSeq(Load(d))
  BY PublishingDrivers, TidyDrivers, Tables DEF BaseInv, TableFacts
<1>2. PICK k \in Nat : 0 < k /\ k <= Done(d) /\ LoadingAt(d, k)
  BY <1>1 DEF BaseInv, Base, InLoad, LoadStep
<1>3. k \in DOMAIN Load(d) /\ k + 1 <= Done(d) /\ open'[d] = open[d]
  BY <1>1, <1>2, LoadStepCases
<1>4. Len(Load(d)) \in Nat /\ DOMAIN Load(d) = 1 .. Len(Load(d))
  BY <1>1, LenProperties DEF IsSeq
<1>5. "device" \notin held[d]
  BY <1>1, <1>2, <1>3, <1>4 DEF LoadingAt, Got, PublishFacts
<1>6. ~open'[d]
  BY <1>3, <1>5 DEF Serves
<1>7. ASSUME "device" \in held'[d]
      PROVE  phase'[d] = "loading" /\ todo'[d] = <<>> /\ "class" \in held'[d]
  <2>1. /\ Load(d)[k].res = "device" /\ Acquires(Load(d)[k]) /\ ~MustFail(d, Load(d)[k])
        /\ phase'[d] = "loading" /\ todo'[d] = Rest(Load(d), k + 1) /\ held[d] \subseteq held'[d]
    BY <1>1, <1>2, <1>5, <1>7, LoadStepCases
  <2>2. k = Len(Load(d))
    BY <1>1, <1>3, <2>1 DEF PublishFacts
  <2>3. todo'[d] = <<>>
    BY <1>1, <1>4, <2>1, <2>2, RestProperties
  <2>4. Load(d)[k].what \in {"get", "try"}
    BY <1>1, <1>3, <2>1 DEF LoadFacts
  <2> QED BY <2>1, <2>3, <2>4 DEF MustFail
<1> QED BY <1>6, <1>7 DEF Serves

LEMMA ReleaseServes ==
  ASSUME BaseInv, NEW d \in PublishesLast, Serves(d), Release(d)
  PROVE  Serves(d)'
<1>1. d \in DriverNames /\ d \in Tidy /\ Shape /\ PublishFacts(d)
  BY PublishingDrivers, TidyDrivers, Tables DEF BaseInv, TableFacts
<1>2. ~open[d] /\ open'[d] = open[d]
  BY DEF Release, Serves, Oops
<1>3. held'[d] \subseteq held[d]
  BY <1>1 DEF Release, Oops, Shape
<1>4. CASE "device" \notin held[d]
  BY <1>2, <1>3, <1>4 DEF Serves
<1>5. CASE "device" \in held[d]
  <2>1. phase[d] = "unloading" /\ "class" \in held[d]
    BY <1>5 DEF Serves, Release
  <2>2. IsSeq(FromLoaded(d)) /\ Releasing(d, Done(d), FromLoaded(d))
    BY <1>1, <1>5, <2>1, Lists DEF AtList
  <2>3. PICK k \in Nat : /\ 0 < k /\ k <= Len(FromLoaded(d)) + 1
                         /\ ReleasingAt(d, Done(d), FromLoaded(d), k)
    BY <2>2 DEF Releasing
  <2>4. k \in DOMAIN FromLoaded(d)
    BY <1>1, <2>2, <2>3, ReleaseStep
  <2>5. DOMAIN FromLoaded(d) = 1 .. Len(FromLoaded(d)) /\ Len(FromLoaded(d)) \in Nat
    BY <2>2, LenProperties DEF IsSeq
  <2>6. 1 \in DOMAIN FromLoaded(d) /\ FromLoaded(d)[1] = "device"
    BY <1>1, <2>4, <2>5 DEF PublishFacts
  <2>7. k = 1
    BY <1>5, <2>3, <2>4, <2>5, <2>6 DEF ReleasingAt, Before
  <2>8. "device" \notin gone[d]
    BY <1>1, <1>5 DEF BaseInv, Base, Settled
  <2>9. held'[d] = held[d] \ {"device"}
    <3> DEFINE s == FromLoaded(d)
    <3>1. \/ s[k] \in gone[d] \/ (s[k] = "device" /\ "class" \notin held[d])
          \/ held'[d] = held[d] \ {s[k]}
      BY <1>1, <2>2, <2>3, ReleaseStep
    <3> QED BY <2>1, <2>6, <2>7, <2>8, <3>1
  <2> QED BY <1>2, <2>9 DEF Serves
<1> QED BY <1>4, <1>5

LEMMA StepServes ==
  ASSUME BaseInv, TidyInv, NEW d \in PublishesLast, Serves(d), Acts(d)
  PROVE  Serves(d)'
<1>1. d \in DriverNames /\ d \in Tidy /\ d \in Owned /\ Shape /\ Settled(d)
  BY PublishingDrivers, TidyDrivers DEF BaseInv, Base
<1>2. leaked[d] = {}
  BY <1>1 DEF TidyInv, PublishesLast, Forgotten
<1>3. CASE Insmod(d)
  BY <1>1, <1>3 DEF Insmod, Enter, Shape, Settled, Serves
<1>4. CASE LoadStep(d)
  BY <1>4, LoadStepServes
<1>5. CASE Loaded(d)
  BY <1>1, <1>5 DEF Loaded, Enter, Shape, Serves
<1>6. CASE Rmmod(d)
  BY <1>1, <1>6, RmmodList DEF Rmmod, Serves, Settled
<1>7. CASE Release(d)
  BY <1>7, ReleaseServes
<1>8. CASE End(d)
  <2>1. ~open[d] /\ open'[d] = open[d]
    BY <1>1, <1>8, EndCases DEF End, Serves
  <2>2. "device" \notin held'[d]
    BY <1>1, <1>8, EndCases DEF Serves
  <2> QED BY <2>1, <2>2 DEF Serves
<1>9. CASE Open(d) \/ Close(d)
  <2>1. phase' = phase /\ todo' = todo /\ held' = held
    BY <1>9 DEF Open, Close
  <2>2. open'[d] => phase[d] \in {"loading", "loaded"} /\ "device" \in held[d]
    BY <1>1, <1>2, <1>9 DEF Open, Close, Shape, Serves
  <2> QED BY <2>1, <2>2 DEF Serves
<1> QED BY <1>3, <1>4, <1>5, <1>6, <1>7, <1>8, <1>9 DEF Acts

-----------------------------------------------------------------------------
\* No driver of Checking ever uses what it does not have.
CheckedInv == \A d \in Checking : phase[d] # "oops"

\* A step of a driver of Checking uses only what it has.
LEMMA CheckedStep ==
  ASSUME BaseInv, NEW d \in Checking, phase[d] # "oops", Acts(d)
  PROVE  phase'[d] # "oops"
<1>1. d \in DriverNames /\ Shape /\ d # "simple_io"
  BY DEF Checking, DriverNames, BaseInv
<1>2. CASE LoadStep(d)
  <2>1. PICK k \in Nat : 0 < k /\ k <= Done(d) /\ LoadingAt(d, k)
    BY <1>1, <1>2 DEF BaseInv, Base, InLoad, LoadStep
  <2>2. k \in DOMAIN Load(d) /\ (phase'[d] = "oops" => Load(d)[k].what = "use")
    BY <1>1, <1>2, <2>1, LoadStepCases
  <2> QED BY <1>1, <2>2, Tables DEF TableFacts, LoadFacts
<1>3. CASE Release(d)
  <2>1. PICK m, s : AtList(d, m, s) /\ IsSeq(s) /\ Releasing(d, m, s)
    BY <1>1, <1>3, Lists DEF Release
  <2>2. Safely(s, Firm(d, m))
    BY <1>1, <2>1, Tables DEF TableFacts, UndoFacts, UnloadFacts, AtList
  <2>3. PICK k \in Nat : 0 < k /\ k <= Len(s) + 1 /\ ReleasingAt(d, m, s, k)
    BY <2>1 DEF Releasing
  <2>4. /\ k \in DOMAIN s
        /\ \/ s[k] \in gone[d] \/ (s[k] = "device" /\ "class" \notin held[d])
           \/ phase'[d] = phase[d]
    BY <1>1, <1>3, <2>1, <2>3, ReleaseStep
  <2>5. s[k] \notin gone[d] /\ (s[k] = "device" => "class" \in held[d])
    BY <2>2, <2>3, <2>4 DEF Safely, ReleasingAt
  <2> QED BY <2>4, <2>5
<1>4. CASE Open(d) \/ Close(d)
  BY <1>4 DEF Open, Close
<1> QED BY <1>1, <1>2, <1>3, <1>4, RmmodList, EndCases DEF Acts, Insmod, Loaded, Enter, Shape

\* And so it never crashes, whatever fails.
LEMMA CheckedHolds == Spec => []CheckedInv
<1>1. Init => CheckedInv
  BY DEF Init, CheckedInv, Checking, DriverNames
<1>2. BaseInv /\ CheckedInv /\ [Next]_vars => CheckedInv'
  <2> SUFFICES ASSUME BaseInv, CheckedInv, [Next]_vars, NEW d \in Checking
               PROVE  phase'[d] # "oops"
    BY DEF CheckedInv
  <2>1. d \in DriverNames
    BY DEF Checking, DriverNames
  <2>2. CASE UNCHANGED vars
    BY <2>2 DEF vars, CheckedInv
  <2>3. CASE UNCHANGED faulty /\ \E e \in DriverNames : Acts(e)
    <3>1. PICK e \in DriverNames : Acts(e)
      BY <2>3
    <3>2. CASE e = d
      BY <3>1, <3>2, CheckedStep DEF CheckedInv
    <3>3. CASE e # d
      BY <2>1, <2>3, <3>1, <3>3, Frame DEF BaseInv, Same, CheckedInv
    <3> QED BY <3>2, <3>3
  <2> QED BY <2>2, <2>3, NextCases
<1> QED BY <1>1, <1>2, BaseHolds, PTL DEF Spec

-----------------------------------------------------------------------------
\* Where no step fails by itself, a load has all it has come to, an unload starts
\* from all of it, and only what the tables say stays behind.
Sound(d) ==
  /\ phase[d] # "undoing"
  /\ phase[d] = "oops" => d = "simple_io"
  /\ phase[d] = "absent" => leaked[d] = {}
  /\ phase[d] = "unbound" => held[d] = {} /\ gone[d] = {}
  /\ phase[d] = "loading" =>
       \E k \in Nat : 0 < k /\ k <= Done(d) /\ LoadingAt(d, k) /\ Full(d, k) \subseteq held[d]
  /\ phase[d] = "loaded" => Full(d, Done(d)) \subseteq held[d]
  /\ phase[d] = "unloading" =>
       \/ /\ Releasing(d, Done(d), FromLoaded(d))
          /\ Full(d, Done(d)) \subseteq held[d] \cup gone[d]
       \/ todo[d] = <<>> /\ held[d] = {}
  /\ leaked[d] \subseteq Litter(d)

\* Of the drivers for one device at most one is up, and then the others hold nothing.
Alone(d, e) ==
  phase[d] \in {"loading", "loaded"} => held[e] = {} /\ phase[e] \notin {"loading", "loaded"}

AloneInv == \A d, e \in OnBus : d # e /\ NodeName(d) = NodeName(e) => Alone(d, e)

SoundInv == ~faulty => AloneInv /\ \A d \in DriverNames : Sound(d)

\* A load never finds the name of its class or gpio in use, but for icm20608.
LEMMA NotTaken ==
  ASSUME BaseInv, ~faulty, SoundInv, NEW d \in DriverNames, phase[d] = "loading",
         NEW k \in Nat, LoadingAt(d, k), k \in DOMAIN Load(d), Acquires(Load(d)[k]),
         Taken(d, Load(d)[k].res)
  PROVE  d = "icm20608" /\ Load(d)[k].res = "class"
<1> DEFINE r == Load(d)[k].res
<1>1. PICK e \in DriverNames :
        /\ r \in held[e] \cup leaked[e]
        /\ \/ r = "class" /\ ClassName(e) = ClassName(d)
           \/ r = "gpio" /\ GpioName(e) = GpioName(d)
  BY DEF Taken
<1>2. PICK crew \in Crews : \A x \in DriverNames : x \in crew <=> phase[x] # "absent"
  BY DEF BaseInv, Shape
<1>3. phase[e] # "absent"
  BY <1>1 DEF BaseInv, Base, Settled, SoundInv, Sound
<1>4. e # d => {d, e} \subseteq OnBus /\ NodeName(d) = NodeName(e)
  BY <1>1, <1>2, <1>3, CrewsFit
<1>5. e # d => held[e] = {}
  BY <1>4 DEF SoundInv, AloneInv, Alone
<1>6. r \notin held[d]
  BY Tables DEF TableFacts, LoadFacts, LoadingAt
<1>7. r \in leaked[e] /\ r \in Litter(e)
  BY <1>1, <1>5, <1>6 DEF SoundInv, Sound
<1>8. e = "icm20608" /\ r = "class"
  BY <1>1, <1>7 DEF Litter
<1>9. e = d
  BY <1>4, <1>8 DEF NodeName
<1> QED BY <1>8, <1>9

\* Each step, in turn, where none fails by itself.
LEMMA LoadStepSound ==
  ASSUME BaseInv, ~faulty, SoundInv, NEW d \in DriverNames, LoadStep(d)
  PROVE  /\ phase'[d] = "loading" /\ gone'[d] = gone[d] /\ leaked'[d] = leaked[d]
         /\ \E k \in Nat : 0 < k /\ k <= Done(d) /\ LoadingAt(d, k)' /\ Full(d, k) \subseteq held'[d]
<1>1. Shape /\ phase[d] = "loading" /\ LoadFacts(d)
  BY Tables DEF BaseInv, LoadStep, TableFacts
<1>2. PICK k \in Nat : 0 < k /\ k <= Done(d) /\ LoadingAt(d, k) /\ Full(d, k) \subseteq held[d]
  BY <1>1 DEF SoundInv, Sound
<1> DEFINE step == Load(d)[k]
<1>3. /\ k \in DOMAIN Load(d) /\ k + 1 \in Nat /\ 0 < k + 1 /\ k + 1 <= Done(d)
      /\ gone'[d] = gone[d] /\ leaked'[d] = leaked[d]
  BY <1>1, <1>2, LoadStepCases
<1>4. Got(d, k + 1) = Got(d, k) \cup (IF Acquires(step) THEN {step.res} ELSE {})
  BY <1>3, GotProperties
<1>5. /\ Firm(d, k + 1) = Firm(d, k) \cup (IF Firmly(step) THEN {step.res} ELSE {})
      /\ Firm(d, k) \subseteq held[d] /\ held[d] \subseteq Got(d, k)
  BY <1>2, <1>3, GotProperties DEF LoadingAt
<1>6. MustFail(d, step) => d = "icm20608" /\ step.what = "try" /\ step.res \in {"class", "device"}
  <2>1. step.what = "lookup" => step.res \in Nodes
    <3>1. PICK crew \in Crews : \A x \in DriverNames : x \in crew <=> phase[x] # "absent"
      BY <1>1 DEF Shape
    <3> QED BY <1>1, <1>3, <3>1, CrewsFit
  <2>2. Acquires(step) /\ Taken(d, step.res) => d = "icm20608" /\ step.res = "class"
    BY <1>1, <1>2, <1>3, NotTaken
  <2>3. step.res = "device" /\ "class" \notin held[d] => d = "icm20608"
    BY <1>1, <1>2, <1>3 DEF LoadFacts, Full
  <2>4. d = "icm20608" => ~Fails(step)
    BY <1>1, <1>3 DEF LoadFacts
  <2> QED BY <2>1, <2>2, <2>3, <2>4 DEF MustFail, Acquires, Fails
<1>7. step.what = "use" => step.res \in held[d]
  BY <1>1, <1>2, <1>3 DEF LoadFacts, Full
<1>8. MayFail(d, step) => d = "icm20608" /\ step.what = "try" /\ step.res \in {"class", "device"}
  BY <1>6 DEF MayFail
<1>9. ASSUME phase'[d] = "loading", todo'[d] = Rest(Load(d), k + 1),
             Firm(d, k + 1) \subseteq held'[d], held'[d] \subseteq Got(d, k + 1),
             Full(d, k + 1) \subseteq held'[d]
      PROVE  \E i \in Nat : 0 < i /\ i <= Done(d) /\ LoadingAt(d, i)' /\ Full(d, i) \subseteq held'[d]
  BY <1>3, <1>9 DEF LoadingAt
<1>10. CASE /\ step.what = "use" => step.res \in held[d]
            /\ phase'[d] = "loading" /\ todo'[d] = Rest(Load(d), k + 1)
            /\ held'[d] = held[d] \cup (IF Acquires(step) THEN {step.res} ELSE {})
  <2>1. Full(d, k + 1) \subseteq held'[d]
    BY <1>2, <1>4, <1>10 DEF Full
  <2>2. Firm(d, k + 1) \subseteq held'[d] /\ held'[d] \subseteq Got(d, k + 1)
    BY <1>4, <1>5, <1>10 DEF Acquires, Firmly
  <2> QED BY <1>3, <1>9, <1>10, <2>1, <2>2
<1>11. CASE /\ step.what = "try" /\ MayFail(d, step)
            /\ phase'[d] = "loading" /\ todo'[d] = Rest(Load(d), k + 1) /\ held'[d] = held[d]
  <2>1. Full(d, k + 1) \subseteq held'[d]
    BY <1>2, <1>4, <1>8, <1>11 DEF Full
  <2>2. Firm(d, k + 1) \subseteq held'[d] /\ held'[d] \subseteq Got(d, k + 1)
    BY <1>4, <1>5, <1>11 DEF Acquires, Firmly
  <2> QED BY <1>3, <1>9, <1>11, <2>1, <2>2
<1>12. ~(Fails(step) /\ MayFail(d, step)) /\ ~(step.what = "use" /\ step.res \notin held[d])
  BY <1>7, <1>8 DEF Fails
<1> QED BY <1>1, <1>2, <1>10, <1>11, <1>12, LoadStepCases

LEMMA ReleaseSound ==
  ASSUME BaseInv, ~faulty, SoundInv, NEW d \in DriverNames, Release(d)
  PROVE  Sound(d)'
<1>1. Shape /\ phase[d] = "unloading" /\ todo[d] # <<>> /\ leaked'[d] = leaked[d]
  BY DEF BaseInv, SoundInv, Sound, Release, Oops
<1>2. PICK m, s : m = Done(d) /\ s = FromLoaded(d)
  OBVIOUS
<1>3. Releasing(d, m, s) /\ Full(d, Done(d)) \subseteq held[d] \cup gone[d]
  BY <1>1, <1>2 DEF SoundInv, Sound
<1>4. IsSeq(s) /\ (d # "simple_io" => Safely(s, Full(d, Done(d)))) /\ Len(s) \in Nat
  BY <1>2, Tables, LenProperties DEF TableFacts, UnloadFacts, IsSeq
<1>5. PICK k \in Nat : 0 < k /\ k <= Len(s) + 1 /\ ReleasingAt(d, m, s, k)
  BY <1>3 DEF Releasing
<1>6. /\ k \in DOMAIN s /\ k + 1 <= Len(s) + 1
      /\ \/ /\ s[k] \in gone[d] \/ (s[k] = "device" /\ "class" \notin held[d])
            /\ Oops(d)
         \/ /\ s[k] \notin gone[d] /\ (s[k] = "device" => "class" \in held[d])
            /\ phase'[d] = phase[d] /\ held'[d] = held[d] \ {s[k]}
            /\ gone'[d] = gone[d] \cup ({s[k]} \cap held[d])
            /\ leaked'[d] = leaked[d] /\ open'[d] = open[d]
            /\ ReleasingAt(d, m, s, k + 1)'
  BY <1>1, <1>4, <1>5, ReleaseStep
<1>7. d # "simple_io" => s[k] \notin gone[d] /\ (s[k] = "device" => "class" \in held[d])
  <2>1. d # "simple_io" => s[k] \notin Before(s, k) /\ (s[k] = "device" => "class" \in Full(d, Done(d)) \ Before(s, k))
    BY <1>4, <1>6 DEF Safely
  <2> QED BY <1>3, <1>5, <2>1 DEF ReleasingAt
<1>8. CASE d = "simple_io" /\ Oops(d)
  BY <1>1, <1>8 DEF Oops, Enter, Shape, SoundInv, Sound
<1>9. CASE /\ phase'[d] = phase[d] /\ held'[d] = held[d] \ {s[k]}
           /\ gone'[d] = gone[d] \cup ({s[k]} \cap held[d])
           /\ ReleasingAt(d, m, s, k + 1)'
  <2>1. Releasing(d, m, s)'
    BY <1>5, <1>6, <1>9 DEF Releasing
  <2>2. Releasing(d, Done(d), FromLoaded(d))'
    BY <1>2, <2>1
  <2>3. Full(d, Done(d)) \subseteq held'[d] \cup gone'[d]
    BY <1>3, <1>9
  <2> QED BY <1>1, <1>9, <2>2, <2>3 DEF SoundInv, Sound
<1> QED BY <1>6, <1>7, <1>8, <1>9

LEMMA EndSound ==
  ASSUME BaseInv, ~faulty, SoundInv, NEW d \in DriverNames, End(d)
  PROVE  Sound(d)'
<1>1. Shape /\ phase[d] = "unloading" /\ todo[d] = <<>> /\ leaked[d] \subseteq Litter(d)
  BY DEF BaseInv, SoundInv, Sound, End
<1>2. /\ phase'[d] = "out" /\ held'[d] = {}
      /\ leaked'[d] = leaked[d] \cup (held[d] \ (Managed \cup Static))
  BY <1>1, EndCases
<1>3. held[d] \subseteq Managed \cup Static \cup Litter(d)
  <2>1. CASE Releasing(d, Done(d), FromLoaded(d))
    <3>1. UnloadFacts(d) /\ PublishFacts(d) /\ IsSeq(FromLoaded(d))
      BY Tables DEF TableFacts, UnloadFacts
    <3>2. d # "simple_io"
      BY <1>1, <2>1, <3>1, ReleasedAll DEF UnloadFacts, PublishFacts, ChecksDevice
    <3> QED BY <1>1, <2>1, <3>1, <3>2, ReleasedAll DEF UnloadFacts, Everything
  <2> QED BY <1>1, <2>1 DEF SoundInv, Sound
<1> QED BY <1>1, <1>2, <1>3 DEF Sound

LEMMA StepSound ==
  ASSUME BaseInv, ~faulty, SoundInv, NEW d \in DriverNames, Acts(d)
  PROVE  Sound(d)'
<1>1. Shape /\ Settled(d) /\ Sound(d)
  BY DEF BaseInv, Base, SoundInv
<1>2. CASE Insmod(d)
  <2>1. /\ phase[d] = "out" /\ phase'[d] \in {"loading", "unbound"}
        /\ phase'[d] = "loading" => todo'[d] = Load(d)
        /\ held'[d] = {} /\ gone'[d] = {} /\ leaked'[d] = leaked[d]
    BY <1>1, <1>2 DEF Insmod, Enter, Shape, Settled
  <2>2. IsSeq(Load(d)) /\ Len(Load(d)) \in Nat
    BY Tables, LenProperties DEF TableFacts, IsSeq
  <2>3. phase'[d] = "loading" => LoadingAt(d, 1)' /\ Full(d, 1) \subseteq held'[d]
    BY <2>1, <2>2, RestAll, GotProperties DEF LoadingAt, Full
  <2> QED BY <1>1, <2>1, <2>2, <2>3 DEF Sound, Done
<1>3. CASE LoadStep(d)
  BY <1>1, <1>3, LoadStepSound DEF Sound
<1>4. CASE Loaded(d)
  <2>1. PICK k \in Nat : 0 < k /\ k <= Done(d) /\ LoadingAt(d, k) /\ Full(d, k) \subseteq held[d]
    BY <1>1, <1>4 DEF Loaded, Sound
  <2>2. IsSeq(Load(d)) /\ Len(Load(d)) \in Nat
    BY Tables, LenProperties DEF TableFacts, IsSeq
  <2>3. k = Done(d)
    BY <1>4, <2>1, <2>2, RestProperties DEF Loaded, LoadingAt, Done
  <2>4. phase'[d] = "loaded" /\ held'[d] = held[d] /\ leaked'[d] = leaked[d]
    BY <1>1, <1>4 DEF Loaded, Enter, Shape
  <2> QED BY <1>1, <2>1, <2>3, <2>4 DEF Sound
<1>5. CASE Rmmod(d)
  <2>1. phase[d] = "loaded" => Releasing(d, Done(d), FromLoaded(d))'
    BY <1>5, RmmodReleases
  <2>2. phase[d] = "unbound" => todo'[d] = <<>> /\ held'[d] = {}
    BY <1>1, <1>5, RmmodList DEF Sound
  <2> QED BY <1>1, <1>5, <2>1, <2>2, RmmodList DEF Sound, Rmmod
<1>6. CASE Release(d)
  BY <1>6, ReleaseSound
<1>7. CASE End(d)
  BY <1>7, EndSound
<1>8. CASE Open(d) \/ Close(d)
  <2>1. /\ phase'[d] = phase[d] /\ todo'[d] = todo[d] /\ held'[d] = held[d]
        /\ gone'[d] = gone[d] /\ leaked'[d] = leaked[d]
    BY <1>8 DEF Open, Close
  <2> QED BY <1>1, <2>1 DEF Sound, LoadingAt, Releasing, ReleasingAt
<1> QED BY <1>2, <1>3, <1>4, <1>5, <1>6, <1>7, <1>8 DEF Acts

\* Only insmod brings a driver up, only a load acquires.
LEMMA UpAndHeld ==
  ASSUME BaseInv, ~faulty, SoundInv, NEW d \in DriverNames, Acts(d)
  PROVE  /\ phase'[d] \in {"loading", "loaded"} => phase[d] \in {"loading", "loaded"} \/ Insmod(d)
         /\ held'[d] \subseteq held[d] \/ phase[d] = "loading"
<1>1. Shape
  BY DEF BaseInv
<1>2. CASE Release(d)
  BY <1>1, <1>2 DEF Release, Oops, Enter, Shape
<1>3. CASE LoadStep(d)
  BY <1>3 DEF LoadStep
<1>4. CASE Insmod(d) \/ Loaded(d) \/ Open(d) \/ Close(d)
  BY <1>1, <1>4 DEF Insmod, Loaded, Open, Close, Enter, Shape
<1> QED BY <1>1, <1>2, <1>3, <1>4, RmmodList, EndCases DEF Acts

\* A probe finds no other driver bound to its device, and the others hold nothing.
LEMMA InsmodAlone ==
  ASSUME BaseInv, ~faulty, SoundInv, NEW d \in OnBus, NEW e \in OnBus, d # e,
         NodeName(d) = NodeName(e), Insmod(d), phase'[d] = "loading"
  PROVE  held[e] = {} /\ phase[e] \notin {"loading", "loaded"}
<1>1. d \in DriverNames /\ e \in DriverNames /\ Shape
  BY DEF BaseInv, OnBus, DriverNames
<1>2. ~Bound(e)
  BY <1>1 DEF Insmod, Enter, Shape
<1>3. phase[e] \in {"absent", "out", "unbound", "oops"}
  BY <1>1, <1>2 DEF Bound, Shape, Phases
<1>4. phase[e] # "oops"
  BY <1>1 DEF SoundInv, Sound, NodeName
<1> QED BY <1>1, <1>3, <1>4 DEF BaseInv, Base, Settled, SoundInv, Sound

\* Of the drivers for a device at most one stays up.
LEMMA StepAlone ==
  ASSUME BaseInv, ~faulty, UNCHANGED faulty, SoundInv, NEW x \in DriverNames, Acts(x)
  PROVE  AloneInv'
<1> SUFFICES ASSUME NEW d \in OnBus, NEW e \in OnBus, d # e, NodeName(d) = NodeName(e),
                    phase'[d] \in {"loading", "loaded"}
             PROVE  held'[e] = {} /\ phase'[e] \notin {"loading", "loaded"}
  BY DEF AloneInv, Alone
<1>1. d \in DriverNames /\ e \in DriverNames
  BY DEF OnBus, DriverNames
<1>2. \A y \in DriverNames \ {x} : phase'[y] = phase[y] /\ held'[y] = held[y]
  BY Frame DEF BaseInv, Same
<1>3. Alone(d, e) /\ Alone(e, d)
  BY DEF SoundInv, AloneInv
<1>4. CASE x # d /\ x # e
  BY <1>1, <1>2, <1>3, <1>4 DEF Alone
<1>5. CASE x = d
  <2>1. phase[d] \in {"loading", "loaded"} \/ (Insmod(d) /\ phase'[d] = "loading")
    BY <1>1, <1>5, UpAndHeld DEF Insmod, Enter, BaseInv, Shape
  <2>2. held[e] = {} /\ phase[e] \notin {"loading", "loaded"}
    BY <1>3, <2>1, InsmodAlone DEF Alone
  <2> QED BY <1>1, <1>2, <1>5, <2>2
<1>6. CASE x = e
  <2>1. phase[d] \in {"loading", "loaded"}
    BY <1>1, <1>2, <1>6
  <2>2. held[e] = {} /\ phase[e] \notin {"loading", "loaded"}
    BY <1>3, <2>1 DEF Alone
  <2>3. held'[e] = {}
    BY <1>1, <1>6, <2>2, UpAndHeld
  <2>4. ~(Insmod(e) /\ phase'[e] \in {"loading", "loaded"})
    <3>1. ASSUME Insmod(e), phase'[e] \in {"loading", "loaded"} PROVE FALSE
      BY <1>1, <2>1, <3>1, InsmodAlone DEF Insmod, Enter, BaseInv, Shape
    <3> QED BY <3>1
  <2> QED BY <1>1, <1>6, <2>2, <2>3, <2>4, UpAndHeld
<1> QED BY <1>4, <1>5, <1>6

\* A driver whose state did not change is as sound as before.
LEMMA SameSound == ASSUME NEW e \in DriverNames, Sound(e), Same(e) PROVE Sound(e)'
BY DEF Same, Sound, LoadingAt, Releasing, ReleasingAt

\* The invariant of the kernel in which no step fails by itself.
THEOREM SoundHolds == Spec => []SoundInv
<1>1. Init => SoundInv
  <2> SUFFICES ASSUME Init PROVE SoundInv
    OBVIOUS
  <2>1. \A d \in DriverNames : phase[d] \in {"absent", "out"} /\ leaked[d] = {}
    BY DEF Init
  <2>2. \A d \in OnBus : d \in DriverNames
    BY DEF OnBus, DriverNames
  <2> QED BY <2>1, <2>2 DEF SoundInv, AloneInv, Alone, Sound
<1>2. BaseInv /\ SoundInv /\ [Next]_vars => SoundInv'
  <2> SUFFICES ASSUME BaseInv, SoundInv, [Next]_vars, ~faulty
               PROVE  AloneInv' /\ \A d \in DriverNames : Sound(d)'
    BY DEF SoundInv, Next, Crashed, vars
  <2>1. CASE UNCHANGED vars
    <3>1. AloneInv'
      BY <2>1 DEF vars, SoundInv, AloneInv, Alone
    <3>2. \A d \in DriverNames : Sound(d)'
      BY <2>1, SameSound DEF vars, SoundInv, Same
    <3> QED BY <3>1, <3>2
  <2>2. CASE UNCHANGED faulty /\ \E d \in DriverNames : Acts(d)
    <3>1. PICK d \in DriverNames : Acts(d)
      BY <2>2
    <3>2. AloneInv'
      BY <2>2, <3>1, StepAlone
    <3>3. Sound(d)'
      BY <3>1, StepSound
    <3>4. \A e \in DriverNames \ {d} : Sound(e)'
      BY <2>2, <3>1, Frame, SameSound DEF BaseInv, SoundInv
    <3> QED BY <3>2, <3>3, <3>4
  <2> QED BY <2>1, <2>2, NextCases
<1> QED BY <1>1, <1>2, BaseHolds, PTL DEF Spec

\* While a client has the node of pwm, simple_io or ap3216 open, the module is there
\* and all that its calls use is initialised, whatever failed before; the chip of
\* ap3216, whose transfers probe does not check, only where nothing fails by itself.
THEOREM Served == Spec => []FilesAreServed
<1>1. Init => ServesInv
  BY PublishingDrivers, TidyDrivers DEF Init, ServesInv, Serves
<1>2. BaseInv /\ TidyInv /\ ServesInv /\ [Next]_vars => ServesInv'
  <2> SUFFICES ASSUME BaseInv, TidyInv, ServesInv, [Next]_vars, NEW d \in PublishesLast
               PROVE  Serves(d)'
    BY DEF ServesInv
  <2>1. Serves(d) /\ d \in DriverNames
    BY PublishingDrivers, TidyDrivers DEF ServesInv
  <2>2. CASE UNCHANGED vars
    BY <2>1, <2>2 DEF vars, Serves
  <2>3. CASE UNCHANGED faulty /\ \E e \in DriverNames : Acts(e)
    <3>1. PICK e \in DriverNames : Acts(e)
      BY <2>3
    <3>2. CASE e = d
      BY <2>1, <3>1, <3>2, StepServes
    <3>3. CASE e # d
      <4>1. Same(d)
        BY <2>1, <2>3, <3>1, <3>3, Frame DEF BaseInv
      <4> QED BY <2>1, <4>1 DEF Same, Serves
    <3> QED BY <3>2, <3>3
  <2> QED BY <2>2, <2>3, NextCases
<1>3. BaseInv /\ SoundInv /\ ServesInv => FilesAreServed
  <2> SUFFICES ASSUME BaseInv, SoundInv, ServesInv, NEW d \in PublishesLast, open[d]
               PROVE  /\ phase[d] # "out"
                      /\ FileUses(d) \ Unchecked(d) \subseteq held[d]
                      /\ ~faulty => FileUses(d) \subseteq held[d]
    BY DEF FilesAreServed
  <2>1. /\ d \in DriverNames /\ phase[d] \in {"loading", "loaded"}
        /\ phase[d] = "loading" => todo[d] = <<>>
    BY PublishingDrivers, TidyDrivers DEF ServesInv, Serves
  <2>2. PublishFacts(d) /\ IsSeq(Load(d)) /\ Len(Load(d)) \in Nat
    BY <2>1, Tables, LenProperties DEF TableFacts, IsSeq
  <2>3. /\ FileUses(d) \ Unchecked(d) \subseteq Firm(d, Done(d))
        /\ FileUses(d) \subseteq Full(d, Done(d))
    BY <2>2 DEF PublishFacts
  <2>4. ASSUME NEW k \in Nat, 0 < k, k <= Done(d), LoadingAt(d, k), phase[d] = "loading"
        PROVE  k = Done(d)
    BY <2>1, <2>2, <2>4, RestProperties DEF LoadingAt, Done
  <2>5. Firm(d, Done(d)) \subseteq held[d]
    <3>1. CASE phase[d] = "loading"
      <4>1. PICK k \in Nat : 0 < k /\ k <= Done(d) /\ LoadingAt(d, k)
        BY <2>1, <3>1 DEF BaseInv, Base, InLoad
      <4> QED BY <2>4, <3>1, <4>1 DEF LoadingAt
    <3>2. CASE phase[d] = "loaded"
      BY <2>1, <3>2 DEF BaseInv, Base, AfterLoad
    <3> QED BY <2>1, <3>1, <3>2
  <2>6. ASSUME ~faulty PROVE Full(d, Done(d)) \subseteq held[d]
    <3>1. Sound(d)
      BY <2>1, <2>6 DEF SoundInv
    <3>2. CASE phase[d] = "loading"
      <4>1. PICK k \in Nat : /\ 0 < k /\ k <= Done(d) /\ LoadingAt(d, k)
                             /\ Full(d, k) \subseteq held[d]
        BY <3>1, <3>2 DEF Sound
      <4> QED BY <2>4, <3>2, <4>1
    <3>3. CASE phase[d] = "loaded"
      BY <3>1, <3>3 DEF Sound
    <3> QED BY <2>1, <3>2, <3>3
  <2> QED BY <2>1, <2>3, <2>5, <2>6
<1> QED BY <1>1, <1>2, <1>3, BaseHolds, TidyLeaveNothing, SoundHolds, PTL DEF Spec

\* Where no step fails by itself no load fails, however often and in whatever order
\* the drivers are loaded and unloaded.
THEOREM Loads == Spec => []LoadsUnlessSomethingFails
<1>1. SoundInv => LoadsUnlessSomethingFails
  BY DEF SoundInv, Sound, LoadsUnlessSomethingFails
<1> QED BY <1>1, SoundHolds, PTL

\* Drivers of Checking use nothing they do not have, whatever fails, and all but
\* simple_io do not where nothing fails by itself.
THEOREM NeverCrashes == Spec => []NoCrash
<1>1. SoundInv /\ CheckedInv => NoCrash
  BY DEF SoundInv, Sound, CheckedInv, NoCrash
<1> QED BY <1>1, SoundHolds, CheckedHolds, PTL

\* A failed load that undoes, and a load followed by an unload, leave nothing behind.
THEOREM LeavesNothing == Spec => []NothingLeftBehind
<1>1. /\ BaseInv /\ SoundInv /\ TidyInv
      /\ \A d \in Tidy : phase[d] \in {"out", "unbound"} => held[d] = {}
      => NothingLeftBehind
  <2> SUFFICES ASSUME BaseInv, SoundInv, TidyInv,
                      \A d \in Tidy : phase[d] \in {"out", "unbound"} => held[d] = {}
               PROVE  NothingLeftBehind
    OBVIOUS
  <2>1. CASE faulty
    BY <2>1 DEF NothingLeftBehind, TidyInv, Tidy
  <2>2. CASE ~faulty
    <3> SUFFICES ASSUME NEW d \in Complete
                 PROVE  leaked[d] = {} /\ (phase[d] \in {"out", "unbound"} => held[d] = {})
      BY <2>2 DEF NothingLeftBehind
    <3>1. d \in DriverNames /\ Litter(d) = {}
      BY DEF Complete, Litter
    <3> QED BY <2>2, <3>1 DEF SoundInv, Sound, BaseInv, Base, Settled
  <2> QED BY <2>1, <2>2
<1> QED BY <1>1, BaseHolds, SoundHolds, TidyLeaveNothing, PTL

-----------------------------------------------------------------------------
Depends(d) == \A r \in held[d] : Needs(d, r) \subseteq held[d]
Depending(d) == d \in Ordered /\ (faulty => d # "irt_work")
DependsInv == \A d \in DriverNames : Depending(d) => Depends(d)

\* A load acquires a thing only after what it needs.
LEMMA LoadStepDepends ==
  ASSUME BaseInv, SoundInv, NEW d \in DriverNames, Depending(d), Depends(d), LoadStep(d)
  PROVE  Depends(d)'
<1>1. Shape /\ phase[d] = "loading" /\ LoadFacts(d)
  BY Tables DEF BaseInv, LoadStep, TableFacts
<1>2. PICK k \in Nat : /\ 0 < k /\ k <= Done(d) /\ LoadingAt(d, k)
                       /\ ~faulty => Full(d, k) \subseteq held[d]
  BY <1>1 DEF BaseInv, Base, InLoad, SoundInv, Sound
<1> DEFINE step == Load(d)[k]
<1>3. k \in DOMAIN Load(d)
  BY <1>1, <1>2, LoadStepCases
<1>4. CASE held'[d] = held[d]
  BY <1>4 DEF Depends
<1>5. CASE Acquires(step) /\ ~MustFail(d, step) /\ held'[d] = held[d] \cup {step.res}
  <2>1. Needs(d, step.res) \ {"class"} \subseteq held[d]
    <3>1. CASE d # "irt_work"
      BY <1>1, <1>2, <1>3, <1>5, <3>1 DEF Depending, LoadFacts, LoadingAt
    <3>2. CASE d = "irt_work"
      BY <1>1, <1>2, <1>3, <1>5, <3>2 DEF Depending, LoadFacts, Full
    <3> QED BY <3>1, <3>2
  <2>2. step.res = "device" => "class" \in held[d]
    BY <1>1, <1>3, <1>5 DEF LoadFacts, MustFail
  <2>3. "class" \in Needs(d, step.res) => step.res = "device"
    BY DEF Needs
  <2> QED BY <1>5, <2>1, <2>2, <2>3 DEF Depends
<1> QED BY <1>1, <1>2, <1>4, <1>5, LoadStepCases

\* A release leaves nothing without what it needs.
LEMMA ReleaseDepends ==
  ASSUME BaseInv, SoundInv, NEW d \in DriverNames, Depending(d), Depends(d), Release(d)
  PROVE  Depends(d)'
<1>1. Shape /\ phase[d] \in {"undoing", "unloading"} /\ todo[d] # <<>>
  BY DEF BaseInv, Release
<1>2. CASE \E m, s : AtList(d, m, s) /\ IsSeq(s) /\ Releasing(d, m, s)
  <2>1. PICK m, s : AtList(d, m, s) /\ IsSeq(s) /\ Releasing(d, m, s)
    BY <1>2
  <2>2. InOrder(d, m, s)
    <3>1. phase[d] = "undoing" => d # "irt_work"
      BY DEF Depending, SoundInv, Sound
    <3> QED BY <2>1, <3>1, Tables DEF TableFacts, UndoFacts, UnloadFacts, AtList, Depending
  <2>3. PICK k \in Nat : 0 < k /\ k <= Len(s) + 1 /\ ReleasingAt(d, m, s, k)
    BY <2>1 DEF Releasing
  <2>4. /\ k \in DOMAIN s
        /\ held'[d] = held[d] \/ held'[d] = held[d] \ {s[k]}
    <3>1. /\ k \in DOMAIN s /\ k + 1 <= Len(s) + 1
          /\ \/ /\ s[k] \in gone[d] \/ (s[k] = "device" /\ "class" \notin held[d])
                /\ Oops(d)
             \/ /\ s[k] \notin gone[d] /\ (s[k] = "device" => "class" \in held[d])
                /\ phase'[d] = phase[d] /\ held'[d] = held[d] \ {s[k]}
                /\ gone'[d] = gone[d] \cup ({s[k]} \cap held[d])
                /\ leaked'[d] = leaked[d] /\ open'[d] = open[d]
                /\ ReleasingAt(d, m, s, k + 1)'
      BY <1>1, <2>1, <2>3, ReleaseStep
    <3> QED BY <3>1 DEF Oops
  <2>5. \A r \in held[d] : s[k] \notin Needs(d, r)
    BY <2>2, <2>3, <2>4 DEF InOrder, ReleasingAt
  <2> QED BY <2>4, <2>5 DEF Depends
<1>3. CASE held[d] = {}
  BY <1>1, <1>3 DEF Release, Oops, Shape, Depends
<1> QED BY <1>1, <1>2, <1>3, Lists DEF Tidy, PublishesLast

\* A node, a cdev, a work item or an interrupt never outlives what it uses.
THEOREM Dependencies == Spec => []DependenciesHeld
<1>1. Init => DependsInv
  BY DEF Init, DependsInv, Depends
<1>2. BaseInv /\ SoundInv /\ DependsInv /\ [Next]_vars => DependsInv'
  <2> SUFFICES ASSUME BaseInv, SoundInv, DependsInv, [Next]_vars,
                      NEW d \in DriverNames, Depending(d)'
               PROVE  Depends(d)'
    BY DEF DependsInv
  <2>1. faulty' = faulty /\ Depending(d) /\ Depends(d)
    BY DEF DependsInv, Depending, Next, Crashed, vars
  <2>2. CASE UNCHANGED vars
    BY <2>1, <2>2 DEF vars, Depends
  <2>3. CASE UNCHANGED faulty /\ \E x \in DriverNames : Acts(x)
    <3>1. PICK x \in DriverNames : Acts(x)
      BY <2>3
    <3>2. CASE x # d
      BY <2>1, <2>3, <3>1, <3>2, Frame DEF BaseInv, Same, Depends
    <3>3. CASE x = d /\ LoadStep(d)
      BY <2>1, <3>3, LoadStepDepends
    <3>4. CASE x = d /\ Release(d)
      BY <2>1, <3>4, ReleaseDepends
    <3>5. CASE x = d /\ End(d)
      <4>1. \A r : Needs(d, r) \cap Managed = {}
        BY DEF Needs, Managed
      <4>2. held'[d] = held[d] \ Managed \/ held'[d] = {}
        BY <3>5, EndCases DEF BaseInv
      <4> QED BY <2>1, <4>1, <4>2 DEF Depends
    <3>6. CASE x = d /\ (Insmod(d) \/ Loaded(d) \/ Rmmod(d) \/ Open(d) \/ Close(d))
      <4>1. held' = held
        BY <3>6 DEF Insmod, Loaded, Rmmod, Open, Close
      <4> QED BY <2>1, <4>1 DEF Depends
    <3> QED BY <3>1, <3>2, <3>3, <3>4, <3>5, <3>6 DEF Acts
  <2> QED BY <2>2, <2>3, NextCases
<1>3. DependsInv => DependenciesHeld
  BY DEF DependsInv, Depends, Depending, DependenciesHeld, Ordered
<1> QED BY <1>1, <1>2, <1>3, BaseHolds, SoundHolds, PTL DEF Spec

==============================================================================
