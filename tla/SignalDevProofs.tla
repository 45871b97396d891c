-------------------------- MODULE SignalDevProofs --------------------------
\* What SignalDev guarantees for any number of readers and writers, with faults.
EXTENDS SignalDev, TLAPS

\* TypeOK is an invariant: only readers subscribe, and only subscribers are unaware.
THEOREM TypeCorrect == Spec => []TypeOK
<1>1. Init => TypeOK
  BY ProcsAssumption DEF Init, TypeOK, InHandler, ReaderPCs, WriterPCs
<1>2. TypeOK /\ [Next]_vars => TypeOK'
  <2> SUFFICES ASSUME TypeOK, [Next]_vars PROVE TypeOK'
    OBVIOUS
  <2> USE ProcsAssumption DEF TypeOK, Goto, InHandler, ReaderPCs, WriterPCs
  <2>1. CASE \E r \in Readers : Open(r)
    BY <2>1 DEF Open
  <2>2. CASE \E r \in Readers : Subscribe(r)
    BY <2>2 DEF Subscribe
  <2>3. CASE \E r \in Readers : Close(r)
    BY <2>3 DEF Close
  <2>4. CASE \E r \in Readers : Deliver(r)
    BY <2>4 DEF Deliver
  <2>5. CASE \E r \in Readers : TestReady(r)
    BY <2>5 DEF TestReady
  <2>6. CASE \E r \in Readers : CopyOut(r)
    BY <2>6 DEF CopyOut
  <2>7. CASE \E r \in Readers : Clear(r)
    BY <2>7 DEF Clear
  <2>8. CASE \E w \in Writers : Memset(w)
    BY <2>8 DEF Memset
  <2>9. CASE \E w \in Writers : CopyIn(w)
    BY <2>9 DEF CopyIn
  <2>10. CASE \E w \in Writers : SetReady(w)
    BY <2>10 DEF SetReady
  <2>11. CASE \E w \in Writers : KillFasync(w)
    BY <2>11 DEF KillFasync
  <2>12. CASE UNCHANGED vars
    BY <2>12 DEF vars
  <2> QED
    BY <2>1, <2>2, <2>3, <2>4, <2>5, <2>6, <2>7, <2>8, <2>9, <2>10, <2>11, <2>12
    DEF Next, ReadStep, WriteStep
<1> QED
  BY <1>1, <1>2, PTL DEF Spec

-----------------------------------------------------------------------------
\* NoStrandedData is an invariant: although SIGIO is coalesced and read and write are
\* not locked against each other, no subscriber sleeps through announced data,
\* because the flag is set before kill_fasync.
THEOREM NeverStrandsData == Spec => []NoStrandedData
<1>1. Init => NoStrandedData
  BY ProcsAssumption DEF Init, NoStrandedData
<1>2. TypeOK /\ NoStrandedData /\ [Next]_vars => NoStrandedData'
  <2> SUFFICES ASSUME TypeOK, NoStrandedData, [Next]_vars PROVE NoStrandedData'
    OBVIOUS
  <2> USE ProcsAssumption DEF TypeOK, Goto, InHandler, ReaderPCs, WriterPCs, NoStrandedData
  <2>1. CASE \E r \in Readers : Open(r)
    BY <2>1 DEF Open
  <2>2. CASE \E r \in Readers : Subscribe(r)
    BY <2>2 DEF Subscribe
  <2>3. CASE \E r \in Readers : Close(r)
    BY <2>3 DEF Close
  <2>4. CASE \E r \in Readers : Deliver(r)
    BY <2>4 DEF Deliver
  <2>5. CASE \E r \in Readers : TestReady(r)
    BY <2>5 DEF TestReady
  <2>6. CASE \E r \in Readers : CopyOut(r)
    BY <2>6 DEF CopyOut
  <2>7. CASE \E r \in Readers : Clear(r)
    BY <2>7 DEF Clear
  <2>8. CASE \E w \in Writers : Memset(w)
    BY <2>8 DEF Memset
  <2>9. CASE \E w \in Writers : CopyIn(w)
    BY <2>9 DEF CopyIn
  <2>10. CASE \E w \in Writers : SetReady(w)
    BY <2>10 DEF SetReady
  <2>11. CASE \E w \in Writers : KillFasync(w)
    BY <2>11 DEF KillFasync
  <2>12. CASE UNCHANGED vars
    BY <2>12 DEF vars
  <2> QED
    BY <2>1, <2>2, <2>3, <2>4, <2>5, <2>6, <2>7, <2>8, <2>9, <2>10, <2>11, <2>12
    DEF Next, ReadStep, WriteStep
<1> QED
  BY <1>1, <1>2, TypeCorrect, PTL DEF Spec

-----------------------------------------------------------------------------
\* ClosedMeansUnsubscribed is an invariant: the exit function of singal_io/io_mutil.c
\* has nothing to remove once every file is closed.
THEOREM ClosedIsUnsubscribed == Spec => []ClosedMeansUnsubscribed
<1>1. Init => ClosedMeansUnsubscribed
  BY ProcsAssumption DEF Init, ClosedMeansUnsubscribed
<1>2. TypeOK /\ ClosedMeansUnsubscribed /\ [Next]_vars => ClosedMeansUnsubscribed'
  <2> SUFFICES ASSUME TypeOK, ClosedMeansUnsubscribed, [Next]_vars PROVE ClosedMeansUnsubscribed'
    OBVIOUS
  <2> USE ProcsAssumption DEF TypeOK, Goto, InHandler, ReaderPCs, WriterPCs, ClosedMeansUnsubscribed
  <2>1. CASE \E r \in Readers : Open(r)
    BY <2>1 DEF Open
  <2>2. CASE \E r \in Readers : Subscribe(r)
    BY <2>2 DEF Subscribe
  <2>3. CASE \E r \in Readers : Close(r)
    BY <2>3 DEF Close
  <2>4. CASE \E r \in Readers : Deliver(r)
    BY <2>4 DEF Deliver
  <2>5. CASE \E r \in Readers : TestReady(r)
    BY <2>5 DEF TestReady
  <2>6. CASE \E r \in Readers : CopyOut(r)
    BY <2>6 DEF CopyOut
  <2>7. CASE \E r \in Readers : Clear(r)
    BY <2>7 DEF Clear
  <2>8. CASE \E w \in Writers : Memset(w)
    BY <2>8 DEF Memset
  <2>9. CASE \E w \in Writers : CopyIn(w)
    BY <2>9 DEF CopyIn
  <2>10. CASE \E w \in Writers : SetReady(w)
    BY <2>10 DEF SetReady
  <2>11. CASE \E w \in Writers : KillFasync(w)
    BY <2>11 DEF KillFasync
  <2>12. CASE UNCHANGED vars
    BY <2>12 DEF vars
  <2> QED
    BY <2>1, <2>2, <2>3, <2>4, <2>5, <2>6, <2>7, <2>8, <2>9, <2>10, <2>11, <2>12
    DEF Next, ReadStep, WriteStep
<1> QED
  BY <1>1, <1>2, TypeCorrect, PTL DEF Spec
=============================================================================
