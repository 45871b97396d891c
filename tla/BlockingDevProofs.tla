-------------------------- MODULE BlockingDevProofs --------------------------
(***************************************************************************)
(* What BlockingDev guarantees for any number of processes.  Its writers   *)
(* take no lock, so each safety property needs its own argument about what *)
(* another process may have done since the last step of this one.          *)
(***************************************************************************)
EXTENDS BlockingDev, TLAPS

\* TypeOK is an invariant: io_mutil.c keeps the flag a flag, and only sleepers are ever queued.
THEOREM TypeCorrect == Spec => []TypeOK
<1>1. Init => TypeOK
  BY ProcsAssumption DEF Init, TypeOK, Procs, Sleepers, ReaderPCs, PollPCs, NbPCs, WriterPCs
<1>2. TypeOK /\ [Next]_vars => TypeOK'
  <2> SUFFICES ASSUME TypeOK, [Next]_vars PROVE TypeOK'
    OBVIOUS
  <2> USE ProcsAssumption DEF TypeOK, Goto, Procs, Sleepers, ReaderPCs, PollPCs, NbPCs, WriterPCs
  <2>1. CASE \E r \in Sleepers : ReadCall(r)
    BY <2>1 DEF ReadCall
  <2>2. CASE \E r \in Sleepers : Prepare(r)
    BY <2>2 DEF Prepare
  <2>3. CASE \E r \in Sleepers : Check(r)
    BY <2>3 DEF Check
  <2>4. CASE \E r \in Sleepers : Resume(r)
    BY <2>4 DEF Resume
  <2>5. CASE \E r \in Sleepers : Clear(r)
    BY <2>5 DEF Clear
  <2>6. CASE \E r \in Sleepers : CopyOut(r)
    BY <2>6 DEF CopyOut, GiveUp
  <2>7. CASE \E r \in Sleepers : Signal(r)
    BY <2>7 DEF Signal
  <2>8. CASE \E n \in Nonblocking : NbTest(n) \/ NbStep(n)
    BY <2>8 DEF NbTest, NbStep, NbCopy, NbClear, GiveUp
  <2>9. CASE \E p \in Polling : PollWait(p)
    BY <2>9 DEF PollWait
  <2>10. CASE \E p \in Polling : PollCheck(p)
    BY <2>10 DEF PollCheck
  <2>11. CASE \E w \in Writers : Memset(w) \/ SetCond(w) \/ WakeUp(w)
    BY <2>11 DEF Memset, SetCond, WakeUp
  <2>12. CASE \E w \in Writers : CopyIn(w)
    BY <2>12 DEF CopyIn
  <2>13. CASE UNCHANGED vars
    BY <2>13 DEF vars
  <2> QED
    BY <2>1, <2>2, <2>3, <2>4, <2>5, <2>6, <2>7, <2>8, <2>9, <2>10, <2>11, <2>12, <2>13
    DEF Next, ReadStep, PollStep, WriteStep
<1> QED
  BY <1>1, <1>2, PTL DEF Spec

-----------------------------------------------------------------------------
\* NoLostWakeup is an invariant, with faults and signals: testing the condition
\* again after queueing (wait_event) or after poll_wait is what makes it inductive.
THEOREM NeverLosesWakeup == Spec => []NoLostWakeup
<1>1. Init => NoLostWakeup
  BY DEF Init, NoLostWakeup
<1>2. TypeOK /\ NoLostWakeup /\ [Next]_vars => NoLostWakeup'
  <2> SUFFICES ASSUME TypeOK, NoLostWakeup, [Next]_vars PROVE NoLostWakeup'
    OBVIOUS
  <2> USE ProcsAssumption DEF TypeOK, Goto, Procs, Sleepers, NoLostWakeup
  <2>1. CASE \E r \in Sleepers : ReadCall(r)
    BY <2>1 DEF ReadCall
  <2>2. CASE \E r \in Sleepers : Prepare(r)
    BY <2>2 DEF Prepare
  <2>3. CASE \E r \in Sleepers : Check(r)
    BY <2>3 DEF Check
  <2>4. CASE \E r \in Sleepers : Resume(r)
    BY <2>4 DEF Resume
  <2>5. CASE \E r \in Sleepers : Clear(r)
    BY <2>5 DEF Clear
  <2>6. CASE \E r \in Sleepers : CopyOut(r)
    BY <2>6 DEF CopyOut, GiveUp
  <2>7. CASE \E r \in Sleepers : Signal(r)
    BY <2>7 DEF Signal
  <2>8. CASE \E n \in Nonblocking : NbTest(n) \/ NbStep(n)
    BY <2>8 DEF NbTest, NbStep, NbCopy, NbClear, GiveUp
  <2>9. CASE \E p \in Polling : PollStep(p)
    BY <2>9 DEF PollStep, PollWait, PollCheck
  <2>10. CASE \E w \in Writers : Memset(w)
    BY <2>10 DEF Memset
  <2>11. CASE \E w \in Writers : CopyIn(w)
    BY <2>11 DEF CopyIn
  <2>12. CASE \E w \in Writers : SetCond(w)
    BY <2>12 DEF SetCond
  <2>13. CASE \E w \in Writers : WakeUp(w)
    BY <2>13 DEF WakeUp
  <2>14. CASE UNCHANGED vars
    BY <2>14 DEF vars
  <2> QED
    BY <2>1, <2>2, <2>3, <2>4, <2>5, <2>6, <2>7, <2>8, <2>9, <2>10, <2>11, <2>12, <2>13, <2>14
    DEF Next, ReadStep, WriteStep
<1> QED
  BY <1>1, <1>2, TypeCorrect, PTL DEF Spec

-----------------------------------------------------------------------------
\* NoLostMessage is an invariant: clearing the condition before the copy, as the
\* blocking path does, never hides a message.
THEOREM NeverLosesMessage == Spec => []NoLostMessage
<1>1. Init => NoLostMessage
  BY DEF Init, NoLostMessage
<1>2. TypeOK /\ NoLostMessage /\ [Next]_vars => NoLostMessage'
  <2> SUFFICES ASSUME TypeOK, NoLostMessage, [Next]_vars PROVE NoLostMessage'
    OBVIOUS
  <2> USE ProcsAssumption DEF TypeOK, Goto, Procs, Sleepers, NoLostMessage
  <2>1. CASE \E r \in Sleepers : ReadCall(r)
    BY <2>1 DEF ReadCall
  <2>2. CASE \E r \in Sleepers : Prepare(r)
    BY <2>2 DEF Prepare
  <2>3. CASE \E r \in Sleepers : Check(r)
    BY <2>3 DEF Check
  <2>4. CASE \E r \in Sleepers : Resume(r)
    BY <2>4 DEF Resume
  <2>5. CASE \E r \in Sleepers : Clear(r)
    BY <2>5 DEF Clear
  <2>6. CASE \E r \in Sleepers : CopyOut(r)
    BY <2>6 DEF CopyOut, GiveUp
  <2>7. CASE \E r \in Sleepers : Signal(r)
    BY <2>7 DEF Signal
  <2>8. CASE \E n \in Nonblocking : NbTest(n) \/ NbStep(n)
    BY <2>8 DEF NbTest, NbStep, NbCopy, NbClear, GiveUp
  <2>9. CASE \E p \in Polling : PollStep(p)
    BY <2>9 DEF PollStep, PollWait, PollCheck
  <2>10. CASE \E w \in Writers : Memset(w)
    BY <2>10 DEF Memset
  <2>11. CASE \E w \in Writers : CopyIn(w)
    BY <2>11 DEF CopyIn
  <2>12. CASE \E w \in Writers : SetCond(w)
    BY <2>12 DEF SetCond
  <2>13. CASE \E w \in Writers : WakeUp(w)
    BY <2>13 DEF WakeUp
  <2>14. CASE UNCHANGED vars
    BY <2>14 DEF vars
  <2> QED
    BY <2>1, <2>2, <2>3, <2>4, <2>5, <2>6, <2>7, <2>8, <2>9, <2>10, <2>11, <2>12, <2>13, <2>14
    DEF Next, ReadStep, WriteStep
<1> QED
  BY <1>1, <1>2, TypeCorrect, PTL DEF Spec

-----------------------------------------------------------------------------
\* ConditionMeansMessage is not inductive: a writer that is about to announce must
\* itself know that the buffer holds a message, is being overwritten, or has been
\* spoiled since by a copy of another writer that failed.
AnnouncerHasMessage ==
  (\E w \in Writers : pc[w] = "setcond") /\ kernel_buf # "message"
     => failed \/ \E w \in Writers : pc[w] = "copyin"

\* The inductive invariant behind ConditionMeansMessage.
WholeMessage == ConditionMeansMessage /\ AnnouncerHasMessage

\* ConditionMeansMessage is an invariant: io_mutil.c sets the condition after the
\* copy, so with any number of writers only a write in between, or a copy that
\* failed, leaves anything but a message announced.
THEOREM ConditionAnnouncesMessage == Spec => []ConditionMeansMessage
<1>1. Init => WholeMessage
  BY ProcsAssumption
  DEF Init, WholeMessage, ConditionMeansMessage, AnnouncerHasMessage, Procs, Sleepers
<1>2. TypeOK /\ WholeMessage /\ [Next]_vars => WholeMessage'
  <2> SUFFICES ASSUME TypeOK, WholeMessage, [Next]_vars PROVE WholeMessage'
    OBVIOUS
  <2> USE ProcsAssumption DEF TypeOK, Goto, Procs, Sleepers, WholeMessage, ConditionMeansMessage, AnnouncerHasMessage
  <2>1. CASE \E r \in Sleepers : ReadCall(r)
    BY <2>1 DEF ReadCall
  <2>2. CASE \E r \in Sleepers : Prepare(r)
    BY <2>2 DEF Prepare
  <2>3. CASE \E r \in Sleepers : Check(r)
    BY <2>3 DEF Check
  <2>4. CASE \E r \in Sleepers : Resume(r)
    BY <2>4 DEF Resume
  <2>5. CASE \E r \in Sleepers : Clear(r)
    BY <2>5 DEF Clear
  <2>6. CASE \E r \in Sleepers : CopyOut(r)
    BY <2>6 DEF CopyOut, GiveUp
  <2>7. CASE \E r \in Sleepers : Signal(r)
    BY <2>7 DEF Signal
  <2>8. CASE \E n \in Nonblocking : NbTest(n) \/ NbStep(n)
    BY <2>8 DEF NbTest, NbStep, NbCopy, NbClear, GiveUp
  <2>9. CASE \E p \in Polling : PollStep(p)
    BY <2>9 DEF PollStep, PollWait, PollCheck
  <2>10. CASE \E w \in Writers : Memset(w)
    BY <2>10 DEF Memset
  <2>11. CASE \E w \in Writers : CopyIn(w)
    BY <2>11 DEF CopyIn
  <2>12. CASE \E w \in Writers : SetCond(w)
    BY <2>12 DEF SetCond
  <2>13. CASE \E w \in Writers : WakeUp(w)
    BY <2>13 DEF WakeUp
  <2>14. CASE UNCHANGED vars
    BY <2>14 DEF vars
  <2> QED
    BY <2>1, <2>2, <2>3, <2>4, <2>5, <2>6, <2>7, <2>8, <2>9, <2>10, <2>11, <2>12, <2>13, <2>14
    DEF Next, ReadStep, WriteStep
<1>3. WholeMessage => ConditionMeansMessage
  BY DEF WholeMessage
<1> QED
  BY <1>1, <1>2, <1>3, TypeCorrect, PTL DEF Spec
=============================================================================
