----------------------------- MODULE KeysProofs -----------------------------
(***************************************************************************)
(* Proofs about the keys and their led, for whichever of the drivers may   *)
(* be bound and however the keys are pressed.                              *)
(***************************************************************************)
EXTENDS Keys, TLAPS

\* The types of the variables hold in every reachable state.
THEOREM KeysTypeCorrect == KeysSpec => []KeysTypeOK
<1>1. KeysInit => KeysTypeOK
  BY DEF KeysInit, KeysTypeOK, TheKeys
<1>2. KeysTypeOK /\ [KeysNext]_keys => KeysTypeOK'
  <2> SUFFICES ASSUME KeysTypeOK, [KeysNext]_keys PROVE KeysTypeOK'
    OBVIOUS
  <2>1. ASSUME NEW k \in TheKeys, Press(k) \/ LetGo(k) \/ Handler(k) PROVE KeysTypeOK'
    BY <2>1 DEF KeysTypeOK, TheKeys, Press, LetGo, Handler, Report, LedOf
  <2>2. CASE WriteLed \/ Timer \/ WorkStep
    BY <2>2 DEF KeysTypeOK, TheKeys, WriteLed, Timer, WorkStep, Work, SampleKey1, SampleKey2,
                SetForKey1, SetForKey2, Rearm
  <2>3. CASE Remove \/ Cancelled \/ Unbound \/ Probe
    BY <2>3 DEF KeysTypeOK, TheKeys, Remove, Cancelled, Unbound, Probe
  <2>4. CASE UNCHANGED keys
    BY <2>4 DEF KeysTypeOK, keys
  <2> QED BY <2>1, <2>2, <2>3, <2>4 DEF KeysNext
<1> QED BY <1>1, <1>2, PTL DEF KeysSpec

-----------------------------------------------------------------------------
\* Only irt_work has work, and from the moment that its removal begins the work is
\* not queued any more; when the led's gpio is given back it has ended.
WorkOrder ==
  /\ driver # "irt_work" => ~armed /\ worker = "off"
  /\ stage # "bound" => ~armed
  /\ stage \in {"freed", "out"} => worker = "off"
  /\ WorkNeverStops

\* What the work found down was down during the run.
SampledWasDown ==
  /\ worker # "off" => down \subseteq recent
  /\ worker \in {"key2", "led1", "led2", "rearm"} => sampled \subseteq recent

LEMMA WorkIsOrdered == KeysSpec => []WorkOrder
<1>1. KeysInit => WorkOrder
  BY DEF KeysInit, WorkOrder, WorkNeverStops
<1>2. KeysTypeOK /\ WorkOrder /\ [KeysNext]_keys => WorkOrder'
  <2> SUFFICES ASSUME KeysTypeOK, WorkOrder, [KeysNext]_keys PROVE WorkOrder'
    OBVIOUS
  <2> USE DEF KeysTypeOK, WorkOrder, WorkNeverStops
  <2>1. ASSUME NEW k \in TheKeys, Press(k) \/ LetGo(k) \/ Handler(k) PROVE WorkOrder'
    BY <2>1 DEF Press, LetGo, Handler
  <2>2. CASE WriteLed
    BY <2>2 DEF WriteLed
  <2>3. CASE Timer
    <3>1. armed /\ armed' = FALSE /\ worker' = "key1" /\ driver' = driver /\ stage' = stage
      BY <2>3 DEF Timer, Work
    <3>2. driver = "irt_work" /\ stage = "bound"
      BY <3>1
    <3> QED BY <3>1, <3>2
  <2>4. CASE SampleKey1 \/ SampleKey2 \/ SetForKey1 \/ SetForKey2
    BY <2>4 DEF Work, SampleKey1, SampleKey2, SetForKey1, SetForKey2
  <2>5. CASE Rearm
    BY <2>5 DEF Work, Rearm
  <2>6. CASE Remove \/ Cancelled
    BY <2>6 DEF Remove, Cancelled
  <2>7. CASE Unbound \/ Probe
    BY <2>7 DEF Unbound, Probe
  <2>8. CASE UNCHANGED keys
    BY <2>8 DEF keys
  <2> QED BY <2>1, <2>2, <2>3, <2>4, <2>5, <2>6, <2>7, <2>8 DEF KeysNext, WorkStep
<1> QED BY <1>1, <1>2, KeysTypeCorrect, PTL DEF KeysSpec

\* Once the led's gpio is given back no work is queued or running.
THEOREM WorkEndsBeforeGpio == KeysSpec => []WorkIsGone
<1>1. WorkOrder => WorkIsGone
  BY DEF WorkOrder, WorkIsGone
<1> QED BY <1>1, WorkIsOrdered, PTL

\* A bound driver polls for ever, and never twice at once.
THEOREM KeepsPolling == KeysSpec => []WorkNeverStops
<1>1. WorkOrder => WorkNeverStops
  BY DEF WorkOrder
<1> QED BY <1>1, WorkIsOrdered, PTL

-----------------------------------------------------------------------------
LEMMA SamplesAreRecent == KeysSpec => []SampledWasDown
<1>1. KeysInit => SampledWasDown
  BY DEF KeysInit, SampledWasDown
<1>2. SampledWasDown /\ [KeysNext]_keys => SampledWasDown'
  <2> SUFFICES ASSUME SampledWasDown, [KeysNext]_keys PROVE SampledWasDown'
    OBVIOUS
  <2> USE DEF SampledWasDown
  <2>1. ASSUME NEW k \in TheKeys, Press(k) \/ LetGo(k) \/ Handler(k)
        PROVE  SampledWasDown'
    BY <2>1 DEF Press, LetGo, Handler
  <2>2. CASE WriteLed \/ Timer
    BY <2>2 DEF WriteLed, Timer, Work
  <2>3. CASE WorkStep
    BY <2>3 DEF Work, WorkStep, SampleKey1, SampleKey2, SetForKey1, SetForKey2, Rearm
  <2>4. CASE Remove \/ Cancelled \/ Unbound \/ Probe
    BY <2>4 DEF Remove, Cancelled, Unbound, Probe
  <2>5. CASE UNCHANGED keys
    BY <2>5 DEF keys
  <2> QED BY <2>1, <2>2, <2>3, <2>4, <2>5 DEF KeysNext
<1> QED BY <1>1, <1>2, PTL DEF KeysSpec

\* The work and the handlers set the led only to what a key asks for that was down
\* during the run, or whose interrupt is pending.
THEOREM LedObeysKeys == KeysSpec => LedFollowsKeys
<1> DEFINE Asked ==
      led' # led /\ stage' = stage /\ <<worker, pending>>' # <<worker, pending>> =>
        KeyOf(led') \in (IF driver = "irt_work" THEN recent ELSE pending)
<1>1. KeysTypeOK /\ WorkOrder /\ SampledWasDown /\ [KeysNext]_keys => [Asked]_keys
  <2> SUFFICES ASSUME KeysTypeOK, WorkOrder, SampledWasDown, KeysNext PROVE Asked
    OBVIOUS
  <2>1. ASSUME NEW k \in TheKeys, Press(k) \/ LetGo(k) PROVE Asked
    BY <2>1 DEF Press, LetGo
  <2>2. ASSUME NEW k \in TheKeys, Handler(k) PROVE Asked
    <3>1. led' # led => driver = "irt_irq" /\ led' = LedOf(k) /\ k \in pending
      BY <2>2 DEF Handler
    <3>2. KeyOf(LedOf(k)) = k
      BY <2>2 DEF TheKeys, KeyOf, LedOf
    <3> QED BY <3>1, <3>2
  <2>3. CASE WriteLed \/ Timer
    BY <2>3 DEF WriteLed, Timer
  <2>4. CASE SampleKey1 \/ SampleKey2 \/ Rearm
    BY <2>4 DEF SampleKey1, SampleKey2, Rearm
  <2>5. CASE SetForKey1
    BY <2>5 DEF SetForKey1, Work, WorkOrder, SampledWasDown, KeyOf
  <2>6. CASE SetForKey2
    BY <2>6 DEF SetForKey2, Work, WorkOrder, SampledWasDown, KeyOf
  <2>7. CASE Remove \/ Cancelled \/ Unbound \/ Probe
    BY <2>7 DEF Remove, Cancelled, Unbound, Probe
  <2> QED BY <2>1, <2>2, <2>3, <2>4, <2>5, <2>6, <2>7 DEF KeysNext, WorkStep
<1> QED BY <1>1, KeysTypeCorrect, WorkIsOrdered, SamplesAreRecent, PTL
            DEF KeysSpec, LedFollowsKeys
=============================================================================
