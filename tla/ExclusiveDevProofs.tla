------------------------- MODULE ExclusiveDevProofs -------------------------
\* What ExclusiveDev guarantees for any set of files and any number of misuses.
EXTENDS ExclusiveDev, FiniteSetTheorems, TLAPS

\* TypeOK is an invariant: down_trylock never takes a unit that is not there.
THEOREM TypeCorrect == Spec => []TypeOK
<1>1. Init => TypeOK
  BY MisusesAssumption DEF Init, TypeOK
<1>2. TypeOK /\ [Next]_vars => TypeOK'
  <2> SUFFICES ASSUME TypeOK, [Next]_vars PROVE TypeOK'
    OBVIOUS
  <2> USE MisusesAssumption DEF TypeOK
  <2>1. ASSUME NEW f \in Files, Open(f) PROVE TypeOK'
    BY <2>1 DEF Open
  <2>2. ASSUME NEW f \in Files, Read(f) PROVE TypeOK'
    BY <2>2 DEF Read
  <2>3. ASSUME NEW f \in Files, Release(f) PROVE TypeOK'
    BY <2>3 DEF Release
  <2>4. CASE UNCHANGED vars
    BY <2>4 DEF vars
  <2> QED
    BY <2>1, <2>2, <2>3, <2>4 DEF Next
<1> QED
  BY <1>1, <1>2, PTL DEF Spec

-----------------------------------------------------------------------------
\* How a step changes who holds the device: read adds the reader.
LEMMA ReadAddsHolder ==
  ASSUME TypeOK, NEW f \in Files, Read(f)
  PROVE  Holders' = Holders \cup {f}
BY DEF TypeOK, Read, Holders

\* release removes the file that is closed, and only that one.
LEMMA ReleaseRemovesHolder ==
  ASSUME TypeOK, NEW f \in Files, Release(f)
  PROVE  Holders' = Holders \ {f}
BY DEF TypeOK, Release, Holders

\* LockUntilMisused is an invariant: the semaphore of sem.c excludes, until a
\* file is closed that did not hold it.
THEOREM LocksUntilMisused == Spec => []LockUntilMisused
<1>1. Init => LockUntilMisused
  BY DEF Init, LockUntilMisused, Holders
<1>2. TypeOK /\ LockUntilMisused /\ [Next]_vars => LockUntilMisused'
  <2> SUFFICES ASSUME TypeOK, LockUntilMisused, [Next]_vars, misuses' = 0
               PROVE  LockUntilMisused'
    BY DEF LockUntilMisused
  <2>1. ASSUME NEW f \in Files, Open(f) PROVE LockUntilMisused'
    BY <2>1 DEF Open, LockUntilMisused, Holders
  <2>2. ASSUME NEW f \in Files, Read(f) PROVE LockUntilMisused'
    <3>1. count = 1 /\ Holders = {}
      BY <2>2 DEF Read, LockUntilMisused
    <3>2. Holders' = {f} /\ held[f] = 0
      BY <2>2, <3>1, ReadAddsHolder DEF Holders, TypeOK
    <3>3. count' = 0 /\ held'[f] = 1
      BY <2>2, <3>1, <3>2 DEF Read, TypeOK
    <3> QED
      BY <3>2, <3>3 DEF LockUntilMisused
  <2>3. ASSUME NEW f \in Files, Release(f) PROVE LockUntilMisused'
    <3>1. misuses = 0 /\ f \in Holders
      BY <2>3, MisusesAssumption DEF Release, TypeOK, Holders
    <3>2. count = 0 /\ Holders = {f}
      BY <3>1 DEF LockUntilMisused
    <3>3. Holders' = {}
      BY <2>3, <3>2, ReleaseRemovesHolder
    <3>4. count' = 1
      BY <2>3, <3>2 DEF Release
    <3> QED
      BY <3>3, <3>4 DEF LockUntilMisused
  <2>4. CASE UNCHANGED vars
    BY <2>4 DEF vars, LockUntilMisused, Holders
  <2> QED
    BY <2>1, <2>2, <2>3, <2>4 DEF Next
<1> QED
  BY <1>1, <1>2, TypeCorrect, PTL DEF Spec

\* NeverLockedOut is an invariant: whatever the clients do, the device is never
\* busy for good with nobody holding it.
THEOREM NeverLocksOut == Spec => []NeverLockedOut
<1>1. Init => NeverLockedOut
  BY DEF Init, NeverLockedOut
<1>2. TypeOK /\ NeverLockedOut /\ [Next]_vars => NeverLockedOut'
  <2> SUFFICES ASSUME TypeOK, NeverLockedOut, [Next]_vars, Holders' = {}
               PROVE  count' > 0
    BY DEF NeverLockedOut
  <2>1. ASSUME NEW f \in Files, Open(f) PROVE count' > 0
    BY <2>1 DEF Open, NeverLockedOut, Holders
  <2>2. ASSUME NEW f \in Files, Read(f) PROVE count' > 0
    BY <2>2, ReadAddsHolder
  <2>3. ASSUME NEW f \in Files, Release(f) PROVE count' > 0
    BY <2>3 DEF Release, TypeOK
  <2>4. CASE UNCHANGED vars
    BY <2>4 DEF vars, NeverLockedOut, Holders
  <2> QED
    BY <2>1, <2>2, <2>3, <2>4 DEF Next
<1> QED
  BY <1>1, <1>2, TypeCorrect, PTL DEF Spec

-----------------------------------------------------------------------------
\* sem.c implements DeviceLock: every step is an Acquire, a Release or the Break of
\* the abstract lock, or leaves it alone.
THEOREM ImplementsAbstractLock == Spec => ImplementsLock
<1> USE DEF ImplementsLock
<1>1. Init => AbstractLock!Init
  BY DEF Init, AbstractLock!Init, Holders
<1>2. TypeOK /\ LockUntilMisused /\ [Next]_vars
        => [AbstractLock!Next]_(AbstractLock!vars)
  <2> SUFFICES ASSUME TypeOK, LockUntilMisused, [Next]_vars
               PROVE  [AbstractLock!Next]_(AbstractLock!vars)
    OBVIOUS
  <2> USE DEF AbstractLock!Next, AbstractLock!vars
  <2>1. ASSUME NEW f \in Files, Open(f) PROVE UNCHANGED AbstractLock!vars
    BY <2>1 DEF Open, Holders
  <2>2. ASSUME NEW f \in Files, Read(f) PROVE AbstractLock!Acquire(f)
    <3>1. Holders = {} \/ misuses > 0
      BY <2>2, MisusesAssumption DEF Read, LockUntilMisused, TypeOK
    <3>2. misuses' = misuses
      BY <2>2 DEF Read
    <3> QED
      BY <2>2, <3>1, <3>2, ReadAddsHolder DEF AbstractLock!Acquire
  <2>3. ASSUME NEW f \in Files, Release(f) PROVE AbstractLock!Release(f) \/ AbstractLock!Break
    <3>1. CASE f \in Holders
      <4>1. misuses' = misuses
        BY <2>3, <3>1 DEF Release, Holders
      <4> QED
        BY <2>3, <3>1, <4>1, ReleaseRemovesHolder DEF AbstractLock!Release
    <3>2. CASE f \notin Holders
      <4>1. held[f] = 0
        BY <3>2 DEF Holders, TypeOK
      <4>2. misuses' > 0
        BY <2>3, <4>1, MisusesAssumption DEF Release, TypeOK
      <4>3. Holders' = Holders
        BY <2>3, <3>2, ReleaseRemovesHolder
      <4> QED
        BY <4>2, <4>3 DEF AbstractLock!Break
    <3> QED
      BY <3>1, <3>2
  <2>4. CASE UNCHANGED vars
    BY <2>4 DEF vars, Holders
  <2> QED
    BY <2>1, <2>2, <2>3, <2>4 DEF Next
<1> QED
  BY <1>1, <1>2, TypeCorrect, LocksUntilMisused, PTL DEF Spec, AbstractLock!Spec

-----------------------------------------------------------------------------
\* Each step changes the holders by one file at most, so they are always finitely
\* many, even if the files are not.
FinitelyMany == IsFiniteSet(Holders) /\ HoldersBounded

\* However often the device was misused, each close of a file that held nothing has
\* let in one more holder at most.
THEOREM BoundsHolders == Spec => []HoldersBounded
<1>1. Init => FinitelyMany
  <2> SUFFICES ASSUME Init PROVE FinitelyMany
    OBVIOUS
  <2>1. Holders = {}
    BY DEF Init, Holders
  <2>2. count = 1 /\ misuses = 0
    BY DEF Init
  <2> QED BY <2>1, <2>2, FS_EmptySet DEF FinitelyMany, HoldersBounded
<1>2. TypeOK /\ FinitelyMany /\ [Next]_vars => FinitelyMany'
  <2> SUFFICES ASSUME TypeOK, FinitelyMany, [Next]_vars PROVE FinitelyMany'
    OBVIOUS
  <2>0. Cardinality(Holders) \in Nat /\ count \in Nat /\ misuses \in Nat
    BY FS_CardinalityType, MisusesAssumption DEF FinitelyMany, TypeOK
  <2>1. ASSUME NEW f \in Files, Open(f) PROVE FinitelyMany'
    BY <2>1 DEF Open, FinitelyMany, HoldersBounded, Holders
  <2>2. ASSUME NEW f \in Files, Read(f) PROVE FinitelyMany'
    <3>1. Holders' = Holders \cup {f} /\ count' = count - 1 /\ misuses' = misuses
      BY <2>2, ReadAddsHolder DEF Read
    <3>2. IsFiniteSet(Holders') /\ Cardinality(Holders') <= Cardinality(Holders) + 1
      BY <2>0, <3>1, FS_AddElement DEF FinitelyMany
    <3>3. Cardinality(Holders') \in Nat
      BY <3>2, FS_CardinalityType
    <3> QED BY <2>0, <3>1, <3>2, <3>3 DEF FinitelyMany, HoldersBounded
  <2>3. ASSUME NEW f \in Files, Release(f) PROVE FinitelyMany'
    <3>1. Holders' = Holders \ {f} /\ count' = count + 1
      BY <2>3, ReleaseRemovesHolder DEF Release
    <3>2. IsFiniteSet(Holders')
      BY <3>1, FS_RemoveElement DEF FinitelyMany
    <3>3. Cardinality(Holders') \in Nat
      BY <3>2, FS_CardinalityType
    <3>4. CASE held[f] = 0
      <4>1. Holders' = Holders /\ misuses' = misuses + 1
        BY <2>3, <3>1, <3>4 DEF Release, Holders
      <4> QED BY <2>0, <3>1, <3>2, <4>1 DEF FinitelyMany, HoldersBounded
    <3>5. CASE held[f] # 0
      <4>1. f \in Holders /\ misuses' = misuses
        BY <2>3, <3>5 DEF Release, Holders, TypeOK
      <4>2. Cardinality(Holders') = Cardinality(Holders) - 1
        BY <3>1, <4>1, FS_RemoveElement DEF FinitelyMany
      <4> QED BY <2>0, <3>1, <3>2, <4>1, <4>2 DEF FinitelyMany, HoldersBounded
    <3> QED BY <3>4, <3>5
  <2>4. CASE UNCHANGED vars
    BY <2>4 DEF vars, FinitelyMany, HoldersBounded, Holders
  <2> QED BY <2>1, <2>2, <2>3, <2>4 DEF Next
<1> QED BY <1>1, <1>2, TypeCorrect, PTL DEF Spec, FinitelyMany
=============================================================================
