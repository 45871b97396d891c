---------------------------- MODULE ExclusiveDev ----------------------------
(***************************************************************************)
(* The exclusive device of src/Compete/sem.c.  read takes the semaphore    *)
(* with down_trylock and release gives it back with up, whether or not the *)
(* file that is closed ever took it: a client like sem_read.c, which does  *)
(* not look at the result of its read, gives back what another one holds.  *)
(*                                                                         *)
(* down_trylock and up take the semaphore's own spinlock, so each handler  *)
(* is one step.                                                            *)
(***************************************************************************)
EXTENDS Naturals, FiniteSets

CONSTANTS
  Files,       \* the files that may be opened on the device
  MaxMisuses   \* bound: files closed without holding the semaphore

ASSUME MisusesAssumption == MaxMisuses \in Nat

VARIABLES
  count,     \* sem.count
  file,      \* each file is "closed" or "open"
  held,      \* history: units of the semaphore a file has taken since its open
  misuses    \* history: closes of files that held nothing

vars == <<count, file, held, misuses>>

Init ==
  /\ count   = 1
  /\ file    = [f \in Files |-> "closed"]
  /\ held    = [f \in Files |-> 0]
  /\ misuses = 0

Open(f) ==
  /\ file[f] = "closed"
  /\ file' = [file EXCEPT ![f] = "open"]
  /\ UNCHANGED <<count, held, misuses>>

\* Faulty variant: the result of down_trylock is read like that of mutex_trylock.
ReadWrongSense(f) ==
  /\ file[f] = "open"
  /\ IF count > 0
     THEN count' = count - 1 /\ UNCHANGED held
     ELSE held' = [held EXCEPT ![f] = @ + 1] /\ UNCHANGED count
  /\ UNCHANGED <<file, misuses>>

\* Faulty variant: the semaphore is taken whatever its count.
ReadIgnoresCount(f) ==
  /\ file[f] = "open"
  /\ count' = count - 1
  /\ held' = [held EXCEPT ![f] = @ + 1]
  /\ UNCHANGED <<file, misuses>>

\* read: down_trylock takes a unit, or fails and read returns -EBUSY.
Read(f) ==
  /\ file[f] = "open"
  /\ count > 0
  /\ count' = count - 1
  /\ held' = [held EXCEPT ![f] = @ + 1]
  /\ UNCHANGED <<file, misuses>>

\* Faulty variant: the semaphore is not given back.
ReleaseKeeps(f) ==
  /\ file[f] = "open"
  /\ held[f] = 0 => misuses < MaxMisuses
  /\ misuses' = IF held[f] = 0 THEN misuses + 1 ELSE misuses
  /\ file' = [file EXCEPT ![f] = "closed"]
  /\ held' = [held EXCEPT ![f] = 0]
  /\ UNCHANGED count

\* Faulty variant: the semaphore is given back by flush and by release.
ReleaseTwice(f) ==
  /\ file[f] = "open"
  /\ held[f] = 0 => misuses < MaxMisuses
  /\ misuses' = IF held[f] = 0 THEN misuses + 1 ELSE misuses
  /\ count' = count + 2
  /\ file' = [file EXCEPT ![f] = "closed"]
  /\ held' = [held EXCEPT ![f] = 0]

\* release: up, unconditionally, one unit whatever the file has taken.
Release(f) ==
  /\ file[f] = "open"
  /\ held[f] = 0 => misuses < MaxMisuses
  /\ misuses' = IF held[f] = 0 THEN misuses + 1 ELSE misuses
  /\ count' = count + 1
  /\ file' = [file EXCEPT ![f] = "closed"]
  /\ held' = [held EXCEPT ![f] = 0]

Next == \E f \in Files : Open(f) \/ Read(f) \/ Release(f)

Spec == Init /\ [][Next]_vars

-----------------------------------------------------------------------------
Holders == {f \in Files : held[f] > 0}

TypeOK ==
  /\ count \in Nat
  /\ file \in [Files -> {"closed", "open"}]
  /\ held \in [Files -> Nat]
  /\ misuses \in 0 .. MaxMisuses

\* As long as no file was closed that held nothing, the semaphore is a lock: free
\* and held by nobody, or taken once, by one file.
LockUntilMisused ==
  misuses = 0 => \/ count = 1 /\ Holders = {}
                 \/ count = 0 /\ \E f \in Files : Holders = {f} /\ held[f] = 1

\* Each such close lets one more file in, and no more than one.
HoldersBounded == Cardinality(Holders) + count <= 1 + misuses

\* However it was misused, the device is never busy with nobody holding it.
NeverLockedOut == Holders = {} => count > 0

\* "Device is locked, return EBUSY" and "unlocked only on close": while one file
\* has the device no other one gets it.
MutualExclusion == Cardinality(Holders) <= 1

\* sem.c implements the abstract lock.
AbstractLock == INSTANCE DeviceLock WITH owners <- Holders, broken <- (misuses > 0)
ImplementsLock == AbstractLock!Spec
=============================================================================
