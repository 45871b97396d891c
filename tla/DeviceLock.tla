----------------------------- MODULE DeviceLock -----------------------------
(***************************************************************************)
(* What src/Compete/sem.c promises to its clients, independently of how:   *)
(* the device belongs to at most one open file at a time.  The promise has *)
(* a condition, a file must own the device when it is closed.  Once a file *)
(* has broken it, nothing is promised any more.                            *)
(***************************************************************************)
CONSTANT Files      \* the files that may be opened on the device

VARIABLES
  owners,   \* the files that own the device
  broken    \* has a file been closed that did not own the device?

vars == <<owners, broken>>

Init == owners = {} /\ broken = FALSE

Acquire(f) ==
  /\ owners = {} \/ broken
  /\ owners' = owners \cup {f}
  /\ UNCHANGED broken

Release(f) ==
  /\ f \in owners
  /\ owners' = owners \ {f}
  /\ UNCHANGED broken

Break ==
  /\ broken' = TRUE
  /\ UNCHANGED owners

Next == Break \/ \E f \in Files : Acquire(f) \/ Release(f)

Spec == Init /\ [][Next]_vars
=============================================================================
