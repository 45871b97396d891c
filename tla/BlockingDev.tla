---------------------------- MODULE BlockingDev ----------------------------
(***************************************************************************)
(* The character device of src/io_mutil_dec/io_mutil.c: one global buffer, *)
(* one flag  condition  and one wait queue, shared without a lock by every *)
(* process that has the device open.  Every statement that touches shared  *)
(* state is a step of its own, because the driver can be preempted or can  *)
(* sleep (copy_to_user, copy_from_user, wait_event_interruptible) between  *)
(* any two of them.                                                        *)
(*                                                                         *)
(* The data is abstracted to what the properties tell apart: the buffer is *)
(* as memset left it, as a write that has copied all its bytes left it (an *)
(* empty message, and the mixed bytes of writes that overlapped, included) *)
(* or holds a part of a message.                                           *)
(***************************************************************************)
EXTENDS Naturals

CONSTANTS
  Blocking,     \* processes that call read on a blocking descriptor
  Polling,      \* processes that poll, then read: src/io_mutil_dec/read_test.c
  Nonblocking,  \* processes that call read on an O_NONBLOCK descriptor
  Writers,      \* processes that call write: src/io_mutil_dec/write_test.c
  Signals,      \* can a signal reach a process that is inside a call?
  CopyFaults    \* can copy_to_user and copy_from_user fail?

ASSUME ProcsAssumption ==
  /\ Blocking \cap Polling = {}
  /\ Blocking \cap Nonblocking = {}
  /\ Polling \cap Nonblocking = {}
  /\ (Blocking \cup Polling \cup Nonblocking) \cap Writers = {}
  /\ Signals \in BOOLEAN
  /\ CopyFaults \in BOOLEAN

VARIABLES
  kernel_buf,   \* "zeroed" by memset, "message" after a copy, "spoiled": a part of one
  condition,    \* the flag my_chrdev.condition
  wait_queue,   \* processes queued on my_chrdev.wait_queue and not yet woken
  pc,           \* where each process is in its call; "idle" is user mode
  sig,          \* processes with a signal pending
  eintr,        \* processes whose wait_event returned -ERESTARTSYS
  message,      \* history, of the message last written: "none" or copied by somebody,
                \* "unread", or "dropped" by a failed copy or a non-blocking read
  failed        \* history: did the last copy_from_user fail?

vars == <<kernel_buf, condition, wait_queue, pc, sig, eintr, message, failed>>

Sleepers == Blocking \cup Polling
Procs    == Sleepers \cup Nonblocking \cup Writers

ReaderPCs == {"idle", "prepare", "check", "asleep", "clear", "copy"}
PollPCs   == {"pcheck", "pasleep", "readable"}
NbPCs     == {"idle", "nbcopy", "nbclear"}
WriterPCs == {"idle", "copyin", "setcond", "wake"}

Goto(p, from, to) == pc[p] = from /\ pc' = [pc EXCEPT ![p] = to]

\* An unread message is given up; setting the condition again announces it again.
GiveUp == message' = IF message = "unread" THEN "dropped" ELSE message

Init ==
  /\ kernel_buf = "zeroed"
  /\ condition  = 0
  /\ wait_queue = {}
  /\ pc     = [p \in Procs |-> "idle"]
  /\ sig    = {}
  /\ eintr  = {}
  /\ message = "none"
  /\ failed = FALSE

-----------------------------------------------------------------------------
(***************************************************************************)
(* read on a blocking descriptor.  wait_event_interruptible tests the      *)
(* condition, queues the task, tests it again and sleeps; a wake-up or a   *)
(* signal sends it round the loop.  The driver ignores the macro's result, *)
(* so the interrupted exit and the normal one both reach  condition = 0.   *)
(***************************************************************************)

\* A poller enters read when poll has reported POLLIN, a plain reader at once.
ReadCall(r) ==
  /\ pc[r] = IF r \in Polling THEN "readable" ELSE "idle"
  /\ pc' = [pc EXCEPT ![r] = IF condition = 1 THEN "clear" ELSE "prepare"]
  /\ UNCHANGED <<kernel_buf, condition, wait_queue, sig, eintr, message, failed>>

\* prepare_to_wait_event: queue the task, or take it off if a signal is pending.
Prepare(r) ==
  /\ Goto(r, "prepare", "check")
  /\ wait_queue' = IF r \in sig THEN wait_queue \ {r} ELSE wait_queue \cup {r}
  /\ eintr' = IF r \in sig THEN eintr \cup {r} ELSE eintr
  /\ UNCHANGED <<kernel_buf, condition, sig, message, failed>>

\* Faulty variant: the task goes to sleep without testing the condition again.
CheckNoRetest(r) ==
  /\ Goto(r, "check", IF r \in eintr THEN "clear" ELSE "asleep")
  /\ UNCHANGED <<kernel_buf, condition, wait_queue, sig, eintr, message, failed>>

\* The second test of the condition, finish_wait, or schedule().
Check(r) ==
  \/ /\ condition = 1
     /\ Goto(r, "check", "clear")
     /\ wait_queue' = wait_queue \ {r}
     /\ eintr' = eintr \ {r}
     /\ UNCHANGED <<kernel_buf, condition, sig, message, failed>>
  \/ /\ condition = 0
     /\ r \in eintr
     /\ Goto(r, "check", "clear")
     /\ wait_queue' = wait_queue \ {r}
     /\ UNCHANGED <<kernel_buf, condition, sig, eintr, message, failed>>
  \/ /\ condition = 0
     /\ r \notin eintr
     /\ Goto(r, "check", "asleep")
     /\ UNCHANGED <<kernel_buf, condition, wait_queue, sig, eintr, message, failed>>

\* schedule() returns once the task was woken or has a signal pending.
Resume(r) ==
  /\ r \notin wait_queue \/ r \in sig
  /\ Goto(r, "asleep", "prepare")
  /\ UNCHANGED <<kernel_buf, condition, wait_queue, sig, eintr, message, failed>>

\* my_chrdev.condition = 0
Clear(r) ==
  /\ Goto(r, "clear", "copy")
  /\ condition' = 0
  /\ UNCHANGED <<kernel_buf, wait_queue, sig, eintr, message, failed>>

\* copy_to_user, whose result is ignored too: a fault loses the message.  On
\* return to user mode a pending signal is handled.
CopyOut(r) ==
  /\ Goto(r, "copy", "idle")
  /\ \/ message' = "none"
     \/ CopyFaults /\ GiveUp
  /\ sig' = sig \ {r}
  /\ eintr' = eintr \ {r}
  /\ UNCHANGED <<kernel_buf, condition, wait_queue, failed>>

-----------------------------------------------------------------------------
(***************************************************************************)
(* read on an O_NONBLOCK descriptor: with the condition clear it returns   *)
(* -EAGAIN and changes nothing, otherwise it copies first and clears the   *)
(* condition afterwards, the other way round than the blocking path.       *)
(***************************************************************************)

NbTest(n) ==
  /\ condition = 1
  /\ Goto(n, "idle", "nbcopy")
  /\ UNCHANGED <<kernel_buf, condition, wait_queue, sig, eintr, message, failed>>

NbCopy(n) ==
  /\ Goto(n, "nbcopy", "nbclear")
  /\ message' = "none" \/ (CopyFaults /\ UNCHANGED message)
  /\ UNCHANGED <<kernel_buf, condition, wait_queue, sig, eintr, failed>>

NbClear(n) ==
  /\ Goto(n, "nbclear", "idle")
  /\ condition' = 0
  /\ GiveUp
  /\ UNCHANGED <<kernel_buf, wait_queue, sig, eintr, failed>>

-----------------------------------------------------------------------------
(***************************************************************************)
(* poll: poll_wait queues the caller, the condition is tested, and the     *)
(* poll core sleeps until a wake-up (then tests again) or a signal (then   *)
(* returns -EINTR).                                                        *)
(***************************************************************************)

PollWait(p) ==
  /\ \/ Goto(p, "idle", "pcheck")
     \/ /\ p \notin wait_queue \/ p \in sig
        /\ Goto(p, "pasleep", "pcheck")
  /\ wait_queue' = wait_queue \cup {p}
  /\ UNCHANGED <<kernel_buf, condition, sig, eintr, message, failed>>

PollCheck(p) ==
  /\ Goto(p, "pcheck", IF condition = 1 THEN "readable"
                       ELSE IF p \in sig THEN "idle" ELSE "pasleep")
  /\ IF condition = 1 \/ p \in sig
     THEN /\ wait_queue' = wait_queue \ {p}
          /\ sig' = sig \ {p}
     ELSE UNCHANGED <<wait_queue, sig>>
  /\ UNCHANGED <<kernel_buf, condition, eintr, message, failed>>

-----------------------------------------------------------------------------
(***************************************************************************)
(* write: memset, copy_from_user (a fault returns -EIO with the buffer     *)
(* already zeroed), condition = 1, wake_up_interruptible.                  *)
(***************************************************************************)

Memset(w) ==
  /\ Goto(w, "idle", "copyin")
  /\ kernel_buf' = "zeroed"
  /\ message' = "none"
  /\ UNCHANGED <<condition, wait_queue, sig, eintr, failed>>

\* Faulty variant: the buffer is zeroed after the copy and not before it.
CopyInThenMemset(w) ==
  /\ Goto(w, "copyin", "setcond")
  /\ kernel_buf' = "zeroed"
  /\ UNCHANGED <<condition, wait_queue, sig, eintr, message, failed>>

\* A copy that fails at its first byte leaves what it found, one that fails later
\* a part of its message, or the zeroes the message began with; all return -EIO
\* and leave the condition as it was.
CopyIn(w) ==
  \/ /\ Goto(w, "copyin", "setcond")
     /\ kernel_buf' = "message"
     /\ message' = "unread"
     /\ failed' = FALSE
     /\ UNCHANGED <<condition, wait_queue, sig, eintr>>
  \/ /\ CopyFaults
     /\ Goto(w, "copyin", "idle")
     /\ kernel_buf' \in {kernel_buf, "zeroed", "spoiled"}
     /\ failed' = TRUE
     /\ UNCHANGED <<condition, wait_queue, sig, eintr, message>>

\* Faulty variant: the condition counts the writes.
SetCondCounts(w) ==
  /\ Goto(w, "setcond", "wake")
  /\ condition < 3
  /\ condition' = condition + 1
  /\ UNCHANGED <<kernel_buf, wait_queue, sig, eintr, message, failed>>

SetCond(w) ==
  /\ Goto(w, "setcond", "wake")
  /\ condition' = 1
  /\ message' = IF message = "dropped" THEN "unread" ELSE message
  /\ UNCHANGED <<kernel_buf, wait_queue, sig, eintr, failed>>

\* Faulty variant: write returns without waking anybody.
WakeUpMissing(w) ==
  /\ Goto(w, "wake", "idle")
  /\ UNCHANGED <<kernel_buf, condition, wait_queue, sig, eintr, message, failed>>

\* No waiter is exclusive, so every queued task is woken and taken off.
WakeUp(w) ==
  /\ Goto(w, "wake", "idle")
  /\ wait_queue' = {}
  /\ UNCHANGED <<kernel_buf, condition, sig, eintr, message, failed>>

\* A signal for a process that is inside a call.
Signal(p) ==
  /\ Signals
  /\ p \notin sig
  /\ pc[p] \notin {"idle", "readable"}
  /\ sig' = sig \cup {p}
  /\ UNCHANGED <<kernel_buf, condition, wait_queue, pc, eintr, message, failed>>

-----------------------------------------------------------------------------
\* Faulty variant: the blocking path in the order of the non-blocking one, the
\* copy first and the condition cleared afterwards.
ReadStepCopyFirst(r) ==
  \/ Prepare(r) \/ Check(r) \/ Resume(r)
  \/ /\ Goto(r, "clear", "copy")
     /\ message' = "none"
     /\ UNCHANGED <<kernel_buf, condition, wait_queue, sig, eintr, failed>>
  \/ /\ Goto(r, "copy", "idle")
     /\ condition' = 0
     /\ sig' = sig \ {r}
     /\ eintr' = eintr \ {r}
     /\ UNCHANGED <<kernel_buf, wait_queue, message, failed>>

ReadStep(r)  == Prepare(r) \/ Check(r) \/ Resume(r) \/ Clear(r) \/ CopyOut(r)
NbStep(n)    == NbCopy(n) \/ NbClear(n)
PollStep(p)  == PollWait(p) \/ PollCheck(p)
WriteStep(w) == CopyIn(w) \/ SetCond(w) \/ WakeUp(w)

Next ==
  \/ \E r \in Sleepers : ReadCall(r) \/ ReadStep(r) \/ Signal(r)
  \/ \E n \in Nonblocking : NbTest(n) \/ NbStep(n)
  \/ \E p \in Polling : PollStep(p)
  \/ \E w \in Writers : Memset(w) \/ WriteStep(w)

Spec == Init /\ [][Next]_vars

\* The scheduler keeps running a task that is inside a call and not asleep, and
\* the loop of read_test.c reads whenever poll has returned.  Nobody has to
\* start a call.
Fairness ==
  /\ \A r \in Sleepers : WF_vars(ReadStep(r))
  /\ \A n \in Nonblocking : WF_vars(NbStep(n))
  /\ \A p \in Polling : WF_vars(PollStep(p)) /\ WF_vars(ReadCall(p))
  /\ \A w \in Writers : WF_vars(WriteStep(w))

FairSpec == Spec /\ Fairness

-----------------------------------------------------------------------------
TypeOK ==
  /\ kernel_buf \in {"zeroed", "message", "spoiled"}
  /\ condition \in {0, 1}
  /\ wait_queue \subseteq Sleepers
  /\ pc \in [Procs -> ReaderPCs \cup PollPCs \cup NbPCs \cup WriterPCs]
  /\ \A r \in Blocking : pc[r] \in ReaderPCs
  /\ \A p \in Polling : pc[p] \in ReaderPCs \cup PollPCs
  /\ \A n \in Nonblocking : pc[n] \in NbPCs
  /\ \A w \in Writers : pc[w] \in WriterPCs
  /\ sig \subseteq Sleepers
  /\ eintr \subseteq Sleepers
  /\ message \in {"none", "unread", "dropped"}
  /\ failed \in BOOLEAN

\* No lost wake-up: while the condition holds, a task that sleeps in read or in
\* poll and is still queued is about to be woken by a writer that has set the
\* condition and has not yet reached wake_up_interruptible.
NoLostWakeup ==
  \A r \in Sleepers :
    /\ condition = 1
    /\ r \in wait_queue
    /\ pc[r] \in {"asleep", "pasleep"}
    => \E w \in Writers : pc[w] = "wake"

\* No lost message: a message nobody has copied is announced by the condition,
\* is about to be announced by its writer, or is about to be copied by a reader
\* that has just cleared the condition; only the non-blocking path and a failed
\* copy give messages up.  It rests on the blocking path clearing the condition
\* before it copies.
NoLostMessage ==
  message = "unread" => \/ condition = 1
                        \/ \E r \in Sleepers : pc[r] = "copy"
                        \/ \E w \in Writers : pc[w] = "setcond"

\* What the condition announces is a message and neither the zeroes of a memset
\* nor a part, unless a writer is between its memset and its copy, or the last copy
\* failed: write then returns -EIO and leaves what it spoiled announced, until a
\* read clears the condition or another write copies.
ConditionMeansMessage ==
  condition = 1 /\ kernel_buf # "message"
     => failed \/ \E w \in Writers : pc[w] = "copyin"

\* "The calling process blocks here while the condition is not met": a read that
\* goes on to clear the condition and copy has seen the condition hold.
BlocksUntilCondition == \A r \in Sleepers : pc[r] = "clear" => r \notin eintr

\* A sleeping reader does not leave an announced message behind: if it sleeps
\* while the condition holds, then the condition is cleared by some read.
AnnouncedIsTaken ==
  \A r \in Sleepers : (pc[r] = "asleep" /\ condition = 1) ~> (condition = 0)

\* A sleeping poll call reports the condition, unless a reader clears it first.
PollReports ==
  \A p \in Polling : (pc[p] = "pasleep" /\ condition = 1)
                        ~> (condition = 0 \/ pc[p] = "readable")

=============================================================================
