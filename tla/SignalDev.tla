----------------------------- MODULE SignalDev -----------------------------
(***************************************************************************)
(* The signal-driven device of src/singal_io: write stores a message, sets *)
(* data_ready and sends SIGIO to every subscriber; the client read_test.c  *)
(* reads once per SIGIO, in its handler.  Nothing is locked, so each       *)
(* statement that touches shared state is a step of its own.  SIGIO is an  *)
(* ordinary signal: sent again while it is pending, it is delivered once,  *)
(* and it stays pending while its handler runs.                            *)
(*                                                                         *)
(* The buffer is abstracted to whether somebody has copied the last        *)
(* message that was stored in it.                                          *)
(***************************************************************************)
EXTENDS Naturals

CONSTANTS
  Readers,      \* processes running src/singal_io/read_test.c
  Writers,      \* processes running src/singal_io/write_test.c
  CopyFaults    \* can copy_to_user and copy_from_user fail?

ASSUME ProcsAssumption ==
  /\ Readers \cap Writers = {}
  /\ CopyFaults \in BOOLEAN

VARIABLES
  data_ready,   \* the flag of the driver
  fap,          \* the subscribers in my_chrdev.fap
  sigio,        \* readers with SIGIO pending
  pc,           \* where each process is
  unread,       \* history: the buffer holds a message nobody has copied
  unaware       \* history: subscribers nobody will signal about data_ready = 1

vars == <<data_ready, fap, sigio, pc, unread, unaware>>

InHandler == {"test", "copy", "clear"}
ReaderPCs == {"closed", "opened", "pause"} \cup InHandler
WriterPCs == {"idle", "copyin", "setready", "kill"}

Goto(p, from, to) == pc[p] = from /\ pc' = [pc EXCEPT ![p] = to]

Init ==
  /\ data_ready = 0
  /\ fap        = {}
  /\ sigio      = {}
  /\ pc = [p \in Readers \cup Writers |-> IF p \in Readers THEN "closed" ELSE "idle"]
  /\ unread     = FALSE
  /\ unaware    = {}

-----------------------------------------------------------------------------
\* open: the driver does nothing; the client then installs the handler and F_SETOWN.
Open(r) ==
  /\ Goto(r, "closed", "opened")
  /\ UNCHANGED <<data_ready, fap, sigio, unread, unaware>>

\* fcntl(F_SETFL, FASYNC): fasync_helper adds the file.  Data that is already
\* there is not announced to the newcomer.
Subscribe(r) ==
  /\ Goto(r, "opened", "pause")
  /\ fap' = fap \cup {r}
  /\ unaware' = IF data_ready = 1 THEN unaware \cup {r} ELSE unaware
  /\ UNCHANGED <<data_ready, sigio, unread>>

\* Faulty variant: nobody takes the file off the list when it is closed.
CloseKeepsFap(r) ==
  /\ pc[r] \in {"opened", "pause"}
  /\ pc' = [pc EXCEPT ![r] = "closed"]
  /\ sigio' = sigio \ {r}
  /\ UNCHANGED <<data_ready, fap, unread, unaware>>

\* The client is killed: the kernel calls fasync(-1, file, 0), then release.
Close(r) ==
  /\ pc[r] \in {"opened", "pause"}
  /\ pc' = [pc EXCEPT ![r] = "closed"]
  /\ fap' = fap \ {r}
  /\ sigio' = sigio \ {r}
  /\ unaware' = unaware \ {r}
  /\ UNCHANGED <<data_ready, unread>>

\* SIGIO interrupts pause() and the handler calls read.
Deliver(r) ==
  /\ r \in sigio
  /\ Goto(r, "pause", "test")
  /\ sigio' = sigio \ {r}
  /\ UNCHANGED <<data_ready, fap, unread, unaware>>

\* read returns -EAGAIN when data_ready is 0.
TestReady(r) ==
  /\ Goto(r, "test", IF data_ready = 0 THEN "pause" ELSE "copy")
  /\ UNCHANGED <<data_ready, fap, sigio, unread, unaware>>

\* copy_to_user; on a fault read returns -EFAULT and data_ready stays as it is.
CopyOut(r) ==
  \/ /\ Goto(r, "copy", "clear")
     /\ unread' = FALSE
     /\ UNCHANGED <<data_ready, fap, sigio, unaware>>
  \/ /\ CopyFaults
     /\ Goto(r, "copy", "pause")
     /\ unread' \in {unread, FALSE}
     /\ unaware' = IF data_ready = 1 THEN unaware \cup {r} ELSE unaware
     /\ UNCHANGED <<data_ready, fap, sigio>>

\* data_ready = 0
Clear(r) ==
  /\ Goto(r, "clear", "pause")
  /\ data_ready' = 0
  /\ unaware' = {}
  /\ UNCHANGED <<fap, sigio, unread>>

-----------------------------------------------------------------------------
\* memset destroys the message that was in the buffer.
Memset(w) ==
  /\ Goto(w, "idle", "copyin")
  /\ unread' = FALSE
  /\ UNCHANGED <<data_ready, fap, sigio, unaware>>

\* copy_from_user; on a fault write returns -EIO.
CopyIn(w) ==
  \/ /\ Goto(w, "copyin", "setready")
     /\ unread' = TRUE
     /\ UNCHANGED <<data_ready, fap, sigio, unaware>>
  \/ /\ CopyFaults
     /\ Goto(w, "copyin", "idle")
     /\ UNCHANGED <<data_ready, fap, sigio, unread, unaware>>

\* Faulty variant: the writes are counted.
SetReadyCounts(w) ==
  /\ Goto(w, "setready", "kill")
  /\ data_ready < 3
  /\ data_ready' = data_ready + 1
  /\ UNCHANGED <<fap, sigio, unread, unaware>>

SetReady(w) ==
  /\ Goto(w, "setready", "kill")
  /\ data_ready' = 1
  /\ UNCHANGED <<fap, sigio, unread, unaware>>

\* Faulty variant: only the first entry of the list is signalled.
KillFasyncFirst(w) ==
  /\ Goto(w, "kill", "idle")
  /\ \/ fap = {} /\ UNCHANGED sigio
     \/ \E r \in fap : sigio' = sigio \cup {r}
  /\ unaware' = unaware \ fap
  /\ UNCHANGED <<data_ready, fap, unread>>

\* kill_fasync signals every subscriber of the moment.
KillFasync(w) ==
  /\ Goto(w, "kill", "idle")
  /\ sigio' = sigio \cup fap
  /\ unaware' = unaware \ fap
  /\ UNCHANGED <<data_ready, fap, unread>>

-----------------------------------------------------------------------------
\* Faulty variant: kill_fasync is called before data_ready is set.
WriteStepKillFirst(w) ==
  \/ CopyIn(w)
  \/ /\ Goto(w, "setready", "kill")
     /\ sigio' = sigio \cup fap
     /\ unaware' = unaware \ fap
     /\ UNCHANGED <<data_ready, fap, unread>>
  \/ /\ Goto(w, "kill", "idle")
     /\ data_ready' = 1
     /\ UNCHANGED <<fap, sigio, unread, unaware>>

ReadStep(r)  == Deliver(r) \/ TestReady(r) \/ CopyOut(r) \/ Clear(r)
WriteStep(w) == CopyIn(w) \/ SetReady(w) \/ KillFasync(w)

Next ==
  \/ \E r \in Readers : Open(r) \/ Subscribe(r) \/ Close(r) \/ ReadStep(r)
  \/ \E w \in Writers : Memset(w) \/ WriteStep(w)

Spec == Init /\ [][Next]_vars

\* A pending signal is delivered and a call in progress is continued; nobody has
\* to open, close or write.
Fairness ==
  /\ \A r \in Readers : WF_vars(ReadStep(r))
  /\ \A w \in Writers : WF_vars(WriteStep(w))

FairSpec == Spec /\ Fairness

-----------------------------------------------------------------------------
TypeOK ==
  /\ data_ready \in {0, 1}
  /\ fap \subseteq Readers
  /\ sigio \subseteq Readers
  /\ pc \in [Readers \cup Writers -> ReaderPCs \cup WriterPCs]
  /\ \A r \in Readers : pc[r] \in ReaderPCs
  /\ \A w \in Writers : pc[w] \in WriterPCs
  /\ unread \in BOOLEAN
  /\ unaware \subseteq Readers

\* A subscriber that was there when the data was announced will look at it: while
\* data_ready is set, it has SIGIO pending, or runs its handler, or a writer has
\* yet to call kill_fasync.  Coalescing signals must not break this.
NoStrandedData ==
  \A r \in fap \ unaware :
    data_ready = 1 => \/ r \in sigio
                      \/ pc[r] \in InHandler
                      \/ \E w \in Writers : pc[w] = "kill"

\* The driver's exit function has an empty body for "all notifications are
\* removed" and relies on this: with every file closed no subscriber is left.
ClosedMeansUnsubscribed == \A r \in Readers : pc[r] = "closed" => r \notin fap \cup sigio

\* "-EAGAIN tells the application that there is no data now": when read finds
\* data_ready clear, no message waits in the buffer except one that its writer
\* is about to announce.
EagainMeansNoData ==
  \A r \in Readers :
    pc[r] = "test" /\ data_ready = 0 /\ unread => \E w \in Writers : pc[w] = "setready"

\* Data that was announced is taken, unless its subscribers go away.
AnnouncedIsTaken ==
  \A r \in Readers :
    (data_ready = 1 /\ r \in fap \ unaware) ~> (data_ready = 0 \/ r \notin fap \ unaware)
=============================================================================
