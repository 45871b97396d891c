----------------------------- MODULE MCBlocking -----------------------------
\* Instances of BlockingDev for TLC.
EXTENDS BlockingDev, TLC

\* Processes of one kind are interchangeable; for runs without liveness.
Symmetry == Permutations(Blocking) \cup Permutations(Polling)
            \cup Permutations(Nonblocking) \cup Permutations(Writers)
=============================================================================
