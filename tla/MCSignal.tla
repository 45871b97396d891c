------------------------------ MODULE MCSignal ------------------------------
\* Instances of SignalDev for TLC.
EXTENDS SignalDev, TLC

\* Processes of one kind are interchangeable; for runs without liveness.
Symmetry == Permutations(Readers) \cup Permutations(Writers)
=============================================================================
