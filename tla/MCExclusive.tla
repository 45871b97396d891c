----------------------------- MODULE MCExclusive -----------------------------
\* Instances of ExclusiveDev for TLC.
EXTENDS ExclusiveDev, TLC

\* Files are interchangeable, for runs without temporal properties.
Symmetry == Permutations(Files)
=============================================================================
