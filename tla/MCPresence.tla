----------------------------- MODULE MCPresence -----------------------------
\* Module Presence with one user, two processes and two loads.
EXTENDS Presence, TLC

CONSTANTS ann, p1, p2, l1, l2

OneUser == {ann}
TwoProcs == {p1, p2}
TwoSlots == {l1, l2}

\* Nothing in the code tells processes or loads apart.
Symmetric == Permutations(Procs) \cup Permutations(Slots)
=============================================================================
