------------------------------ MODULE MCGroups ------------------------------
\* Module Groups with three users and two requests at a time.
EXTENDS Groups, TLC

CONSTANTS u1, u2, u3, r1, r2

ThreeUsers == {u1, u2, u3}
TwoReqs == {r1, r2}

\* Nothing in the code tells users, or requests, apart.
Symmetric == Permutations(Users) \cup Permutations(Reqs)
=============================================================================
