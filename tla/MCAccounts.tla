----------------------------- MODULE MCAccounts -----------------------------
\* Module Accounts with two names, two addresses and two requests at a time.
EXTENDS Accounts, TLC

CONSTANTS n1, n2, e1, e2, r1, r2

TwoNames == {n1, n2}
TwoEmails == {e1, e2}
TwoReqs == {r1, r2}

\* Names differ in nothing but their spelling, and so do addresses and requests.
Symmetric == Permutations(Names) \cup Permutations(Emails) \cup Permutations(Reqs)
=============================================================================
