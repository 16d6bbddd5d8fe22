------------------------------ MODULE MCCalls ------------------------------
\* Module Calls with two users.
EXTENDS Calls

CONSTANTS ann, bob, k1, k2

TwoUsers == {ann, bob}
TwoSlots == {k1, k2}
=============================================================================
