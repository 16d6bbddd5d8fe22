------------------------------ MODULE MCPolls -------------------------------
\* Module Polls with two users, one process and the API, and more options than
\* can be voted for at once.
EXTENDS Polls, TLC

CONSTANTS ann, bob, yes, no, maybe, h1, a1

TwoUsers == {ann, bob}
ThreeOptions == {yes, no, maybe}
OneHub == {h1}
OneApi == {a1}

\* Nothing in the code tells the options apart.
Symmetric == Permutations(Options)
=============================================================================
