------------------------------- MODULE MCHub -------------------------------
\* Module Hub with one or two users on one or two devices.
EXTENDS Hub, TLC

CONSTANTS ann, bob, d1, d2

OneUser == {ann}
TwoUsers == {ann, bob}

OneDevice == {d1}
TwoDevices == {d1, d2}

OneOfAnn == d1 :> ann
TwoOfAnn == d1 :> ann @@ d2 :> ann
OneOfEach == d1 :> ann @@ d2 :> bob
=============================================================================
