------------------------------- MODULE MCRoom -------------------------------
\* Module Room with two users, one or two hubs, and the page of ann.
EXTENDS Room, TLC

CONSTANTS ann, bob, h1, h2, thumb, heart, l1, l2

TwoUsers == {ann, bob}

OneHub == {h1}
TwoHubs == {h1, h2}

OneEmoji == {thumb}
TwoEmojis == {thumb, heart}

OneLoad == {l1}
TwoLoads == {l1, l2}

\* Loads differ in nothing but their names.
LoadSymmetry == Permutations(Loads)
=============================================================================
