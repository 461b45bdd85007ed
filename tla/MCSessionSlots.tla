--------------------------- MODULE MCSessionSlots ---------------------------
\* A small instance of SessionSlots: two accounts, of which the first may sign
\* in twice, in two slots.
EXTENDS SessionSlots, TLC

CONSTANTS ann, bob, ann1, ann2, bob1, r1, r2, c1, c2

Owner == (ann1 :> ann) @@ (ann2 :> ann) @@ (bob1 :> bob)
AnnAndBob == (ann1 :> ann) @@ (bob1 :> bob)
=============================================================================
