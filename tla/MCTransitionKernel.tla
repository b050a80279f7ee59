------------------------- MODULE MCTransitionKernel -------------------------
EXTENDS TransitionKernel

CONSTANTS e1, e2

\* A library of two episodes, and what is left when the first one goes.
MCListings == {<<e1, e2>>, <<e2>>}

\* A fixed order of the ids that is not the order they were authorised in.
MCDigest == [n \in 0..40 |-> (n * 12) % 41]

=============================================================================
