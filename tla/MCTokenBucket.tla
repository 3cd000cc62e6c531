--------------------------- MODULE MCTokenBucket ---------------------------
\* Two sub-units to a token, so that half tokens accrue; rates below, at and
\* above one token per tick; capacities that hold no token, a fraction more
\* than one, and several.
EXTENDS TokenBucket

MCRates == {0, 1, 2, 3}
MCCapacities == {0, 1, 2, 3, 6}
=============================================================================
