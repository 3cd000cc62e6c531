---------------------------- MODULE MCRateCounts ----------------------------
\* With two goroutines one call can straddle a flush while the other starts and
\* ends inside it.
EXTENDS RateCounts
=============================================================================
