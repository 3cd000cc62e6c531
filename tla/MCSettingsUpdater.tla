------------------------- MODULE MCSettingsUpdater -------------------------
\* One tick is 30 seconds, so the code's 60 s and 30 s intervals are 2 and 1, a
\* ttl of 120 s is 4, and the 10 s of the http client are rounded up to 1.
EXTENDS SettingsUpdater

MCTtls == {3, 4}
=============================================================================
