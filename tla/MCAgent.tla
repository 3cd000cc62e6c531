------------------------------- MODULE MCAgent -------------------------------
\* A first Start and a second one, after the first has failed or was shut down,
\* and a goroutine that asks again and again whether the library is ready.
EXTENDS Agent
=============================================================================
