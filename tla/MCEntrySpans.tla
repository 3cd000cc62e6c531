---------------------------- MODULE MCEntrySpans ----------------------------
\* s1 and s2 are entry spans of one trace (a service that calls itself, or two
\* requests of one upstream trace), s3 is alone in its trace.
EXTENDS EntrySpans

Symmetry == Permutations(Callers) \cup Permutations(Names)

MCTraceOf == [s \in Spans |-> IF s \in {"s1", "s2"} THEN "t1" ELSE "t2"]
=============================================================================
