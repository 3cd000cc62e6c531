\* Three entry spans in two traces, named by two callers.
CONSTANTS
    Spans = {"s1", "s2", "s3"}
    Traces = {"t1", "t2"}
    TraceOf <- MCTraceOf
    Callers = {c1, c2}
    Names = {n1, n2}
    MaxSets = 2
SPECIFICATION Spec
INVARIANTS
    ListsMatchOpenSpans
    NamesStayInTrace
    NamesAgree
SYMMETRY Symmetry
