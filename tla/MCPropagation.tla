---------------------------- MODULE MCPropagation ----------------------------
\* Services that start and continue traces, only continue them, roll the dice on
\* continued ones, only do trigger traces, or are switched off.  Three members in
\* a trace state stand for 32, so that it fills up with three vendors.
EXTENDS Propagation

MCZero == [k \in BucketKinds |-> 0]
MCUnconfigured ==
    [samplingConfigured |-> FALSE, tracingMode |-> "enabled",
     sampleRate |-> MaxSampleRate, triggerTrace |-> TRUE]
MCPolicy(flags) ==
    newSettings([flags |-> flags, value |-> 0, ttl |-> 1, token |-> "key",
                 rate |-> MCZero, capacity |-> MCZero], MCUnconfigured, 1)
MCPolicies ==
    {MCPolicy(f) : f \in {{"SAMPLE_START", "SAMPLE_THROUGH_ALWAYS", "TRIGGER_TRACE"},
                          {"SAMPLE_START", "SAMPLE_THROUGH"},
                          {"TRIGGER_TRACE"},
                          {}}}
=============================================================================
