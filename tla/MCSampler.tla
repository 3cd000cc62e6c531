------------------------------ MODULE MCSampler -----------------------------
\* Settings in which trigger tracing is on and off, with and without OVERRIDE,
\* with a key, another key and none; rates above, inside and below the legal
\* range; buckets whose rate and capacity differ.
EXTENDS Sampler, TLC

MCRate == [default |-> 1, relaxed |-> 2, strict |-> 0]
MCCapacity == [default |-> 2, relaxed |-> 3, strict |-> 2]
MCNoCapacity == [default |-> 0, relaxed |-> 0, strict |-> 0]

On ==
    [flags |-> {"SAMPLE_START", "SAMPLE_THROUGH_ALWAYS", "TRIGGER_TRACE"}, value |-> 9,
     ttl |-> 1, token |-> "k1", rate |-> MCRate, capacity |-> MCCapacity]
Override ==
    [flags |-> {"OVERRIDE", "SAMPLE_START", "SAMPLE_THROUGH", "TRIGGER_TRACE", "OTHER"},
     value |-> 1, ttl |-> 0, token |-> "k2", rate |-> MCRate, capacity |-> MCCapacity]
OverrideThrough ==
    [On EXCEPT !.flags = {"OVERRIDE", "SAMPLE_THROUGH_ALWAYS"}, !.token = NoToken]
Off ==
    [flags |-> {}, value |-> -1, ttl |-> 1, token |-> NoToken,
     rate |-> MCRate, capacity |-> MCNoCapacity]
TriggerTraceOnly == [On EXCEPT !.flags = {"TRIGGER_TRACE"}, !.value = 0]

MCAllArgs == {On, Override, OverrideThrough, Off, TriggerTraceOnly}
\* Two generations with different keys and one token a bucket.
MCOneToken == [k \in BucketKinds |-> Token]
MCTwoArgs == {[On EXCEPT !.capacity = MCOneToken], [Override EXCEPT !.capacity = MCOneToken]}
Unconfigured ==
    [samplingConfigured |-> FALSE, tracingMode |-> "enabled",
     sampleRate |-> MaxSampleRate, triggerTrace |-> TRUE]
MCLocalConfigs ==
    {Unconfigured,
     [Unconfigured EXCEPT !.samplingConfigured = TRUE, !.sampleRate = 0, !.triggerTrace = FALSE],
     [Unconfigured EXCEPT !.samplingConfigured = TRUE, !.tracingMode = "disabled"],
     [Unconfigured EXCEPT !.samplingConfigured = TRUE]}
MCUnconfigured == {Unconfigured}

MCAllParents == AllParents
MCRoots == {"none"}
MCAllOptions == AllOptions
MCFewOptions == {o \in AllOptions : IF o.present THEN o.triggerTrace /\ o.tsInScope ELSE o.key = NoSig}
MCRequestSymmetry == Permutations(Requests)
=============================================================================
