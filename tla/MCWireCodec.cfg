SPECIFICATION Spec
CONSTANTS
    Radix = 8
    HashLen = 2
    Samples <- MCSamples
    MaxFaults = 1
    MaxFaultLen = 30
INVARIANTS RoundTrip InputsDetermined Canonical SkimsAlike SameTranscript
CHECK_DEADLOCK FALSE
