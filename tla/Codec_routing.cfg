\* A datagram of a router beside one of another Knx instance.
SPECIFICATION Spec
CONSTANTS
    None = None
    Err = Err
    Panic = Panic
    A = A
    B = B
    Tasks <- MCTasks
    Samples <- HeardSamples
INVARIANT RoutersHeard
CHECK_DEADLOCK FALSE
