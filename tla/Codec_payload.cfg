\* The payload of a write, when it is one byte that does not fit six bits.
SPECIFICATION Spec
CONSTANTS
    None = None
    Err = Err
    Panic = Panic
    A = A
    B = B
    Tasks <- MCTasks
    Samples <- DimmerSamples
INVARIANT PayloadArrives
CHECK_DEADLOCK FALSE
