\* Encoders and decoders on samples, and telegrams over a stream and by multicast.
SPECIFICATION FairSpec
CONSTANTS
    None = None
    Err = Err
    Panic = Panic
    A = A
    B = B
    Tasks <- MCTasks
    Samples <- MCSamples
INVARIANTS
    
    FramesReadBack
    DptsAgree
    
PROPERTIES
    TransportsAdvance
CHECK_DEADLOCK FALSE
