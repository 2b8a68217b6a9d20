\* A current_thread runtime: no other task runs between unlock and wait.
CONSTANTS
    t1 = t1
    t2 = t2
    s1 = s1
    s2 = s2
    p1 = p1
    Callers <- CallersOne
    Senders <- SendersOne
    Processors <- ProcessorsOne
    UsedPriorities = {"System", "Low"}
    MaxSize = 2
    Preemptible = FALSE
    MaxEnqueued = 3
    MaxDropped = 1
SPECIFICATION FairSpec
PROPERTIES
    CloseReleasesConsumers
    ImplementsFairLanes
CHECK_DEADLOCK FALSE
