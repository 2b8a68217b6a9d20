\* Two callers, two competing senders and one processor on a threaded runtime.
CONSTANTS
    t1 = t1
    t2 = t2
    s1 = s1
    s2 = s2
    p1 = p1
    Callers <- CallersTwo
    Senders <- SendersTwo
    Processors <- ProcessorsOne
    UsedPriorities = {"Urgent", "Normal", "Low"}
    MaxSize = 2
    Preemptible = TRUE
    MaxEnqueued = 3
    MaxDropped = 1
SYMMETRY Symmetry
SPECIFICATION Spec
INVARIANTS
    TypeOK
    Conservation
    FifoWithinPriority
    NoPriorityInversion
    NoneIsFinal
PROPERTIES
    ImplementsLanes
CHECK_DEADLOCK FALSE
