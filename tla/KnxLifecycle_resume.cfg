CONSTANTS
    Uses <- KeepsRunning
    Channels = {1, 2}
    MaxConnections = 2
SPECIFICATION Spec
INVARIANTS
    ResumesOnNewConnection
CHECK_DEADLOCK FALSE
