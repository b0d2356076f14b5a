SPECIFICATION FairSerialSpec
CONSTANTS
    Proc = {p1, p2, p3}
    Pid = {i1, i2}
    None = None
    Faults = {"crash"}
PROPERTIES ImplementsMutex StaleRecovered
CHECK_DEADLOCK FALSE
