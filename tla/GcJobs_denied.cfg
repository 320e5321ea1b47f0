\* A collection interrupted by a restart.
SPECIFICATION Spec
CONSTANTS
    Request = {r1}
    Job = {j1, j2}
    NoJob = NoJob
    Faults = {"crash"}
PROPERTIES
    DeniedOnlyWhileRunning
CHECK_DEADLOCK FALSE
