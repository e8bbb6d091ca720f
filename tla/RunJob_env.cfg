\* Two devices of the model run are backed up at the same time.
CONSTANTS
    Device = {d1, d2}
    PipeSize = 1
    MaxLines = 0
    MaxJobs = 1
    ErrlogHistSize = 2
    Nobody = Nobody
CHECK_DEADLOCK FALSE
SPECIFICATION Spec
INVARIANTS OwnEnvironment
