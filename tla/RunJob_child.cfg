\* One device whose child may hang, fail, fill a pipe or go on without its outputs.
CONSTANTS
    Device = {d1}
    PipeSize = 1
    MaxLines = 2
    MaxJobs = 3
    ErrlogHistSize = 2
    Nobody = Nobody
CHECK_DEADLOCK FALSE
SPECIFICATION Spec
INVARIANTS TypeOK OnlyGoodOutput NewestFirst
PROPERTIES JobEnds
