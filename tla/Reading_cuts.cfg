\* What telnet devices send, cut into reads in every way.
CONSTANTS
    Text <- Letters
    Devices <- DeviceKinds
    MaxItems = 3
CHECK_DEADLOCK FALSE
SPECIFICATION Spec
INVARIANTS TypeOK KeptAsShown Answered VolatileDropped
