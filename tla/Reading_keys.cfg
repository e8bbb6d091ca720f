\* A device that draws with the sequences of keys.
CONSTANTS
    Text <- Letters
    Devices <- KeySenders
    MaxItems = 3
CHECK_DEADLOCK FALSE
SPECIFICATION Spec
INVARIANTS AlwaysAsShown
