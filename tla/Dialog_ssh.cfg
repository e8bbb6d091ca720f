\* Models over ssh, which logs in before the dialogue starts.
CONSTANTS
    Case <- OverSSH
    Lines = 2
CHECK_DEADLOCK FALSE
SPECIFICATION Spec
INVARIANTS CaptureComplete
