\* Each device model over a transport where the dialogue starts in step.
CONSTANTS
    Case <- InStepCases
    Lines = 2
CHECK_DEADLOCK FALSE
SPECIFICATION Spec
INVARIANTS TypeOK CaptureComplete SecretsOnlyWhenAsked
PROPERTIES InStep FetchEnds
