\* A Run button and a web session next to the scanner: properties and settings that
\* are saved at any moment, a Run button that competes with Scan, and a device that
\* may vanish from the table.
CONSTANTS
    Device = {d1}
    Click = {c1}
    Editor = {e1}
    Original = Original
    NoDevice = NoDevice
    OptionSet <- OneAtATime
    Purgeable = {d1}
    RunOnce = {FALSE}
    MaxTime = 0
SPECIFICATION Spec
INVARIANTS TypeOK ReplyAwaited
PROPERTIES ClickServed
