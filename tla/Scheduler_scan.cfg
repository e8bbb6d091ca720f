\* Scan, Spawner and Fetch alone, scanning for ever or once: three devices, two at a
\* time, and a holdtime that can expire while a scan is under way and between scans.
\* With -runOnce the program comes to its end.
CONSTANTS
    Device = {d1, d2, d3}
    Click = {}
    Editor = {}
    Original = Original
    NoDevice = NoDevice
    OptionSet <- TwoAtATime
    Purgeable = {}
    RunOnce = {TRUE, FALSE}
    MaxTime = 2
CHECK_DEADLOCK FALSE
SPECIFICATION Spec
INVARIANTS WaitCountsOutstanding ScanConcurrency OnceComplete
PROPERTIES HoldtimeRespected ScanPassRefined OnceExits
