\* Two backups of one device at a time, as a scan and a Run button start them;
\* failures the code cleans up after.
CONSTANTS
    Saver = {s1, s2}
    Content = {c1, c2}
    Short = Short
    Mixed = Mixed
    Absent = Absent
    MaxFiles = 2
    ChangesOnly = TRUE
    Faults <- CleanErrors
    MaxId = 3
CHECK_DEADLOCK FALSE
SPECIFICATION Spec
INVARIANTS NoLeftover Bounded
PROPERTIES SaveEnds
