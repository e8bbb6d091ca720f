\* One saver; any change of a file may fail and the program may crash, but what exists
\* can be read.
CONSTANTS
    Saver = {s1}
    Content = {c1, c2}
    Short = Short
    Mixed = Mixed
    Absent = Absent
    MaxFiles = 2
    ChangesOnly = TRUE
    Faults <- ReadableFiles
    MaxId = 4
CHECK_DEADLOCK FALSE
SPECIFICATION Spec
INVARIANTS TypeOK SavedIsKept ChangesRecorded ShortcutInv
PROPERTIES HistoryImplemented
