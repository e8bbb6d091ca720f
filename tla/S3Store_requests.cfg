\* One saver on S3; any request may fail or its answer be lost, the program may crash;
\* objects can be listed, and HEAD errs on tmp only.
CONSTANTS
    Saver = {s1}
    Content = {c1, c2}
    Short = Short
    Mixed = Mixed
    Absent = Absent
    MaxFiles = 2
    ChangesOnly = TRUE
    Faults <- RequestsFail
    MaxId = 4
    AnswerLost = TRUE
    HeadFails = {"tmp"}
CHECK_DEADLOCK FALSE
SPECIFICATION SpecS3
INVARIANTS TypeOKS3
PROPERTIES HistoryImplementedS3 SaveEndsS3
