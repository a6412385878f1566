SPECIFICATION Spec
CONSTANTS
    Absent = Absent
    MaxCopies = 3
    Sizes = {1, 2}
    MaxSessions = 2
    MaxRecordBytes = 1
    MaxTotalBytes = 3
    MaxClock = 4
INVARIANTS TypeOK RetentionHolds StoredMeansCurrent
PROPERTIES NewerSnapshotWins LastGoodSurvives DiscardedWorkStaysGone StagedWorkSettles
CHECK_DEADLOCK FALSE
