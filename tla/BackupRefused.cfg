\* One worker over four days of two instants, objects kept for two days.
CONSTANTS
    Worker = {w1}
    DayLength = 2
    BackupHour = {0}
    RetentionDays = 2
    MaxTime = 6
    MaxVersion = 0
    MaxRecord = 2
    MaxRefused = 1
    None = None
SPECIFICATION Spec
PROPERTIES LatestManifestIsKept
CHECK_DEADLOCK FALSE
