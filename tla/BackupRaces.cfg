\* Two workers over four days of two instants, objects kept for two days; the
\* backup hour is the last of the day, so that backups cross midnight.
CONSTANTS
    Worker = {w1, w2}
    DayLength = 2
    BackupHour = {1}
    RetentionDays = 2
    MaxTime = 7
    MaxVersion = 1
    MaxRecord = 2
    MaxRefused = 1
    None = None
SPECIFICATION Spec
SYMMETRY Symmetry
INVARIANTS SucceededIsStored LatestBackupSurvives RestoredIsOneBackup
PROPERTIES LatestManifestIsPreserved
CHECK_DEADLOCK FALSE
