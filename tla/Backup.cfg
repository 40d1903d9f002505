\* The timer's run and one by hand, three backups, one restore target; two faults.
SPECIFICATION FairSpec
CONSTANTS
    timer = timer
    hand = hand
    drill = drill
    Runs = {timer, hand}
    Names = {drill}
    MaxBackups = 3
    MaxFaults = 2
CHECK_DEADLOCK FALSE
INVARIANTS
    ManifestIsRestorable
    StatusIsTrue
    RestoredIsWhole
PROPERTIES
    LoneBackupSucceeds
