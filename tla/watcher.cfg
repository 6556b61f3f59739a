\* The workspace watcher on two nested directories, with one lost event or refused watch.
CONSTANTS
    Dirs <- MCDirs
    Files <- MCFiles
    MaxChanges = 5
    MaxQueue = 2
    MaxFaults = 1

SPECIFICATION FairSpec
CHECK_DEADLOCK FALSE
INVARIANT KnownIsCurrent
INVARIANT ReportedDirsAreComplete
PROPERTY PictureSettles
