\* Three items in two tables over files of two bytes, one crash anywhere.
CONSTANTS
    Tables <- MCTables
    MaxItems = 3
    MaxBatch = 2
    MaxFileSize = 2
    BufferLimit = 1
    Sizes <- MCSizes
    MaxFiles = 2
    MaxCrashes = 1
    goroutine1 = goroutine1
    goroutine2 = goroutine2
    goroutine3 = goroutine3
SPECIFICATION MCSpec
INVARIANTS FilesSound BlocksSound TablesSound
PROPERTIES ImplementsAncientStore StorageProgress
CHECK_DEADLOCK FALSE
