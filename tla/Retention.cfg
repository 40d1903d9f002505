\* Two workers that archive to S3, batches of one, two rows: a pass of the first
\* worker deletes one row, one of the second both; one file; one fault.
SPECIFICATION FairSpec
CONSTANTS
    w1 = w1
    w2 = w2
    Workers = {w1, w2}
    Backend = "s3"
    BatchSize = 1
    MaxBatches <- OneAndTwo
    MaxRows = 2
    MaxFiles = 1
    MaxTime = 1
    MaxFaults = 1
INVARIANTS
    HistoryIsKept
    FilesAreKept
PROPERTY
    BacklogIsCleared
