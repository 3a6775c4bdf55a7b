\* Uploads that are refused, time out and are interrupted.
SPECIFICATION FairSpec
CONSTANTS
    MaxUploads = 5
    Chunks     <- MCChunks
    Invalid    = {2}
    MaxGate    = 3
INVARIANTS
    AckMeansStored
PROPERTIES
    UndisturbedUploadSucceeds
    UploadEnds
CHECK_DEADLOCK FALSE
