\* Uploads in any order, with damage and without memory.
SPECIFICATION Spec
CONSTANTS
    a = a
    b = b
    Bytes     <- TwoBytes
    Chunks    <- SmallChunks
    MaxBytes  =  3
    CountMod  =  4
    Programs  <- SmallPrograms
    NoProgram =  noprogram
INVARIANTS
    BufferFits
    NoLeak
PROPERTIES
    ImplementsStoredProgram
    AcceptedIsAcked
