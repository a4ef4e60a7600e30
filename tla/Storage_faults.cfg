\* Two writers and two readers on two buckets, three inserts: the third
\* insert collides with the first.  Every read, write and allocation may fail,
\* and the process may end and reopen the file at any step.
CONSTANTS
    w1 = w1  w2 = w2  r1 = r1  r2 = r2  v1 = v1  v2 = v2  v3 = v3
    Writers <- MCWriters
    Readers <- MCReaders
    Values <- MCShortValues
    ValueLen <- MCValueLen
    Uris <- MCUris
    NumBuckets = 2
    MaxIds = 3
    Faults = TRUE
    NotFound = NotFound
    Empty = Empty
    Clobbered = Clobbered
SYMMETRY MCSymmetry
SPECIFICATION Spec
INVARIANT NoPhantomRead
INVARIANT AckedRecordsInPlace
