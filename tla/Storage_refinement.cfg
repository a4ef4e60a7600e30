\* Two writers and two readers on two buckets, three inserts: the third
\* insert collides with the first.  No I/O failures.
CONSTANTS
    w1 = w1  w2 = w2  r1 = r1  r2 = r2  v1 = v1  v2 = v2  v3 = v3
    Writers <- MCWriters
    Readers <- MCReaders
    Values <- MCValues
    ValueLen <- MCValueLen
    Uris <- MCUris
    NumBuckets = 2
    MaxIds = 3
    Faults = FALSE
    NotFound = NotFound
    Empty = Empty
    Clobbered = Clobbered
SPECIFICATION Spec
PROPERTY KVSpec
