CONSTANTS
    a = a  b = b  f = f  g = g  c1 = c1  c2 = c2  void = void
    Devices = {a, b}
    Files = {f, g}
    Contents = {c1, void}
    Unsyncable = {void}
    Absent = Absent
    Shared <- OneShared
    ChunkLimit = 1
    ZipLimit = 2
    InPlace = TRUE
    MaxEdits = 2
    MaxFaults = 1
SPECIFICATION FairSpec
INVARIANTS TypeOK
PROPERTIES RemovedWhenAcknowledged MediaSyncEnds
