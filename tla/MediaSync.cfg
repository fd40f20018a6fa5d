CONSTANTS
    a = a  b = b  f = f  g = g  c1 = c1  c2 = c2  void = void
    Devices = {a, b}
    Files = {f, g}
    Contents = {c1, c2}
    Unsyncable = {}
    Absent = Absent
    Shared <- OneShared
    ChunkLimit = 1
    ZipLimit = 2
    InPlace = FALSE
    MaxEdits = 3
    MaxFaults = 1
SPECIFICATION FairSerialSpec
INVARIANTS ServerTidy CleanMeansSynced SanityPasses
PROPERTIES MediaConverges
