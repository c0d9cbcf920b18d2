\* One memory, two settings requests and the reindexes they spawn, Close.
SPECIFICATION FairSpec
CONSTANTS
    small = small
    other = other
    ModelA = ModelA
    ModelB = ModelB
    Services = {}
    Memories = {m}
    Writers = {w1}
    Configs <- MCConfigs
    Off = Off
    Model <- MCModel
    Requests = {p1, p2}
    Reindexers = {r1, r2}
    Closer = Closer
    Nobody = Nobody
    QueueSize = 1
    MaxChanges = 1
INVARIANTS VectorsAreCurrent CloseIsClean
PROPERTY EverybodyReturns
CHECK_DEADLOCK FALSE
