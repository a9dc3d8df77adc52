SPECIFICATION Spec
CONSTANTS
    Streams = {0, 1}
    Rssis <- ReportRssis
    RssiLimit = 3
    MaxFrames = 3
    MaxLate = 2
INVARIANTS
    ReportAddsUp
    SkewBounded
    UniqueNotOverstated
