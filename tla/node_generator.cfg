CONSTANTS
    RunIds = {1, 2}
    HostCommands <- GeneratorCommands
    AirFrames <- Silence
    SendStatuses = {"EV_TX_OK", "EV_TX_FAIL"}
    MaxWindow = 2
    QueueLength = 2
    configTICK_RATE_HZ = 100
    MaxIterations = 2
    MaxRx = 0
    MaxDrops = 1
SPECIFICATION FairSpec
INVARIANTS TypeOK WindowRespected NoSlotLeak FencedResult OwnRunReported
PROPERTIES KeepsProtocol GeneratorEndsOwnRun GeneratorEnds
