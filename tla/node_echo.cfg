CONSTANTS
    RunIds = {1, 2}
    HostCommands <- EchoOrSinkCommands
    AirFrames <- AllFrames
    SendStatuses = {"EV_TX_OK"}
    MaxWindow = 2
    QueueLength = 2
    configTICK_RATE_HZ = 100
    MaxIterations = 2
    MaxRx = 1
    MaxDrops = 1
SPECIFICATION FairSpec
INVARIANTS IdleFence FencedResult OwnRunReported
PROPERTIES CommandAnswered
