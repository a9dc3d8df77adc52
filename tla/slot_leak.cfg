CONSTANTS
    RunIds = {1}
    HostCommands <- EchoCommands
    AirFrames <- Pings
    SendStatuses = {"EV_TX_OK"}
    MaxWindow = 2
    QueueLength = 2
    configTICK_RATE_HZ = 100
    MaxIterations = 2
    MaxRx = 2
    MaxDrops = 1
SPECIFICATION Spec
INVARIANTS NoSlotLeak
