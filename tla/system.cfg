CONSTANTS
    MaxSessions = 2
    MaxTorn = 1
    MaxReboots = 1
    MaxAborts = 1
SPECIFICATION FairSpec
INVARIANTS TrafficMeasured SavedTrafficOwn ReportAfterTraffic SavedResultsOwn
PROPERTIES OwnAnswers SessionEnds
CHECK_DEADLOCK FALSE
