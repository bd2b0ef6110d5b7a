SPECIFICATION MCSpec
CONSTANTS
    Absent = Absent  Probe = Probe
    r1 = r1  r2 = r2  f1 = f1  f2 = f2
    s1 = s1  s2 = s2  s3 = s3
    Servers = {s1, s2, s3}  StaticServers = {s1}
    FirstPlan <- AnyOneByOne  Plans <- OneByOnePlans
    MaxCommands = 3  CanShutdown = TRUE
CHECK_DEADLOCK FALSE
INVARIANTS CallersToldTruth AckMeansQuiet LoneWinner SessionsFenced
PROPERTIES KeptUntilDecided
