\* Two callers and the polls, two children, two settings, one route, a pipe for one command.
SPECIFICATION FairSpec
CONSTANTS
    Callers <- MCCallers
    Poll = "poll"
    Configs = {1, 2}
    Routes = {1}
    PipeSize = 1
    MaxChildren = 2
    Life = 2
    Conf = 1
    MaxPolls = 1
    MaxCalls <- MCMaxCalls
INVARIANTS NoOrphan CachesReachTheChild
PROPERTIES CallsReturn
CHECK_DEADLOCK FALSE
