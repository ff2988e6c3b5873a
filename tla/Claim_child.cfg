\* One caller of three calls, two children, a pipe for one command, no polls.  TLC stops at
\* the first property violated, which is BindFailureIsRaised; without it, at StopEnds.
SPECIFICATION FairSpec
CONSTANTS
    Callers <- MCCallers
    Poll = "poll"
    Configs = {1, 2}
    Routes = {1}
    PipeSize = 1
    MaxChildren = 2
    Life = 3
    Conf = 0
    MaxPolls = 0
    MaxCalls <- MCMaxCalls
CHECK_DEADLOCK FALSE
PROPERTIES BindFailureIsRaised StopEnds
