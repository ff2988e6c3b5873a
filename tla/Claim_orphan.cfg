\* Two callers of one call each, two children.
SPECIFICATION Spec
CONSTANTS
    Callers <- MCCallers
    Poll = "poll"
    Configs = {1, 2}
    Routes = {1}
    PipeSize = 1
    MaxChildren = 2
    Life = 1
    Conf = 1
    MaxPolls = 0
    MaxCalls <- MCMaxCalls
CHECK_DEADLOCK FALSE
INVARIANT NoneLeaked
