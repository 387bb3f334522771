SPECIFICATION FairSpec
CONSTANTS
    c1 = c1
    c2 = c2
    Clients = {c1, c2}
    NoClient = NoClient
    Cmds = {"wait", "shutdown", "reload"}
    RequestMax = 2
    ResponseMax = 1
    MaxCalls <- MCCalls
    MaxStarts = 2
CHECK_DEADLOCK FALSE
INVARIANTS
    AnswersMatch
PROPERTIES
    CommandReturns
