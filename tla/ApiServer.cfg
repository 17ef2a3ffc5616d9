SPECIFICATION ApiFairSpec
CONSTANTS
    Conns = {c1, c2, c3}
    Ctls = {c1}
    Fds = {1, 2}
    MaxLines = 2
INVARIANTS OwnDescriptorsOnly NoThreadSurvives
PROPERTIES StopReturns PbctlReturns
CHECK_DEADLOCK FALSE
