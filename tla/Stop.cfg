CONSTANTS
    SelfExit = 2
    Slack = 1
    KillPosix = 6
    KillWindows = 4
SPECIFICATION Spec
INVARIANT StopInv
PROPERTIES CleanStop AnsweredFirst
