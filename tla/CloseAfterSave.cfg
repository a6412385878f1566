SPECIFICATION CloseSpec
CONSTANTS
    Blank = Blank
    drawn = drawn
    old = old
    Contents = {Blank, drawn}
    Completed <- MCCompleted
    Files = {old}
    None = None
    DiskFiles <- MCDiskFiles
    MaxToken = 2
    Recoverable = {}
    MaxSession = 2
    Presses = {1, 2}
PROPERTY SaveLosesNothing
CHECK_DEADLOCK FALSE
