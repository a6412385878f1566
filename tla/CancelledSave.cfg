SPECIFICATION Spec
CONSTANTS
    Blank = Blank
    raw = raw
    drawn = drawn
    old = old
    fresh = fresh
    Contents = {Blank, raw, drawn}
    Completed <- MCCompleted
    Files = {old, fresh}
    None = None
    DiskFiles <- MCDiskFiles
    MaxToken = 2
    Recoverable <- MCRecoverable
    MaxSession = 2
PROPERTY CancelledSaveKeepsTheMark
CHECK_DEADLOCK FALSE
