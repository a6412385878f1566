SPECIFICATION Spec
CONSTANTS
    LastFile = LastFile
    Undefined = Undefined
    None = None
    MaxHanded = 3
PROPERTY UnsavedWorkIsAskedAbout
CHECK_DEADLOCK FALSE
