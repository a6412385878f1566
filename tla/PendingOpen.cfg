SPECIFICATION Spec
CONSTANTS
    LastFile = LastFile
    Undefined = Undefined
    None = None
    MaxHanded = 3
INVARIANTS TypeOK TakenOnce
PROPERTIES HandedFilesAreOpened StartupReopenYields
CHECK_DEADLOCK FALSE
