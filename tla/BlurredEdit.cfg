SPECIFICATION Spec
CONSTANTS
    mouse = mouse  finger = finger
    top = top  child = child
    None = None
    Pointers <- MCPointers
    Docs <- MCDocs
    InitialDoc = top
    MaxRev = 2
    MaxProject = 1
INVARIANTS DragsRevertNothing
