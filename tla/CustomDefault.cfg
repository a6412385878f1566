SPECIFICATION Spec
CONSTANTS
    a = a  b = b  c = c  nm = nm  g = g  v = v
    j1 = j1  j2 = j2
    r1 = r1  r2 = r2  r3 = r3  r4 = r4  r5 = r5  r6 = r6  r7 = r7  r8 = r8
    l1 = l1
    p1 = p1  p2 = p2  p3 = p3  p4 = p4
    Pins = {a, b, c}
    Bodies = {nm}
    Grounds = {g}
    Supplies = {v}
    Junctions = {j1, j2}
    Routes = {r1, r2, r3, r4, r5, r6, r7, r8}
    Labels = {l1}
    LabelNames = {"x"}
    Points = {p1, p2, p3, p4}
    At <- MCAt
    MaxNets = 6
    None = None
    InitialDocuments <- MCInitialDocuments
    MaxEdits = 1
PROPERTY CustomDefaultStands
CHECK_DEADLOCK FALSE
