CONSTANTS
    c1 = c1  c2 = c2  c3 = c3
    a = a  b = b  head = head  none = none
    Callers <- MCCallers
    Names <- MCNames
    HEAD = head
    RenameNames = {}
    MaxIds = 2
    None = none
SYMMETRY MCSymmetry
SPECIFICATION Spec
INVARIANTS ConfigHasStorage
