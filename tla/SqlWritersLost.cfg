SPECIFICATION Spec
CONSTANTS
    a = a
    b = b
    Sessions = {a, b}
    None = None
    MaxEffects = 3
    MaxSavepoints = 1
SYMMETRY Perms
INVARIANT NoCommittedRowIsLost
