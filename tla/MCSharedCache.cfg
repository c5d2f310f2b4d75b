SPECIFICATION Spec
CONSTANTS
    Entries = {e1, e2, e3}
    Contents = {x1, x2, x3}
    IDs = {i1, i2, i3}
    Confidences = {1, 2, 3}
    TopK = 2
    Callers = {c1, c2}
SYMMETRY Symmetry
INVARIANT
    DropsOnlyDuplicates
