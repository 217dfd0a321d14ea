CONSTANTS
    Worker = {w1, w2}
    Two = {a1, a2}
    Three = {b1, b2, b3}
    None = None
SPECIFICATION MCSpec
INVARIANT TypesOK
 
INVARIANT RecordsAgree
PROPERTY ChoicesHonoured
SYMMETRY MCSymmetry
CHECK_DEADLOCK FALSE
