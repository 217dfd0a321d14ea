CONSTANTS
    Worker = {w1, w2}
    One = {c1}
    Two = {a1, a2}
    Three = {b1, b2, b3}
    None = None
SPECIFICATION MCSpec
INVARIANT TypesOK
INVARIANT SessionsHonest
INVARIANT ChargesAsAgreed
INVARIANT DuesPaidOnce
 
PROPERTY NothingReopens
SYMMETRY MCSymmetry
CHECK_DEADLOCK FALSE
