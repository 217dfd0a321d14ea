CONSTANTS
    w1 = w1
    w2 = w2
    i1 = i1
    i2 = i2
    None = None
    Worker = {w1, w2}
    Intent = {i1, i2}
    Mixes <- ScreenAndWebhook
SPECIFICATION Spec
SYMMETRY MCSymmetry
INVARIANT PaidMeansHeld
