CONSTANTS
    w1 = w1
    w2 = w2
    i1 = i1
    i2 = i2
    None = None
    Worker = {w1, w2}
    Intent = {i1, i2}
    Mixes <- PromiseMixes
SPECIFICATION Spec
SYMMETRY MCSymmetry
INVARIANT TypeOK
INVARIANT OneCharge
INVARIANT OverlapStrandsNothing
INVARIANT SerialPaidMeansHeld
INVARIANT ReturningKeepsNothing
INVARIANT FaultyRefundMarkTrue
