CONSTANTS
    w1 = w1
    w2 = w2
    s1 = s1
    s2 = s2
    s3 = s3
    s4 = s4
    ana = ana
    bia = bia
    k1 = k1
    None = None
    Mixes <- NoRaceMixes
    Referrer <- NoReferral
    Worker = {w1}
    SaleId = {s1, s2, s3, s4}
    Customer = {ana}
    Card = {k1}
    CardValue = 2
    PointsPerUnit = 1
    PointValue = 1
    Bonus = 1
    MaxManual = 0
    MaxForgiven = 0
    StartPoints = 0
SPECIFICATION Spec
SYMMETRY MCSymmetry
INVARIANT PointsNotNegative
