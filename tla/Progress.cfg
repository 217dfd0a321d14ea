CONSTANTS
    Worker = {w1, w2}
    One = {c1}
    Two = {a1, a2}
    b1 = b1
    b3 = b3
    x1 = x1
    None = None
SPECIFICATION MCSpec
PROPERTY RequestsFinish
PROPERTY PaymentSettles
PROPERTY HoldResolves
PROPERTY EveryoneIsTold
CHECK_DEADLOCK FALSE
