CONSTANTS
    e1 = e1
    e2 = e2
    None = None
    Worker = {w1, w2}
    Session = {s1, s2}
    Entry = {e1, e2}
    KindOf <- SaleAndRefund
    MaxAmount = 2
    Overlap = FALSE
SPECIFICATION MCSpec
SYMMETRY MCSymmetry
INVARIANT TypeOK
INVARIANT OneOpen
PROPERTY CloseIsFinal
INVARIANT Reconciled
