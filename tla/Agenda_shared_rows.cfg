SPECIFICATION Spec
CONSTANTS
  Request = {r1, r2}
  Appt = {a1, a2}
  Barber = {b1, b3}
  Resource = {}
  Customer = {c1}
  Person = {ana, bia}
  Shop = {s1}
  None = None
  PersonOf <- MCPersonOf
  ShopOf <- MCShopOf
  Engagement <- MCEngagement
  Horizon = 2
  Edits <- SharedEdits
  Handlers <- SharedHandlers
  PublicLimit = 1
  SharedRows = TRUE
  NoShowGrace = 1
  InProgressEarly = 1
  r1 = r1
  r2 = r2
  a1 = a1
  a2 = a2
  a3 = a3
  b1 = b1
  b2 = b2
  b3 = b3
  x1 = x1
  c1 = c1
  c2 = c2
  ana = ana
  bia = bia
  s1 = s1
  s2 = s2
SYMMETRY MCSymmetry
INVARIANT NoDoubleBooking
CHECK_DEADLOCK FALSE
