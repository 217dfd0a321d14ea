SPECIFICATION Spec
ACTION_CONSTRAINT MovesAlone
ACTION_CONSTRAINT ThirdIsSimple
CONSTANTS
  Request = {r1, r2}
  Appt = {a1, a2, a3}
  Barber = {b1, b3}
  Resource = {}
  Customer = {c1, c2}
  Person = {ana, bia}
  Shop = {s1}
  PersonOf <- MCPersonOf
  ShopOf <- MCShopOf
  Engagement <- MCEngagement
  Horizon = 3
  Edits <- ReceptionEdits
  Handlers <- PublicHandlers
  PublicLimit = 2
  SharedRows = FALSE
  NoShowGrace = 1
  InProgressEarly = 1
  None = None
  r1 = r1
  r2 = r2
  a1 = a1
  a2 = a2
  a3 = a3
  b1 = b1
  b2 = b2
  b3 = b3
  x1 = x1
  c1 = c1
  c2 = c2
  ana = ana
  bia = bia
  s1 = s1
  s2 = s2
SYMMETRY PublicSymmetry
 
PROPERTY ImplementsCalendar
CHECK_DEADLOCK FALSE
