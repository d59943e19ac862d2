SPECIFICATION Spec
CONSTANTS
  Users = {u1, u2}
  Gadgets = {g1, g2}
  Emails = {e1}
  Phones = {p1}
  Passwords = {pw}
  Codes = {c1, c2}
  Workers = {w1, w2}
  NoUser = NoUser
  NoGadget = NoGadget
  NoIdentifier = NoIdentifier
  NoPassword = NoPassword
  NoCode = NoCode
  MockCode = NoCode
  MaxRequests = 3
SYMMETRY Symmetry
INVARIANTS
  TypeOK
  CodesServeTheirPurpose
PROPERTIES
  KeepsVerifiedGadget
  DeletedStaysDeleted
  DeletedProfilesAreEmptied
  CodesWorkOnce
  LiveCodesSurvive
CHECK_DEADLOCK FALSE
