SPECIFICATION Spec
CONSTANTS
  p1 = p1
  p2 = p2
  a1 = a1
  a2 = a2
  g1 = g1
  People = {p1, p2}
  Addresses = {a1, a2}
  Subjects = {g1}
  GoogleEmail <- MCGoogleEmail
  Verified = {g1}
  Authoritative = {g1}
  Devices = {d1, d2}
  Ceremonies = {1, 2}
  Companies = {c1, c2}
  Memberships = {1, 2, 3}
  Invitations = {i1, i2}
  Operators = {p1}
  NoOne = NoOne
  NoAddress = NoAddress
  NoSubject = NoSubject
  NoCompany = NoCompany
  NoMembership = NoMembership
INVARIANTS
  OneOwnerPerSubject
  CredentialFollowsAddress
  StaffedFirmHasAdministrator
  
CONSTRAINT MCOneSubject
SYMMETRY MCSymmetry
CHECK_DEADLOCK FALSE
