CONSTANTS
  s1 = s1
  s2 = s2
  s3 = s3
  Stream = {s1, s2, s3}
  a1 = a1
  a2 = a2
  a3 = a3
  App = {a1, a2, a3}
  Profile <- MCProfile
SPECIFICATION Spec
SYMMETRY Symmetry
INVARIANTS
  TypeOK
  NoClash
PROPERTIES
  OnlyLateStopMisleads
  LeavingReleasesOthers
