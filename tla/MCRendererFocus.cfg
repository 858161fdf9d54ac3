CONSTANTS
  s1 = s1
  s2 = s2
  Stream = {s1, s2}
  a1 = a1
  a2 = a2
  App = {a1, a2}
  MaxEvents = 1
  Profile <- MCProfile
SPECIFICATION RSpec
SYMMETRY Symmetry
INVARIANTS
  DuckHolds
  FocusSounds
