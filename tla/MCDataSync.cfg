SPECIFICATION Spec
CONSTANTS
  s1 = s1
  s2 = s2
  r1 = r1
  r2 = r2
  r3 = r3
  Symbols = {s1, s2}
  Receivers = {r1, r2, r3}
  Serves <- MCServes
  Numbered = {s2}
  MaxSeq = 4
  None = None
INVARIANTS
  TypeOK
  GapsAreExact
  StatusSettles
PROPERTIES
  NumbersAreFresh
  TracksExactly
CONSTRAINT SecondIsShort
