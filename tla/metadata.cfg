SPECIFICATION Spec
CONSTANTS
  m1 = m1
  e1 = e1
  e2 = e2
  z1 = z1
  s1 = s1
  Movies = {m1}
  Episodes = {e1, e2}
  Seasons = {z1}
  Shows = {s1}
  SeasonOf <- OneSeason
  ShowOf <- OneShow
  Known <- AllButOne
  Runs = {g1, g2}
  None = None
SYMMETRY Symmetry
INVARIANTS
  TypeOK
  EnrichedOrLost
