SPECIFICATION Spec
CONSTANTS
  c1 = c1
  p1 = p1
  NULL = NULL
  Charities = {c1}
  Projects = {p1}
  Categories = {g1}
  CharityOf <- MCCharityOf
  Keys <- MCKeys
  Readers = {r1}
  Writers = {w1}
  MaxWrites = 1
INVARIANT StrongETags
