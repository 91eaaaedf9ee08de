SPECIFICATION Spec
CONSTANTS
  c1 = c1
  p1 = p1
  NULL = NULL
  Charities = {c1}
  Projects = {p1}
  Categories = {}
  CharityOf <- MCCharityOf
  Keys <- MCKeys
  Readers = {r1, r2}
  Writers = {w1}
  MaxWrites = 2
INVARIANTS
  TypeOK
  Coherent
PROPERTIES
  CacheSettles
  AnswersSettle
