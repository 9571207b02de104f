CONSTANTS
  p1 = p1
  p2 = p2
  m = m
  q1 = q1
  q2 = q2
  wood = wood
  steel = steel
  None = None
  Products = {p1, p2}
  Representations = {m, q1, q2}
  Materials = {wood, steel}
  Inputs <- MCInputs
  Filters <- MCFilters
SPECIFICATION Spec
INVARIANT ConvertedOnce
