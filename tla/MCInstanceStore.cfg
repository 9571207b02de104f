CONSTANTS
  Objects = {1, 3, 4, 5, 6}
  Clients <- BothClients
  Rank <- MCRank
  Attrs = {1}
  Guids = {g1}
  Nobody = Nobody
  NoGuid = NoGuid
  MaxListed = 2
  IdBound = 4
SPECIFICATION Spec
INVARIANTS
  TypeOK
  MapsAreLive
  NamesAreUnique
  InversesExact
  NoDangling
  RemovalsComplete
  GuidIsFound
