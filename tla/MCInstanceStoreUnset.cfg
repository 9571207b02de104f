CONSTANTS
  Objects = {1, 2}
  Clients <- UnsettingClient
  Rank <- MCRank
  Attrs = {1}
  Guids = {g1}
  Nobody = Nobody
  NoGuid = NoGuid
  MaxListed = 2
  IdBound = 3
SPECIFICATION Spec
INVARIANT NothingPending
