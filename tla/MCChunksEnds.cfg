CONSTANTS
  u1 = u1  u2 = u2
  Upstream = {u1, u2}
  Listed <- MCListed
  Units = 5
  PieceLen = 2
  MaxChunks = 2
  None = None
SPECIFICATION ChunksSpec

PROPERTIES EveryFetchEnds
