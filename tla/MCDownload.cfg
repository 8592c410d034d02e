CONSTANTS
  s1 = s1  s2 = s2
  Source = {s1, s2}
  Catalog <- MCCatalog
  MaxSourceAttempts = 2
  Size = 2
  None = None
SPECIFICATION Spec
INVARIANTS PublishedIsWhole NobodyIsSkipped
PROPERTIES ResultIsTrue EveryRunEnds
