CONSTANTS
  r1 = r1  r2 = r2  v1 = v1  v2 = v2
  Revision = {r1, r2}
  VersionOf <- MCVersionOf
  None = None
SPECIFICATION Spec
PROPERTIES RebuildIsContinued
