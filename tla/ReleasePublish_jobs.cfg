CONSTANTS
  Images = {i1, i2}
  Runners = {r1, r2}
  Sources = {sources, manifest, acceptance}
  Stable = {sources}
  Deployment = {compose, provenance, sums}
  None = None
  MaxJobs = 3
SPECIFICATION Spec
INVARIANTS
  PublishedIsBacked
PROPERTIES
  NothingOverwritten Resumable
CHECK_DEADLOCK FALSE
