CONSTANTS
  slug = slug
  main = main
  dev = dev
  v1 = v1
  Slug = slug
  Branch = {main, dev}
  Tag = {v1}
  Default = main
  Uris <- MCUris
  MaxCommits = 2
  MaxClock = 1
  MaxRuns = 2
  MaxLate = 1
SPECIFICATION Spec
INVARIANTS TypeOK DoneMeansThere CleanInstallPinned
PROPERTY RemoteTagsKept
CHECK_DEADLOCK FALSE
