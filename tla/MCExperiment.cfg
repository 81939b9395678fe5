CONSTANTS
  c1 = c1
  c2 = c2
  Containers = {c1, c2}
  Recipes = {"a", "b", "c"}
  Builds <- MCBuilds
  Targets <- MCTargets
  Previous <- MCPrevious
  Current <- MCCurrent
  Coverage <- MCCoverage
  SanityRecipes = {"c"}
  Prebuilt = {"v1", "v3", "v4"}
  MaxDays = 2
  MaxStarts = 3
  None = None
SPECIFICATION Spec
INVARIANTS DirExclusive PackagedOwnDiff SanityNotBlocked
PROPERTY PackagesKept
SYMMETRY Symmetry
CHECK_DEADLOCK FALSE
