CONSTANTS
  ScraperNames <- MCScraperNames
  Versions <- MCVersions
  ValidVersions <- MCValidVersions
  MaxScrapers = 3
SPECIFICATION Spec
INVARIANT LoopMatchesReference
