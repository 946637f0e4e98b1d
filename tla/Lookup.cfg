\* Five rows in pages of up to two, no more than four pages; three runners, two spellings of one harness.
CONSTANTS
  Rows = 5
  PageSize = 2
  maxListingPages = 4
  Agents <- Listings
  AgentNames = {"", "coder", "writer"}
  NameLength <- Lengths
  maxNamesInError = 3
  maxNamesRunes = 4
  Runners <- Answered
  Harnesses = {"openai", "openai-agents", "codex"}
  Aliases <- Renamers
SPECIFICATION LookupSpec
INVARIANTS
  QuietMeansWhole
  NoRequestTwice
  NameResolves
  RunnerServes
