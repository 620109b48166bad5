CONSTANTS
  Star = "*"
  MaxInt = 9
  Reading <- MCReading
  Percent <- MCPercent
  Hosts <- MCHosts
  Methods <- MCMethods
  Paths <- MCPaths
  Rules <- MCRules
  Blocks <- MCBlocks
  TargetChars <- MCTargetChars
  Authorities <- MCAuthorities
  AuthorityChars <- MCAuthorityChars
  Names <- MCNames
  Versions <- MCVersions
  Characters <- MCCharacters
  Lines <- MCLines
  Fields <- MCFields
  PathNames <- MCPathNames
  PathVersions <- MCPathVersions
  Tarballs <- MCTarballs
  PathChars <- MCPathChars
  Mirrors <- MCMirrors
  MaxRules = 2
  MaxBlocks = 2
  Chars = {"a", "b"}
  MaxPattern = 5
  MaxPath = 5
  MaxTarget = 7
  MaxEdits = 2
  MaxFields = 2
  MaxLines = 3
  MaxChanges = 3
SPECIFICATION Spec
INVARIANTS TunnelRefusalIsFinal GreedyWalkIsExact DecidesOnWhatIsSent AuthorityKeepsHost BlocksWhatThePostureSelects FixIsAhead NoLineDisappears SpansAreIntervals OnlyTarballsAreRead
CHECK_DEADLOCK FALSE
