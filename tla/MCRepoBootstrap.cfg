SPECIFICATION BootstrapSpec
CONSTANTS
  Openers = {1}
  Projects = {{}, {"pyproject.toml", "tests"}}
  LastPush = 4
  CodespaceTries = 2
  GitFaults = 1
INVARIANTS
  TestResultsAreRead
CHECK_DEADLOCK FALSE
