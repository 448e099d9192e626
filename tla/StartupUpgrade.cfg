\* One process opens a database that an older release left behind.
SPECIFICATION StartSpec
CONSTANTS
  Processes = {p1}
  Releases = {3, 5, 11, 12}
  OldChecks = {FALSE}
INVARIANT
  AppliedMeansThere
