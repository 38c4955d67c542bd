SPECIFICATION Spec
CONSTANTS
  x = x
  x1 = x1
  x2 = x2
  daemon = daemon
  command = command
  Checkouts = {x1, x2}
  Upstreams = {x}
  Upstream <- MCUpstream
  Processes = {daemon, command}
  Roots <- MCRoots
  Daemons = {daemon}
  Files = {f}
  NoFile = NoFile
  NoOne = NoOne
  MaxEdits = 2
  MaxSwitches = 1
  MaxFaults = 1
INVARIANTS NoMarkers SynchronizedTrue
PROPERTIES PeersConverge
CHECK_DEADLOCK FALSE
