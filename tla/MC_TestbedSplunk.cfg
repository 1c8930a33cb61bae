\* Three rounds of Start and Stop: restarts of the testbed receiver on its port.
CONSTANTS
  MaxStarts = 3
  MaxCalls = 6
SPECIFICATION TbSpec
PROPERTY PortFreedAfterStop
INVARIANT StopReachesAcceptingServer
