CONSTANTS
  Segments <- MCSegments
  InstanceIds <- MCInstanceIds
  MaxSegments = 3
SPECIFICATION Spec
INVARIANT HostnameEmptyOnlyOnFailure
