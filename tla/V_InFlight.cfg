CONSTANTS
  r1 = r1
  r2 = r2
  NoRequest = NoRequest
  Req <- MCReq
  Paths <- MCPaths
  Methods <- MCMethods
  Encodings <- MCEncodings
  BodyTokens <- MCBodyTokens
  MaxBody <- MCMaxBody
  HecTokens <- MCHecTokens
  Modes <- MCModes
  Passthrough = {TRUE}
  MaxStarts <- MCMaxStarts
SPECIFICATION Spec
INVARIANT InFlightResponseDelivered
