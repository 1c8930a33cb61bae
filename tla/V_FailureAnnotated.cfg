CONSTANTS
  r1 = r1
  NoRequest = NoRequest
  Req <- MCReq
  Paths <- MCPaths
  Methods <- MCMethods
  Encodings <- MCEncodings
  BodyTokens <- MCBodyTokens
  MaxBody <- MCMaxBody
  HecTokens <- MCHecTokens
  Modes <- MCModes
  Passthrough = {TRUE, FALSE}
  MaxStarts <- MCMaxStarts
SPECIFICATION Spec
INVARIANT FailureStatusAnnotated
