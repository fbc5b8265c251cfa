SPECIFICATION ServerSpec
CONSTANTS
  s1 = s1
  s2 = s2
  tokens = tokens
  streams = streams
  control = control
  NoSession = NoSession
  Free = Free
  Stale = Stale
  SessionIds <- MCSessionIds
  Tokens <- MCConnections
  Connections <- MCConnections
  TokenClients <- MCTokenClients
  StreamClients <- MCStreamClients
  ControlClients <- MCControlClients
  MaxContext = 3
  MaxDrafts = 1
  ExecutorDrafts = 1
  ExecutorMtp = TRUE
  MaxOutput = 2
PROPERTIES
  RefusedGenerationLeavesOthersAlone
