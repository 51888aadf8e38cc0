\* Three equal 120 ms routes: stable by the spec's deviation formula.
CONSTANTS
  p1 = p1  p2 = p2  g1 = g1  g2 = g2  g3 = g3
  Null = Null
  NoGame = NoGame
  Peers <- MCPeers
  Pings <- MCStablePings
  Games <- MCGames
  PollGames <- MCPollGames
  PalGames <- MCPalGames
  BasePoll = FALSE
  ManualBuffers <- MCManualBuffers
  FindLongestRoute <- MCFindLongestRoute
SPECIFICATION Spec
INVARIANT StableSamplesAccepted
