SPECIFICATION FairSpec
CONSTANTS
  MaxClients = 2
  Gathering = {1}
INVARIANTS
  OfferReachesItsClient
  AnsweredBeforePlaying
  CandidatesReachTheirSession
  WatchdogGuardsNegotiation
  VideoFollowsConnection
PROPERTIES
  NegotiationEnds
  StopReturns
CHECK_DEADLOCK FALSE
