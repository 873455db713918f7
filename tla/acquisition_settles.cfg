SPECIFICATION FairSpec
CONSTANTS
  p = p
  q = q
  match = match
  leg1 = leg1
  leg2 = leg2
  short = short
  long = long
  rival = rival
  cup = cup
  league = league
  e1 = e1
  e2 = e2
  e3 = e3
  w1 = w1
  w2 = w2
  w3 = w3
  Silent = Silent
  None = None
  Listings <- MCListings
  Providers <- MCProviders
  Names <- MCNames
  Participants <- MCNames
  Normal <- MCNormal
  Listed <- MCListed
  EventIds <- MCEventIds
  Times = {0, 1, 2}
  Tolerance = 1
  Workers = {w1, w2}
  SourcesOf <- OneEach
  FirstKickoff <- MCFirstKickoff
  AliasFile <- BothAliases
  MaxMoves = 0
  MaxCrashes = 1
INVARIANTS
  ProviderIsAuthoritative
PROPERTIES
  EveryListingIsSettled
CHECK_DEADLOCK FALSE
