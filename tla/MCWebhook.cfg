\* Three URLs, the second one malformed; every receiver answers or refuses.
CONSTANTS
  NumUrls = 3
  Malformed = {2}
  Silent = {}
  MaxPosts = 3
SPECIFICATION Spec
INVARIANTS WebhookTypeOK LogMatches
PROPERTY EveryUrlServed
CHECK_DEADLOCK FALSE
