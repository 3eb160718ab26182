\* The first of two URLs takes requests and may never answer.
CONSTANTS
  NumUrls = 2
  Malformed = {}
  Silent = {1}
  MaxPosts = 1
SPECIFICATION Spec
PROPERTY EveryUrlServed
CHECK_DEADLOCK FALSE
