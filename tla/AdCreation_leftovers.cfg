SPECIFICATION Spec
CONSTANTS
  Platforms = {"meta", "tiktok", "pinterest", "linkedin", "google", "x"}
  MaxAds = 2
  MaxTries = 2
  MaxAttempts = 2
  MaxMoves = 2
INVARIANT LeftoversRecorded
CHECK_DEADLOCK FALSE
