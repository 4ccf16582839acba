SPECIFICATION FairSpec
CONSTANTS
  Topics = {"a", "b", "c"}
  Pinned = {"c"}
  PageSize = 1
  QuietRunStop = 1
  Inlined = 1
  BatchSize = 1
  Walkers = {w1}
  Intents <- AllIntents
  AllowRemoval = TRUE
  MaxTime = 4
  MaxPosts = 3
INVARIANTS TypeOK WatermarkCovers FreshMeansFaithful
PROPERTIES QuietWalkMissesNothing EverythingArrives
