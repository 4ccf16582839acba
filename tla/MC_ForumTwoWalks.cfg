SPECIFICATION Spec
CONSTANTS
  Topics = {"a", "b", "c"}
  Pinned = {"c"}
  PageSize = 1
  QuietRunStop = 1
  Inlined = 1
  BatchSize = 1
  Walkers = {w1, w2}
  Intents <- OnlyPlain
  AllowRemoval = FALSE
  MaxTime = 3
  MaxPosts = 2
PROPERTY NeverBackwards
