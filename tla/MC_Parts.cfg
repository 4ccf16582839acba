SPECIFICATION MCSpec
CONSTANTS
  Paths = {"a", "b"}
  Dated = {"b"}
  Configs <- MCConfigs
  MaxCommits = 3
  MaxSyncs = 3
  NoHead = NoHead
  NumArticles = 4
  MaxEdition = 2
  Unusable = {2}
  RecheckRecent = 1
  Limit = 1
  SourceEntries <- MCEntries
  MinInterval = 2
  MaxAttempts = 3
  InitialBackoff = 2
  MaxBackoff = 4
  RetryAfters = {1, 5}
  MaxTime = 12
  Lines <- MCLines
  MaxLines = 5
  TARGET_CHARS = 7
  OVERLAP_CHARS = 4
  HARD_MAX_CHARS = 9
  Docs <- MCDocs
  MaxRows = 3
  Limits = {1, 2, 3}
  THREAD_CAP = 2
  CANDIDATES = 3
  KNN_LIMIT = 6
  RRF_K = 60
  RRF_WHOLE = 238266
  Everywhere = Everywhere
  Shelf <- MCShelf
  Texts <- MCTexts
  Variants <- MCVariants
  Forks = {"phase0", "electra"}
  NoFork = NoFork
  FUNCTION_MAX = 2
  Corpora <- MCCorpora
  Befores = {0, 3}
  Offsets = {0, 2, 9}
  OP_MAX_CHARS = 3
  NEIGHBOR_MAX_CHARS = 1
  REPLY_PAGE = 2
  MAX_CONTEXT = 2
  DEFAULT_BEFORE = 1
  DEFAULT_AFTER = 1
  None = None
INVARIANTS
  CheckpointDescribes DatesFollow NothingUnread
  ChunksHold ExactHitsFirst LookupTells ReadToEnd
PROPERTIES HostPolite RetriesWait
CHECK_DEADLOCK FALSE
