SPECIFICATION Spec
CONSTANTS
  start_hour = 9
  end_hour = 17
  Counts <- MCCounts
  Phrases = {"guarantee", "free setup"}
  Defaults = {"guarantee"}
  Claims <- MCClaims
  PER_CHUNK = 4
  OVERLAP = 2
  DAY = 12
  work_start = 3
  work_end = 9
  allowed_days <- MCAllowedDays
  duration = 2
  buffer = 1
  notice = 1
  max_slots = 2
  Moments <- MCMoments
  DelayDays <- MCDelayDays
  DelayHours <- MCDelayHours
  Jitters <- MCJitters
  Confidences <- MCConfidences
  Texts <- MCTexts
  Searches <- MCSearches
INVARIANTS SlotKept ExcludedNeverHot ReasonsAddUp ReleasedDraftIsSafe ChunksCoverText SlotsAreFree EarliestOffered
PROPERTIES LaterNeverSooner
CHECK_DEADLOCK FALSE
