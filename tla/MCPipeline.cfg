CONSTANTS
  Slots = {s1, s2}
  PageLimit = 2
  PageCap = 3
  KeywordsLimited = TRUE
  Beginnings <- MCBeginnings
  ByHand = {"Programmatic SEO", "Content Optimizer"}
SPECIFICATION Spec
INVARIANTS PublishedAsReviewed OneDraftPerDay
PROPERTIES LifeSpec BatchEnds
CHECK_DEADLOCK FALSE
