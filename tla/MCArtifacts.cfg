SPECIFICATION MCSpec
CONSTANTS
  p1 = p1  p2 = p2  s1 = s1  l1 = l1  l2 = l2
  Nil = Nil
  Phases = {p1, p2}
  Sessions = {s1}
  First = p1
  OwnerOffers <- MCOwnerOffers
  SharedOffers <- MCSharedOffers
  ArchiveOffers <- MCArchiveOffers
  Locators = {l1, l2}
  Contents = {"v1", "v2"}
  Normal <- MCNormal
  MaxEdits = 1
INVARIANTS
  SuccessionEndsAtCurrent
PROPERTIES
  ClosedIsResolved
  SharedSourcesAreIntact
  ReferencesFollow
CHECK_DEADLOCK FALSE
