SPECIFICATION MCSpec
CONSTANTS
    s1 = s1  s2 = s2
    operator = operator  driver = driver
    p1 = p1  p2 = p2
    f1 = f1  f2 = f2  f3 = f3
    h1 = h1  h2 = h2
    r1 = r1
    Absent = Absent
    Names = {1, 2, 3}  Copies = {1, 2, 3}  Meddling <- AnyMeddling  MaxMeddling = 1
    MaxFaults = 1  Errors = TRUE  DiskDamage = FALSE  Unreadable = FALSE
CHECK_DEADLOCK FALSE
INVARIANTS VerifiedIsTrue RecordedOutputVerified PayloadReleased CatalogFollowsDisk
PROPERTIES CompletionVerified OnlyOwnedRemoved HandoverFollowed
