CONSTANTS
  alice = alice
  bob = bob
  p1 = p1
  p2 = p2
  t1 = t1
  t2 = t2
  u1 = u1
  v1 = v1
  v2 = v2
  None = None
  Moderator = {alice, bob}
  Server = {p1, p2}
  Timer = {t1, t2}
  Url = {u1}
  Verify = {v1, v2}
  MaxCrashes = 1
SPECIFICATION FairSpec
INVARIANTS AbandonedIsWatched UsedUrlIsSpent
PROPERTY AbandonedCloses
