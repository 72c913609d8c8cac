SPECIFICATION FairSpec
CONSTANTS
  None = None
  MaxLate = 1
  Runs = {r1}
  Tokens = {t1, t2}
INVARIANTS ScreenIsTrue
PROPERTIES NeverGoesBack FollowsThrough
