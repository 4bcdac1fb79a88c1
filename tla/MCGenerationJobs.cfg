CONSTANTS
  s1 = s1
  s2 = s2
  s3 = s3
  x1 = x1
  k1 = k1
  Worker = Worker
  NoKey = NoKey
  Keys = {k1}
  Key <- MCKey
  Digest <- MCDigest
  Requests = {s1, s2, s3}
  Cancels = {x1}
  MaxCrashes = 1
SPECIFICATION FairSpec
INVARIANTS SubmittedOnce ChargedRight CancelKept
PROPERTY NeverBack Settled JobEnds
CHECK_DEADLOCK FALSE
