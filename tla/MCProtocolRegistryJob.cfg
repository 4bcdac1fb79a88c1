SPECIFICATION Spec
CONSTANTS
  r1 = r1
  j1 = j1
  j2 = j2
  None = None
  saver = saver
  verifier = verifier
  activator = activator
  activator2 = activator2
  archiver = archiver
  deleter = deleter
  binder = binder
  binder2 = binder2
  binder3 = binder3
  reloader = reloader
  Protocols = {p, q}
  Contents = {c1, c2}
  Slots = {s1}
  Requests = {r1}
  Submitters = {j1, j2}
  Admins <- MCAdmins
  Role <- MCRole
  Casts <- MCCasts
  RetainedLimit = 1
  MaxCrashes = 1
CHECK_DEADLOCK FALSE
INVARIANTS JobLoadable
