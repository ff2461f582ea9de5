SPECIFICATION Spec
CONSTANTS
  Orgs = {o1}
  Registered = {u1, u2}
  Users = {u1, u2}
  Requests = {r1, r2}
  Concurrency = 2
  Faults = FALSE
  BadSlug = BadSlug
  Null = Null
  o1 = o1
  u1 = u1
  u2 = u2
  r1 = r1
  r2 = r2
INVARIANT AlwaysAnOwner
