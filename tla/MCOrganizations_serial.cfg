SPECIFICATION SpecWithTexts
CONSTANTS
  Orgs = {o1, o2}
  Registered = {u1, u2}
  Users = {u1, u2}
  Requests = {r1, r2}
  Concurrency = 1
  Faults = FALSE
  BadSlug = BadSlug
  Null = Null
  o1 = o1
  o2 = o2
  u1 = u1
  u2 = u2
  r1 = r1
  r2 = r2
  MinSlugLength = 2
  MaxSlugLength = 4
  TextLength = 5
SYMMETRY Interchangeable
INVARIANTS AlwaysAnOwner LettersMakeASlug SlugsAreStable
PROPERTIES ImplementsRules
