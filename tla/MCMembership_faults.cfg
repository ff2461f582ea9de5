SPECIFICATION Spec
CONSTANTS
  Orgs = {o1}
  Registered = {u1, u2}
  Users = {u1, u2, stranger}
  Requests = {r1, r2}
  Concurrency = 2
  Faults = TRUE
  BadSlug = BadSlug
  Null = Null
  o1 = o1
  u1 = u1
  u2 = u2
  stranger = stranger
  r1 = r1
  r2 = r2
SYMMETRY Interchangeable
INVARIANTS TypeOK OneMembershipPerUser OneOrganizationPerSlug AnswersMatchEffects EventsReportCommits
PROPERTY FreshWritesObeyTheRules
