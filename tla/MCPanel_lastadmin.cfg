\* Two requests of the team together.
SPECIFICATION MCSpec
CONSTANTS
  Area = {"team"}
  User = {u1, u2}
  Founder = u1
  Request = {r1, r2}
  AccessTTL = 1
  RefreshTTL = 2
  MaxTime = 2
  Server = {s1}
  Op = {o1, o2}
  Key = {k1, k2}
  Cred = {c1, c2}
  NoKey = NoKey
  Steps = 2
  MaxChanges = 1
  MaxCrashes = 1
  Tenant = {"A", "B"}
  Number = {1}
  Domain = {"d1", "d2"}
  MaxSites = 2
  Script = {j1, j2}
  MaxCommits = 2
  MaxFailures = 2
SYMMETRY Symmetry
INVARIANT AdminRemains
