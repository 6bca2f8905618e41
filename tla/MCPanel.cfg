\* Team: two requests together.  Servers: one server, two operations together, a
\* reinstallation and a crash.  Records: two tenants of a client and a template each, two
\* requests together.  Update: two scripts together, two commits, two failures.
SPECIFICATION MCSpec
CONSTANTS
  Area = {"team", "servers", "records", "update"}
  User = {u1, u2}
  Founder = u1
  Request = {r1, r2}
  AccessTTL = 1
  RefreshTTL = 2
  MaxTime = 2
  Server = {s1}
  Op = {o1, o2}
  Key = {k1, k2}
  Cred = {c1, c2}
  NoKey = NoKey
  Steps = 2
  MaxChanges = 1
  MaxCrashes = 1
  Tenant = {"A", "B"}
  Number = {1}
  Domain = {"d1", "d2"}
  MaxSites = 2
  Script = {j1, j2}
  MaxCommits = 2
  MaxFailures = 2
SYMMETRY Symmetry
INVARIANTS
  AdminPowerExpires
  StatusIsTrue
  PinIsVetted
  SitesAreSound
  SchemaIsReady
  
  FlagIsFreed
\* Without an administrator, and with the clock at its bound, nothing is left to do.
CHECK_DEADLOCK FALSE
