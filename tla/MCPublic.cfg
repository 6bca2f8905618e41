\* Search: a cap of one a month, two requests, two queries, one midnight.  Leads: two
\* visitors, each with a key of its own, two leads a window, a map of one key, two leads.
\* Beacon: two tabs, a campaign and none, three events, two of a session in one moment, a
\* report of one campaign, three months.
SPECIFICATION MCSpec
CONSTANTS
  Query = {q1, q2}
  Request = {r1, r2}
  Cap = 1
  TTL = 0
  MaxDay = 1
  MaxLost = 1
  Endpoint = {"search", "lead", "track"}
  Visitor = {v1, v2}
  LeadKey <- OwnKey
  LeadLimit = 2
  Window = 2
  MaxKeys = 1
  MaxTime = 2
  MaxClears = 1
  Url = {u1}
  MaxLeads = 2
  MaxTests = 1
  Tab = {t1, t2}
  Platform = {"google"}
  Campaign = {c1}
  SessionTTL = 1
  EventLimit = 2
  EventWindow = 1
  TopLimit = 1
  MaxMonth = 3
  MaxEvents = 3
INVARIANTS
  SpendingBounded
  RepeatsAreFree
  LimitIsExact
  VisitsAreTold
  PartitionsAreAhead
PROPERTY DeliveriesSettle
