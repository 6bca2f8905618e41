\* Leads as they arrive behind the panel's nginx: one key for everybody.
SPECIFICATION MCSpec
CONSTANTS
  Query = {q1, q2}
  Request = {r1, r2}
  Cap = 1
  TTL = 0
  MaxDay = 1
  MaxLost = 1
  Endpoint = {"lead"}
  Visitor = {v1, v2}
  LeadKey <- BehindProxy
  LeadLimit = 2
  Window = 2
  MaxKeys = 2
  MaxTime = 2
  MaxClears = 1
  Url = {u1}
  MaxLeads = 2
  MaxTests = 1
  Tab = {t1, t2}
  Platform = {"google"}
  Campaign = {c1}
  SessionTTL = 1
  EventLimit = 2
  EventWindow = 1
  TopLimit = 1
  MaxMonth = 3
  MaxEvents = 3
INVARIANT RefusedHasSpent
