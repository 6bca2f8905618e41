\* Certificates: two installs or renewals together, certificates of two days, a day
\* between the alerts.  Events: two streams, both values of JOBS_MODE, two jobs queued.
SPECIFICATION MCSpec
CONSTANTS
  Concern = {"ssl", "events"}
  Act = {a1, a2}
  Life = 2
  Critical = 0
  Warning = 1
  Notice = 2
  MaxDay = 3
  Viewer = {v1, v2}
  Modes = {"inline", "bullmq"}
  MaxJobs = 2
INVARIANTS
  NeverOverstated
  NeverTooMild
  StreamsAreLive
  PollingSuffices
PROPERTIES
  RequesterIsTold
