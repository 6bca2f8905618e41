\* One process, no crash; starts no later than the build step.
SPECIFICATION FairSpec
CONSTANTS
  Site = {s1}
  Task = {t1, t2}
  Api = api
  Installs = api
  ResumeFrom = {1, 2, 3}
  MaxBuilds = 3
  MaxCrashes = 0
INVARIANTS
  OnePipelinePerSite
  ServedBuildSucceeded
  QuietIsSettled
PROPERTY
  LockIsReleased
