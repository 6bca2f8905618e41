\* The worker is a process of its own; one crash; starts before and behind the build step.
SPECIFICATION Spec
CONSTANTS
  Site = {s1}
  Task = {t1, t2}
  Api = api
  Installs = worker
  ResumeFrom = {1, 4}
  MaxBuilds = 3
  MaxCrashes = 1
SYMMETRY TaskSymmetry
INVARIANTS
  TypeOK
  LockIsExact
  StatusFollowsRun
  LiveHasBuild
  LiveIsPublished
PROPERTY
  LifecycleSpec
