\* One process, no crash; an install may be resumed behind the build step.
SPECIFICATION Spec
CONSTANTS
  Site = {s1}
  Task = {t1, t2}
  Api = api
  Installs = api
  ResumeFrom = {1, 4}
  MaxBuilds = 3
  MaxCrashes = 0
SYMMETRY TaskSymmetry
INVARIANT QuietIsSettled
