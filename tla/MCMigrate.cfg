\* Two processes of one build that migrate and one of an older build, beside a pod
\* that insists on its schema and a -status, with two faults.
SPECIFICATION FairSpec
CONSTANTS
  job = job
  pod = pod
  old = old
  new = new
  shell = shell
  Procs = {job, old, pod, shell}
  Task <- Rollout
  Carries <- Builds
  Latest = 2
  MaxFaults = 2
INVARIANTS
  RunsOnce
  UpToDate
  ReportsTrue
PROPERTIES
  Converges
  ImplementsSchemaVersion
CHECK_DEADLOCK FALSE
