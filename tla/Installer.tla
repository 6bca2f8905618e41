----------------------------- MODULE Installer ------------------------------
(***************************************************************************)
(* The install pipeline of the panel: InstallerService (run, rebuildFiles, *)
(* rollback), the JobRunner that hands install jobs to it, and the callers *)
(* that start it (the install endpoints, the nightly sweep, content edits).*)
(*                                                                         *)
(* Node code runs to its next await without interruption, so one action is *)
(* the code between two awaits.  A task is one asynchronous activation: an *)
(* install job, a files-only rebuild or a rollback.  Tasks of one process  *)
(* share that process's in-memory set `running`; tasks of both processes   *)
(* share the database rows and the server's document roots.                *)
(***************************************************************************)
EXTENDS Integers, FiniteSets

CONSTANTS
  Site,        \* the sites of the panel
  Task,        \* slots for the activations alive at one time
  Api,         \* the API process: endpoints, nightly sweep, content edits
  Installs,    \* the process that executes install jobs: the API process when
               \* JOBS_MODE=inline, the worker process when JOBS_MODE=bullmq
  ResumeFrom,  \* the steps a client may pass as ?from=
  MaxBuilds,   \* bound: rows ever created in the builds table
  MaxCrashes   \* bound: process crashes in one behaviour

INSTALL_STEPS == <<"preflight", "creating_user", "deploying_files",
                   "configuring_nginx", "issuing_ssl", "injecting_tracking",
                   "verifying">>
Preflight    == 1
CreatingUser == 2
Deploying    == 3
Verifying    == 7
Step         == Preflight..Verifying

ASSUME SiteAssumption   == Site # {} /\ Task # {}
ASSUME ResumeAssumption == ResumeFrom \subseteq Step /\ Preflight \in ResumeFrom
ASSUME BoundAssumption  == MaxBuilds \in Nat /\ MaxCrashes \in Nat

Proc    == {Api, Installs}
Inline  == Api = Installs
Build   == 1..MaxBuilds          \* build ids in the order of their createdAt
NoBuild == 0

NoDir    == 0                    \* the document root does not exist
EmptyDir == -1                   \* it exists and holds no site

VARIABLES
  installStatus, \* sites.install_status
  siteStatus,    \* sites.status
  lastBuild,     \* sites.last_build_id
  buildSite,     \* builds.site_id, for the rows created so far
  buildStatus,   \* builds.status
  nextBuild,     \* the id the next row of builds gets
  docroot,       \* what each site's document root holds on its server
  running,       \* InstallerService.running, one set per process
  task,          \* the activations
  sweepSites,    \* live sites the nightly sweep has read and not visited yet
  crashes        \* crashes so far (bound)

siteVars  == <<installStatus, siteStatus, lastBuild>>
buildVars == <<buildSite, buildStatus, nextBuild>>
vars == <<siteVars, buildVars, docroot, running, task, sweepSites, crashes>>

-----------------------------------------------------------------------------
(* Types and helper predicates *)

InstallStatus == {"draft", "queued", "live", "failed"}
                   \cup {INSTALL_STEPS[i] : i \in CreatingUser..Verifying}
SiteStatus    == {"draft", "building", "published", "archived"}
Op            == {"none", "run", "edit", "sweep", "rollback"}
PC            == {"idle", "waiting", "saved", "mark", "connect", "restore",
                  "enter", "exec", "create", "build", "swapOut", "swapIn",
                  "record", "golive", "failing", "release"}

TaskRecord == [op : Op, site : Site, from : Step, step : Step, pc : PC,
               build : Build \cup {NoBuild}, stalled : BOOLEAN]

IdleTask == [op |-> "none", site |-> CHOOSE s \in Site : TRUE,
             from |-> Preflight, step |-> Preflight, pc |-> "idle",
             build |-> NoBuild, stalled |-> FALSE]

NewTask(op, s, from, pc, b) ==
  [op |-> op, site |-> s, from |-> from, step |-> from, pc |-> pc,
   build |-> b, stalled |-> FALSE]

(* The process an activation runs in. *)
ProcOf(op) == IF op = "run" THEN Installs ELSE Api

(* An activation that has added its site to `running` and not removed it.  *)
(* A rollback never does; an install job waiting in Redis and an edit that *)
(* has not called rebuildFiles yet have not done so.                       *)
Holds(t) == /\ task[t].op \in {"run", "edit", "sweep"}
            /\ task[t].pc \notin {"idle", "waiting", "saved"}

IsSuccess(s, b) == buildSite[b] = s /\ buildStatus[b] = "success"

(* build.findFirst with status 'success' ordered by createdAt desc. *)
IsLatestSuccess(s, b) ==
  IsSuccess(s, b) /\ \A c \in Build : IsSuccess(s, c) => c <= b

Free(t)   == task[t].pc = "idle"
At(t, pc) == task[t].pc = pc
Is(t, op) == task[t].op = op

(* Bound: a caller comes only while a row of builds is left for it. *)
BuildsLeft ==
  nextBuild + Cardinality({t \in Task : ~Free(t) /\ task[t].build = NoBuild}) <= MaxBuilds

(* Slips: the guard is missing; it asks the other process's set. *)
NotRunningUnchecked(p, s)   == TRUE

(* if (this.running.has(siteId)) ... *)
NotRunning(p, s) == s \notin running[p]

Acquire(p, s) == running' = [running EXCEPT ![p] = @ \cup {s}]

Goto(t, pc) == task' = [task EXCEPT ![t].pc = pc]

(* Slips: a rebuild that fails marks the site failed; it records its build  *)
(* anyway; an error of the pipeline escapes without a call of fail().      *)
ThrowAlwaysFails(t) == Goto(t, "failing")
ThrowEscapes(t)     == Goto(t, "release")

(* A step that throws: the pipeline records the failure, a rebuild rethrows *)
(* to its caller, a rollback rethrows without having held the lock.        *)
Throw(t) == Goto(t, IF Is(t, "run") THEN "failing" ELSE "release")

-----------------------------------------------------------------------------
Init ==
  /\ installStatus = [s \in Site |-> "draft"]
  /\ siteStatus    = [s \in Site |-> "draft"]
  /\ lastBuild     = [s \in Site |-> NoBuild]
  /\ buildSite     = [b \in Build |-> CHOOSE s \in Site : TRUE]
  /\ buildStatus   = [b \in Build |-> "absent"]
  /\ nextBuild     = 1
  /\ docroot       = [s \in Site |-> NoDir]
  /\ running       = [p \in Proc |-> {}]
  /\ task          = [t \in Task |-> IdleTask]
  /\ sweepSites    = {}
  /\ crashes       = 0

-----------------------------------------------------------------------------
(* Callers *)

(* POST /sites/:id/install?from= and /rebuild.  Inline mode calls run() in  *)
(* the same turn; a run() that finds the site running only emits an event. *)
RequestInline(t, s, from) ==
  /\ Inline
  /\ from <= Deploying => BuildsLeft
  /\ Free(t)
  /\ NotRunning(Installs, s)
  /\ Acquire(Installs, s)
  /\ task' = [task EXCEPT ![t] = NewTask("run", s, from, "mark", NoBuild)]
  /\ UNCHANGED <<siteVars, buildVars, docroot, sweepSites, crashes>>

(* JOBS_MODE=bullmq: queue.add leaves the job in Redis. *)
RequestQueued(t, s, from) ==
  /\ ~Inline
  /\ from <= Deploying => BuildsLeft
  /\ Free(t)
  /\ task' = [task EXCEPT ![t] = NewTask("run", s, from, "waiting", NoBuild)]
  /\ UNCHANGED <<siteVars, buildVars, docroot, running, sweepSites, crashes>>

(* The worker takes a job: run() returns at once when the site is running. *)
TakeJob(t) ==
  /\ At(t, "waiting")
  /\ IF NotRunning(Installs, task[t].site)
       THEN Acquire(Installs, task[t].site) /\ Goto(t, "mark")
       ELSE running' = running /\ task' = [task EXCEPT ![t] = IdleTask]
  /\ UNCHANGED <<siteVars, buildVars, docroot, sweepSites, crashes>>

(* saveEdits reads the site, stores the merged params, and then, if the row *)
(* it read was live, calls rebuildFiles without waiting for it.            *)
SaveEdits(t, s) ==
  /\ Free(t)
  /\ installStatus[s] = "live"
  /\ BuildsLeft
  /\ task' = [task EXCEPT ![t] = NewTask("edit", s, Deploying, "saved", NoBuild)]
  /\ UNCHANGED <<siteVars, buildVars, docroot, running, sweepSites, crashes>>

(* rebuildFiles throws when the site is running; saveEdits only logs it. *)
PublishEdits(t) ==
  /\ At(t, "saved")
  /\ IF NotRunning(Api, task[t].site)
       THEN Acquire(Api, task[t].site) /\ Goto(t, "connect")
       ELSE running' = running /\ task' = [task EXCEPT ![t] = IdleTask]
  /\ UNCHANGED <<siteVars, buildVars, docroot, sweepSites, crashes>>

(* The 3 AM sweep reads the live sites once ... *)
SweepStart ==
  /\ sweepSites = {}
  /\ \A t \in Task : ~Is(t, "sweep")
  /\ sweepSites' = {s \in Site : installStatus[s] = "live"}
  /\ UNCHANGED <<siteVars, buildVars, docroot, running, task, crashes>>

(* ... and visits them one after the other: a running site, or one whose   *)
(* catalog has not changed since its last build, is passed over ...        *)
SweepSkip(s) ==
  /\ s \in sweepSites
  /\ \A t \in Task : ~Is(t, "sweep")
  /\ sweepSites' = sweepSites \ {s}
  /\ UNCHANGED <<siteVars, buildVars, docroot, running, task, crashes>>

(* ... and any other is rebuilt, which the sweep awaits. *)
SweepRebuild(t, s) ==
  /\ s \in sweepSites
  /\ \A u \in Task : ~Is(u, "sweep")
  /\ Free(t)
  /\ BuildsLeft
  /\ NotRunning(Api, s)
  /\ Acquire(Api, s)
  /\ sweepSites' = sweepSites \ {s}
  /\ task' = [task EXCEPT ![t] = NewTask("sweep", s, Deploying, "connect", NoBuild)]
  /\ UNCHANGED <<siteVars, buildVars, docroot, crashes>>

(* Slip: the query does not ask for a successful build. *)
RollbackAnyBuild(t, s, b) ==
  /\ Free(t)
  /\ buildSite[b] = s /\ buildStatus[b] # "absent"
  /\ task' = [task EXCEPT ![t] = NewTask("rollback", s, Deploying, "connect", b)]
  /\ UNCHANGED <<siteVars, buildVars, docroot, running, sweepSites, crashes>>

(* POST /sites/:id/rollback: reads a successful build of the site.  No lock. *)
Rollback(t, s, b) ==
  /\ Free(t)
  /\ IsSuccess(s, b)
  /\ task' = [task EXCEPT ![t] = NewTask("rollback", s, Deploying, "connect", b)]
  /\ UNCHANGED <<siteVars, buildVars, docroot, running, sweepSites, crashes>>

(* SitesService.archive. *)
Archive(s) ==
  /\ siteStatus' = [siteStatus EXCEPT ![s] = "archived"]
  /\ UNCHANGED <<installStatus, lastBuild, buildVars, docroot, running, task,
                 sweepSites, crashes>>

-----------------------------------------------------------------------------
(* execute(): from the job to the loop over the steps *)

(* setInstallStatus also sets status 'building', except for failed and live. *)
SetInstallStatus(s, st) ==
  /\ installStatus' = [installStatus EXCEPT ![s] = st]
  /\ siteStatus' = IF st \in {"failed", "live"} THEN siteStatus
                   ELSE [siteStatus EXCEPT ![s] = "building"]

(* 'queued', then the pure pre-flight check when the run starts there. *)
MarkQueued(t) ==
  /\ At(t, "mark")
  /\ SetInstallStatus(task[t].site, "queued")
  /\ \/ Goto(t, "connect")
     \/ task[t].from = Preflight /\ Goto(t, "failing")
  /\ UNCHANGED <<lastBuild, buildVars, docroot, running, sweepSites, crashes>>

(* Slip: off by one, the step after the deploy step resumes without a build. *)
ResumesLater(t) == task[t].from > Deploying + 1

(* startIndex > INSTALL_STEPS.indexOf('deploying_files') *)
ResumesPastDeploy(t) == task[t].from > Deploying

(* openSession.  A run without a session fails as 'creating_user'. *)
Connect(t) ==
  /\ At(t, "connect")
  /\ \/ Throw(t)
     \/ Is(t, "rollback") /\ Goto(t, "swapOut")
     \/ task[t].op \in {"edit", "sweep"} /\ Goto(t, "create")
     \/ Is(t, "run") /\ ResumesPastDeploy(t) /\ Goto(t, "restore")
     \/ /\ Is(t, "run") /\ ~ResumesPastDeploy(t)
        /\ task' = [task EXCEPT ![t].pc = "enter",
                                ![t].step = IF @ = Preflight THEN CreatingUser ELSE @]
  /\ UNCHANGED <<siteVars, buildVars, docroot, running, sweepSites, crashes>>

(* restoreLastBuild takes the newest successful build, deployed or not.  An *)
(* error here (no such build, artifact unreadable) is outside the per-step  *)
(* try: it leaves execute() and run() without a call of fail().            *)
RestoreLastBuild(t) ==
  /\ At(t, "restore")
  /\ \/ \E b \in Build : /\ IsLatestSuccess(task[t].site, b)
                         /\ task' = [task EXCEPT ![t].pc = "enter", ![t].build = b]
     \/ Goto(t, "release")
  /\ UNCHANGED <<siteVars, buildVars, docroot, running, sweepSites, crashes>>

(* Each round of the loop announces its step before running it. *)
EnterStep(t) ==
  /\ At(t, "enter")
  /\ SetInstallStatus(task[t].site, INSTALL_STEPS[task[t].step])
  /\ Goto(t, IF task[t].step = Deploying THEN "create" ELSE "exec")
  /\ UNCHANGED <<lastBuild, buildVars, docroot, running, sweepSites, crashes>>

(* Slips: no end to the loop; a panel with SKIP_SSL leaves the step out. *)
NextStepUnbounded(t) ==
  task' = [task EXCEPT ![t].pc = "enter", ![t].step = @ + 1]
NextStepSkipsSsl(t) ==
  task' = [task EXCEPT ![t].pc   = IF task[t].step = Verifying THEN "golive" ELSE "enter",
                       ![t].step = CASE @ = Verifying -> @ [] @ = 4 -> 6 [] OTHER -> @ + 1]

(* The end of a round: the next step, or the update that makes it live. *)
NextStep(t) ==
  task' = [task EXCEPT ![t].pc   = IF task[t].step = Verifying THEN "golive" ELSE "enter",
                       ![t].step = IF @ = Verifying THEN @ ELSE @ + 1]

(* creating_user makes the document root if there is none. *)
MakeDocroot(t) ==
  docroot' = IF task[t].step = CreatingUser /\ docroot[task[t].site] = NoDir
             THEN [docroot EXCEPT ![task[t].site] = EmptyDir] ELSE docroot

(* The body of every step but deploying_files.  Any of them may fail; the  *)
(* final verification passes only if the site answers with its home page.  *)
RunStep(t) ==
  /\ At(t, "exec")
  /\ \/ /\ task[t].step = Verifying => docroot[task[t].site] \in Build
        /\ MakeDocroot(t)
        /\ NextStep(t)
     \/ (MakeDocroot(t) \/ docroot' = docroot) /\ Throw(t)
  /\ UNCHANGED <<siteVars, buildVars, running, sweepSites, crashes>>

-----------------------------------------------------------------------------
(* stepDeployFiles and deployArtifact *)

CreateBuild(t) ==
  /\ At(t, "create")
  /\ nextBuild \in Build
  /\ buildSite'   = [buildSite EXCEPT ![nextBuild] = task[t].site]
  /\ buildStatus' = [buildStatus EXCEPT ![nextBuild] = "building"]
  /\ nextBuild'   = nextBuild + 1
  /\ task' = [task EXCEPT ![t].pc = "build", ![t].build = nextBuild]
  /\ UNCHANGED <<siteVars, docroot, running, sweepSites, crashes>>

(* builds.run, then the row's verdict; success is recorded before the swap. *)
BuildSite(t) ==
  /\ At(t, "build")
  /\ \/ /\ buildStatus' = [buildStatus EXCEPT ![task[t].build] = "success"]
        /\ Goto(t, "swapOut")
     \/ /\ buildStatus' = [buildStatus EXCEPT ![task[t].build] = "failed"]
        /\ Throw(t)
  /\ UNCHANGED <<siteVars, buildSite, nextBuild, docroot, running, sweepSites, crashes>>

(* The remote shell chain: upload, unpack, then `mv docroot docroot.old`.  *)
SwapOut(t) ==
  /\ At(t, "swapOut")
  /\ \/ /\ docroot' = [docroot EXCEPT ![task[t].site] = NoDir]
        /\ Goto(t, "swapIn")
     \/ docroot' = docroot /\ Throw(t)
  /\ UNCHANGED <<siteVars, buildVars, running, sweepSites, crashes>>

(* `mv release docroot`: where another chain has put a document root back   *)
(* meanwhile, mv moves the release inside it and still exits 0.            *)
MoveIn(s, b) ==
  docroot' = IF docroot[s] = NoDir THEN [docroot EXCEPT ![s] = b] ELSE docroot

(* The chain ends, or the panel stops waiting for it (180 s, connection     *)
(* lost) with the last move done or not.                                   *)
SwapIn(t) ==
  /\ At(t, "swapIn")
  /\ \/ /\ MoveIn(task[t].site, task[t].build)
        /\ IF Is(t, "run") THEN NextStep(t) ELSE Goto(t, "record")
     \/ (MoveIn(task[t].site, task[t].build) \/ docroot' = docroot) /\ Throw(t)
  /\ UNCHANGED <<siteVars, buildVars, running, sweepSites, crashes>>

-----------------------------------------------------------------------------
(* Outcomes *)

(* rebuildFiles and rollback write last_build_id and nothing else. *)
RecordBuild(t) ==
  /\ At(t, "record")
  /\ lastBuild' = [lastBuild EXCEPT ![task[t].site] = task[t].build]
  /\ Goto(t, "release")
  /\ UNCHANGED <<installStatus, siteStatus, buildVars, docroot, running,
                 sweepSites, crashes>>

(* ...(ctx.buildId ? { lastBuildId: ctx.buildId } : {}) *)
CtxBuild(t) == IF task[t].build = NoBuild THEN lastBuild[task[t].site] ELSE task[t].build

(* Slip: only install_status is written, as the other steps do through       *)
(* setInstallStatus.                                                        *)
GoLiveKeepsStatus(t) ==
  /\ At(t, "golive")
  /\ installStatus' = [installStatus EXCEPT ![task[t].site] = "live"]
  /\ lastBuild'     = [lastBuild EXCEPT ![task[t].site] = CtxBuild(t)]
  /\ Goto(t, "release")
  /\ UNCHANGED <<siteStatus, buildVars, docroot, running, sweepSites, crashes>>

GoLive(t) ==
  /\ At(t, "golive")
  /\ installStatus' = [installStatus EXCEPT ![task[t].site] = "live"]
  /\ siteStatus'    = [siteStatus EXCEPT ![task[t].site] = "published"]
  /\ lastBuild'     = [lastBuild EXCEPT ![task[t].site] = CtxBuild(t)]
  /\ Goto(t, "release")
  /\ UNCHANGED <<buildVars, docroot, running, sweepSites, crashes>>

(* fail(): status 'failed'; sites.status keeps the value 'building'. *)
Fail(t) ==
  /\ At(t, "failing")
  /\ SetInstallStatus(task[t].site, "failed")
  /\ Goto(t, "release")
  /\ UNCHANGED <<lastBuild, buildVars, docroot, running, sweepSites, crashes>>

(* Slips: a rollback shares the finally; an early return is not under it. *)
UnlockAlways(t) ==
  running' = [running EXCEPT ![ProcOf(task[t].op)] = @ \ {task[t].site}]
UnlockAfterBuild(t) ==
  running' = IF Is(t, "rollback") \/ task[t].build = NoBuild THEN running
             ELSE [running EXCEPT ![ProcOf(task[t].op)] = @ \ {task[t].site}]

(* finally { this.running.delete(siteId) }; a rollback has nothing to delete. *)
Unlock(t) ==
  running' = IF Is(t, "rollback") THEN running
             ELSE [running EXCEPT ![ProcOf(task[t].op)] = @ \ {task[t].site}]

Release(t) ==
  /\ At(t, "release")
  /\ Unlock(t)
  /\ task' = [task EXCEPT ![t] = IdleTask]
  /\ UNCHANGED <<siteVars, buildVars, docroot, sweepSites, crashes>>

(* A process dies: its activations and its `running` set are gone, rows and *)
(* document roots stay, a shell chain under way finishes or stops.  BullMQ  *)
(* hands a job whose worker died to a worker once more (maxStalledCount 1). *)
AfterCrash(t, p) ==
  IF ProcOf(task[t].op) # p \/ task[t].pc \in {"idle", "waiting"} THEN task[t]
  ELSE IF ~Inline /\ Is(t, "run") /\ ~task[t].stalled
    THEN [NewTask("run", task[t].site, task[t].from, "waiting", NoBuild)
            EXCEPT !.stalled = TRUE]
  ELSE IdleTask

Crash(p) ==
  /\ crashes < MaxCrashes
  /\ crashes' = crashes + 1
  /\ running' = [running EXCEPT ![p] = {}]
  /\ task' = [t \in Task |-> AfterCrash(t, p)]
  /\ sweepSites' = IF p = Api THEN {} ELSE sweepSites
  /\ \/ docroot' = docroot
     \/ \E t \in Task : /\ At(t, "swapIn") /\ ProcOf(task[t].op) = p
                        /\ MoveIn(task[t].site, task[t].build)
  /\ UNCHANGED <<siteVars, buildVars>>

-----------------------------------------------------------------------------
(* One step of the activation in slot t, whatever it is doing. *)
TaskStep(t) ==
  \/ TakeJob(t) \/ PublishEdits(t) \/ MarkQueued(t) \/ Connect(t)
  \/ RestoreLastBuild(t) \/ EnterStep(t) \/ RunStep(t) \/ CreateBuild(t)
  \/ BuildSite(t) \/ SwapOut(t) \/ SwapIn(t) \/ RecordBuild(t) \/ GoLive(t)
  \/ Fail(t) \/ Release(t)

Next ==
  \/ \E t \in Task : TaskStep(t)
  \/ \E t \in Task, s \in Site :
       \/ \E from \in ResumeFrom : RequestInline(t, s, from) \/ RequestQueued(t, s, from)
       \/ SaveEdits(t, s)
       \/ SweepRebuild(t, s)
       \/ \E b \in Build : Rollback(t, s, b)
  \/ SweepStart
  \/ \E s \in Site : SweepSkip(s) \/ Archive(s)
  \/ \E p \in Proc : Crash(p)

Spec == Init /\ [][Next]_vars

(* The endpoints, the sweep and crashes may happen or not; an activation    *)
(* goes on.  The SSH commands and page fetches carry timeouts and the       *)
(* database answers; `astro build` is assumed to end, for it has no timeout.*)
Fairness == \A t \in Task : WF_vars(TaskStep(t))

FairSpec == Spec /\ Fairness

-----------------------------------------------------------------------------
(* Properties *)

TypeOK ==
  /\ installStatus \in [Site -> InstallStatus]
  /\ siteStatus \in [Site -> SiteStatus]
  /\ lastBuild \in [Site -> Build \cup {NoBuild}]
  /\ buildSite \in [Build -> Site]
  /\ buildStatus \in [Build -> {"absent", "building", "success", "failed"}]
  /\ nextBuild \in 1..(MaxBuilds + 1)
  /\ docroot \in [Site -> Build \cup {NoDir, EmptyDir}]
  /\ running \in [Proc -> SUBSET Site]
  /\ task \in [Task -> TaskRecord]
  /\ sweepSites \subseteq Site
  /\ crashes \in 0..MaxCrashes

(* A process's `running` set holds exactly the sites that an activation of  *)
(* that process is working on: an entry neither outlives its owner, which   *)
(* would refuse every later install, nor is deleted by someone else's       *)
(* finally while its owner still works.                                     *)
LockIsExact ==
  \A p \in Proc, s \in Site :
    s \in running[p] <=>
      \E t \in Task : Holds(t) /\ task[t].site = s /\ ProcOf(task[t].op) = p

(* Within one process at most one install or rebuild works on a site. *)
OneHolderPerProcess ==
  \A t, u \in Task :
    /\ Holds(t) /\ Holds(u)
    /\ task[t].site = task[u].site
    /\ ProcOf(task[t].op) = ProcOf(task[u].op)
    => t = u

(* On an inline panel at most one install or rebuild works on a site: what  *)
(* `running` and the sweep's "sites already building are skipped" are for.  *)
OnePipelinePerSite ==
  \A t, u \in Task :
    Holds(t) /\ Holds(u) /\ task[t].site = task[u].site => t = u

(* While an install runs, install_status is the step it is on: no rebuild,  *)
(* rollback, failure of another activation or earlier job moves the column  *)
(* under it.                                                                *)
StatusFollowsRun ==
  \A t \in Task :
    Is(t, "run") =>
      LET st == installStatus[task[t].site] IN
      CASE task[t].pc \in {"connect", "restore"} -> st = "queued"
        [] task[t].pc \in {"exec", "create", "build", "swapOut", "swapIn"} ->
             st = INSTALL_STEPS[task[t].step]
        [] task[t].pc = "golive"  -> st = INSTALL_STEPS[Verifying]
        [] task[t].pc \in {"enter", "failing"} -> st \notin {"draft", "live", "failed"}
        [] OTHER -> TRUE

(* last_build_id only ever names a successful build of the same site, one a *)
(* rollback or a resumed install can deploy again.                          *)
RecordedBuildSucceeded ==
  \A s \in Site : lastBuild[s] # NoBuild => IsSuccess(s, lastBuild[s])

(* A live site has a recorded build, also when the install was resumed past *)
(* the step that builds.                                                    *)
LiveHasBuild ==
  \A s \in Site : installStatus[s] = "live" => lastBuild[s] # NoBuild

(* Visitors of a site are only ever served a successful build of that site. *)
ServedBuildSucceeded ==
  \A s \in Site : docroot[s] \in Build => IsSuccess(s, docroot[s])

(* A live site counts as published or archived, so the monitors that select *)
(* by sites.status keep watching it while nobody archives it.               *)
LiveIsPublished ==
  \A s \in Site : installStatus[s] = "live" => siteStatus[s] \in {"published", "archived"}

(* With no install of a site pending or running, its install_status is one  *)
(* the dashboard offers a next action for, not a step nobody is working on. *)
QuietIsSettled ==
  \A s \in Site :
    \/ installStatus[s] \in {"draft", "live", "failed"}
    \/ \E t \in Task : Is(t, "run") /\ task[t].site = s

(* Every entry of a `running` set is removed, so a site is never locked     *)
(* against installs for good.                                               *)
LockIsReleased ==
  \A p \in Proc, s \in Site : s \in running[p] ~> s \notin running[p]

(* The pipeline implements the state machine the dashboard is promised. *)
Lifecycle == INSTANCE InstallLifecycle WITH status <- installStatus
LifecycleSpec == Lifecycle!Spec

=============================================================================
