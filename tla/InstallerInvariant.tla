------------------------- MODULE InstallerInvariant -------------------------
(***************************************************************************)
(* The inductive invariant behind the theorems of InstallerProofs: what    *)
(* each program point of an activation knows about its operation, its      *)
(* build row and the site's install_status.                                *)
(***************************************************************************)
EXTENDS Installer

(* Which operations can be where, and which step they are on.  Only an      *)
(* install job announces steps; whatever else deploys does so as if on the  *)
(* step deploying_files.                                                   *)
ShapeOK(r) ==
  /\ r.pc = "idle" <=> r.op = "none"
  /\ r.pc \in {"waiting", "mark", "restore", "enter", "exec", "golive", "failing"}
       => r.op = "run"
  /\ r.pc = "saved" => r.op = "edit"
  /\ r.pc \in {"create", "build"} => r.op # "rollback"
  /\ r.pc = "record" => r.op # "run"
  /\ r.op \in {"edit", "sweep", "rollback"} => r.step = Deploying
  /\ r.pc \in {"waiting", "saved", "mark", "connect", "restore"} => r.step = r.from
  /\ r.pc = "restore" => r.from > Deploying
  /\ r.pc \in {"enter", "exec"} => r.step # Preflight
  /\ r.pc = "exec" => r.step # Deploying
  /\ r.pc \in {"create", "build", "swapOut", "swapIn"} => r.step = Deploying

ShapeInv == \A t \in Task : ShapeOK(task[t])

LockInv == LockIsExact /\ OneHolderPerProcess

(* What a run knows of its site's column: a run about to enter a step finds *)
(* there the step before it, or 'queued' if it is its first.               *)
StatusOK(r, st) ==
  r.op = "run" =>
    /\ r.pc \in {"connect", "restore"} => st = "queued"
    /\ r.pc = "enter" => \/ st = "queued"
                         \/ r.step > CreatingUser /\ st = INSTALL_STEPS[r.step - 1]
    /\ r.pc \in {"exec", "create", "build", "swapOut", "swapIn"}
         => st = INSTALL_STEPS[r.step]
    /\ r.pc = "golive"  => st = INSTALL_STEPS[Verifying]
    /\ r.pc = "failing" => st \notin {"draft", "live", "failed"}

StatusInv == \A t \in Task : StatusOK(task[t], installStatus[task[t].site])

(* An activation past its build, or resumed past it, carries a successful   *)
(* build of its site, and so does a rollback from its first read; a row     *)
(* under construction is the work of one activation.                       *)
Deployable(s, b) == b \in Build /\ IsSuccess(s, b)

PastBuild(r) ==
  \/ r.pc \in {"swapOut", "swapIn", "record", "golive"}
  \/ r.pc \in {"enter", "exec"} /\ r.step > Deploying
  \/ r.pc = "connect" /\ r.op = "rollback"

UnderConstruction(r) ==
  r.build \in Build /\ buildSite[r.build] = r.site /\ buildStatus[r.build] = "building"

TaskBuildsInv ==
  /\ \A t \in Task : PastBuild(task[t]) => Deployable(task[t].site, task[t].build)
  /\ \A t \in Task : At(t, "build") => UnderConstruction(task[t])
  /\ \A t, u \in Task :
       At(t, "build") /\ At(u, "build") /\ task[t].build = task[u].build => t = u

(* No row is numbered above nextBuild, and what a site records and serves   *)
(* are successful builds of it.                                            *)
SiteBuildsInv ==
  /\ \A b \in Build : b >= nextBuild => buildStatus[b] = "absent"
  /\ RecordedBuildSucceeded
  /\ ServedBuildSucceeded
  /\ LiveHasBuild

BuildInv == TaskBuildsInv /\ SiteBuildsInv

IInv == TypeOK /\ ShapeInv /\ LockInv /\ StatusInv /\ BuildInv /\ LiveIsPublished

=============================================================================
