-------------------------- MODULE InstallerProofs ---------------------------
(***************************************************************************)
(* Theorems of Installer, for every panel: any sites, any number of        *)
(* activations, inline or worker mode, any bounds.                         *)
(*                                                                         *)
(* First what the updates of `task` do to the fields of its records, then  *)
(* one lemma per conjunct of the inductive invariant IInv, each by cases   *)
(* on the actions, and at the end the theorems.                            *)
(***************************************************************************)
EXTENDS InstallerInvariant, TLAPS

-----------------------------------------------------------------------------
(* Data *)

(* The step numbers are numbers and the step names are statuses. *)
LEMMA StepFacts ==
  /\ Preflight = 1 /\ CreatingUser = 2 /\ Deploying = 3 /\ Verifying = 7
  /\ Step = 1..7
  /\ \A i \in 2..7 : INSTALL_STEPS[i] \in InstallStatus
  /\ \A i \in 1..7 : INSTALL_STEPS[i] \notin {"draft", "queued", "live", "failed"}
  /\ {"draft", "queued", "live", "failed"} \subseteq InstallStatus
BY DEF Preflight, CreatingUser, Deploying, Verifying, Step, InstallStatus, INSTALL_STEPS

(* An idle slot and a fresh activation are task records. *)
LEMMA RecordTypes ==
  /\ IdleTask \in TaskRecord
  /\ \A op \in Op, s \in Site, from \in Step, pc \in PC, b \in Build \cup {NoBuild} :
       NewTask(op, s, from, pc, b) \in TaskRecord
<1>1. (CHOOSE s \in Site : TRUE) \in Site
  BY SiteAssumption
<1>2. IdleTask \in TaskRecord
  BY <1>1, StepFacts DEF IdleTask, TaskRecord, Op, PC, NoBuild
<1>3. QED
  BY <1>2 DEF NewTask, TaskRecord

LEMMA ProcOfType == \A op : ProcOf(op) \in Proc
BY DEF ProcOf, Proc

-----------------------------------------------------------------------------
(* What one activation's step does to the slots *)

Others(t) == \A u \in Task \ {t} : task'[u] = task[u]

(* The activation in slot t goes on: it is at `pc`, on `step`, with `b`. *)
Moves(t, pc, step, b) ==
  /\ task' \in [Task -> TaskRecord]
  /\ Others(t)
  /\ task'[t].op = task[t].op /\ task'[t].site = task[t].site /\ task'[t].from = task[t].from
  /\ task'[t].pc = pc /\ task'[t].step = step /\ task'[t].build = b
  /\ task'[t].stalled => task[t].stalled

(* The slot t is given to another activation, or freed. *)
Becomes(t, r) ==
  /\ task' \in [Task -> TaskRecord]
  /\ Others(t)
  /\ task'[t] = r

LEMMA FieldTypes ==
  ASSUME TypeOK, NEW t \in Task
  PROVE  /\ task[t] \in TaskRecord
         /\ task[t].op \in Op /\ task[t].site \in Site /\ task[t].from \in Step
         /\ task[t].step \in Step /\ task[t].pc \in PC
         /\ task[t].build \in Build \cup {NoBuild}
BY DEF TypeOK, TaskRecord

LEMMA GotoMoves ==
  ASSUME TypeOK, NEW t \in Task, NEW pc \in PC, Goto(t, pc)
  PROVE  Moves(t, pc, task[t].step, task[t].build)
BY DEF TypeOK, Goto, TaskRecord, Moves, Others

LEMMA StepMoves ==
  ASSUME TypeOK, NEW t \in Task, NEW pc \in PC, NEW step \in Step,
         task' = [task EXCEPT ![t].pc = pc, ![t].step = step]
  PROVE  Moves(t, pc, step, task[t].build)
BY DEF TypeOK, TaskRecord, Moves, Others

LEMMA BuildMoves ==
  ASSUME TypeOK, NEW t \in Task, NEW pc \in PC, NEW b \in Build,
         task' = [task EXCEPT ![t].pc = pc, ![t].build = b]
  PROVE  Moves(t, pc, task[t].step, b)
BY DEF TypeOK, TaskRecord, Moves, Others

LEMMA SlotBecomes ==
  ASSUME TypeOK, NEW t \in Task, NEW r \in TaskRecord, task' = [task EXCEPT ![t] = r]
  PROVE  Becomes(t, r)
BY DEF TypeOK, Becomes, Others

LEMMA ThrowMoves ==
  ASSUME TypeOK, NEW t \in Task, Throw(t)
  PROVE  Moves(t, IF Is(t, "run") THEN "failing" ELSE "release", task[t].step, task[t].build)
BY GotoMoves DEF Throw, PC

LEMMA NextStepMoves ==
  ASSUME TypeOK, NEW t \in Task, NextStep(t)
  PROVE  Moves(t, IF task[t].step = Verifying THEN "golive" ELSE "enter",
                  IF task[t].step = Verifying THEN Verifying ELSE task[t].step + 1,
                  task[t].build)
<1> DEFINE pc == IF task[t].step = Verifying THEN "golive" ELSE "enter"
           st == IF task[t].step = Verifying THEN Verifying ELSE task[t].step + 1
<1>1. task[t].step \in 1..7 /\ task[t] \in TaskRecord
  BY FieldTypes, StepFacts
<1>2. pc \in PC /\ st \in Step
  BY <1>1, StepFacts DEF PC
<1>3. task' = [task EXCEPT ![t].pc = pc, ![t].step = st]
  BY <1>1 DEF NextStep, TypeOK, TaskRecord
<1>4. Moves(t, pc, st, task[t].build)
  <2> HIDE DEF pc, st
  <2> QED
    BY <1>2, <1>3, StepMoves
<1>5. QED
  BY <1>4

LEMMA ConnectMoves ==
  ASSUME TypeOK, NEW t \in Task, Connect(t)
  PROVE  \/ Throw(t)
         \/ Is(t, "rollback") /\ Moves(t, "swapOut", task[t].step, task[t].build)
         \/ task[t].op \in {"edit", "sweep"} /\ Moves(t, "create", task[t].step, task[t].build)
         \/ /\ Is(t, "run") /\ task[t].from > Deploying
            /\ Moves(t, "restore", task[t].step, task[t].build)
         \/ /\ Is(t, "run") /\ ~(task[t].from > Deploying)
            /\ Moves(t, "enter", IF task[t].step = Preflight THEN CreatingUser ELSE task[t].step,
                     task[t].build)
<1>1. task[t].step \in 1..7 /\ task[t] \in TaskRecord
  BY FieldTypes, StepFacts
<1>2. \A pc \in PC : Goto(t, pc) => Moves(t, pc, task[t].step, task[t].build)
  BY GotoMoves
<1>3. ASSUME task' = [task EXCEPT ![t].pc = "enter",
                                  ![t].step = IF @ = Preflight THEN CreatingUser ELSE @]
      PROVE  Moves(t, "enter", IF task[t].step = Preflight THEN CreatingUser ELSE task[t].step,
                   task[t].build)
  <2> DEFINE st == IF task[t].step = Preflight THEN CreatingUser ELSE task[t].step
  <2>1. st \in Step
    BY <1>1, StepFacts
  <2>2. task' = [task EXCEPT ![t].pc = "enter", ![t].step = st]
    BY <1>1, <1>3 DEF TypeOK, TaskRecord
  <2>3. Moves(t, "enter", st, task[t].build)
    <3> HIDE DEF st
    <3> QED
      BY <2>1, <2>2, StepMoves DEF PC
  <2>4. QED
    BY <2>3
<1>4. QED
  BY <1>2, <1>3 DEF Connect, ResumesPastDeploy, PC

LEMMA RestoreMoves ==
  ASSUME TypeOK, NEW t \in Task, RestoreLastBuild(t)
  PROVE  \/ \E b \in Build : /\ IsLatestSuccess(task[t].site, b)
                             /\ Moves(t, "enter", task[t].step, b)
         \/ Moves(t, "release", task[t].step, task[t].build)
BY GotoMoves, BuildMoves DEF RestoreLastBuild, PC

LEMMA CreateMoves ==
  ASSUME TypeOK, NEW t \in Task, CreateBuild(t)
  PROVE  nextBuild \in Build /\ Moves(t, "build", task[t].step, nextBuild)
BY BuildMoves DEF CreateBuild, PC

(* A process that takes a job, or an edit that is published, or not. *)
LEMMA TakeMoves ==
  ASSUME TypeOK, NEW t \in Task, TakeJob(t) \/ PublishEdits(t)
  PROVE  \/ /\ TakeJob(t) /\ NotRunning(Installs, task[t].site)
            /\ Moves(t, "mark", task[t].step, task[t].build)
         \/ /\ PublishEdits(t) /\ NotRunning(Api, task[t].site)
            /\ Moves(t, "connect", task[t].step, task[t].build)
         \/ running' = running /\ Becomes(t, IdleTask)
BY GotoMoves, SlotBecomes, RecordTypes DEF TakeJob, PublishEdits, PC

(* A caller puts a new activation into a slot. *)
Starts(t, op, s, from, pc, b) ==
  /\ task' \in [Task -> TaskRecord]
  /\ Others(t)
  /\ task'[t].op = op /\ task'[t].site = s /\ task'[t].pc = pc
  /\ task'[t].from = from /\ task'[t].step = from /\ task'[t].build = b
  /\ ~task'[t].stalled

LEMMA FreshStarts ==
  ASSUME TypeOK, NEW t \in Task, NEW op \in Op, NEW s \in Site, NEW from \in Step,
         NEW pc \in PC, NEW b \in Build \cup {NoBuild},
         task' = [task EXCEPT ![t] = NewTask(op, s, from, pc, b)]
  PROVE  Starts(t, op, s, from, pc, b)
<1>1. NewTask(op, s, from, pc, b) \in TaskRecord
  BY RecordTypes
<1>2. Becomes(t, NewTask(op, s, from, pc, b))
  BY <1>1, SlotBecomes
<1>3. QED
  BY <1>2 DEF Becomes, NewTask, Starts

LEMMA CallersStart ==
  ASSUME TypeOK, NEW t \in Task, NEW s \in Site
  PROVE  /\ \A from \in ResumeFrom :
              /\ RequestInline(t, s, from) => Starts(t, "run", s, from, "mark", NoBuild)
              /\ RequestQueued(t, s, from) => Starts(t, "run", s, from, "waiting", NoBuild)
         /\ SaveEdits(t, s)    => Starts(t, "edit", s, Deploying, "saved", NoBuild)
         /\ SweepRebuild(t, s) => Starts(t, "sweep", s, Deploying, "connect", NoBuild)
         /\ \A b \in Build :
              Rollback(t, s, b) => Starts(t, "rollback", s, Deploying, "connect", b)
<1>1. /\ \A from \in ResumeFrom : from \in Step
      /\ Deploying \in Step /\ NoBuild \in Build \cup {NoBuild}
      /\ \A b \in Build : b \in Build \cup {NoBuild}
      /\ {"run", "edit", "sweep", "rollback"} \subseteq Op
      /\ {"mark", "waiting", "saved", "connect"} \subseteq PC
  BY ResumeAssumption, StepFacts DEF Op, PC
<1>2. ASSUME NEW from \in ResumeFrom, RequestInline(t, s, from)
      PROVE  Starts(t, "run", s, from, "mark", NoBuild)
  BY <1>1, <1>2, FreshStarts DEF RequestInline
<1>3. ASSUME NEW from \in ResumeFrom, RequestQueued(t, s, from)
      PROVE  Starts(t, "run", s, from, "waiting", NoBuild)
  BY <1>1, <1>3, FreshStarts DEF RequestQueued
<1>4. ASSUME SaveEdits(t, s) PROVE Starts(t, "edit", s, Deploying, "saved", NoBuild)
  BY <1>1, <1>4, FreshStarts DEF SaveEdits
<1>5. ASSUME SweepRebuild(t, s) PROVE Starts(t, "sweep", s, Deploying, "connect", NoBuild)
  BY <1>1, <1>5, FreshStarts DEF SweepRebuild
<1>6. ASSUME NEW b \in Build, Rollback(t, s, b)
      PROVE  Starts(t, "rollback", s, Deploying, "connect", b)
  BY <1>1, <1>6, FreshStarts DEF Rollback
<1>7. QED
  BY <1>2, <1>3, <1>4, <1>5, <1>6

-----------------------------------------------------------------------------
(* ShapeInv: each activation is where its operation can be *)

LEMMA InitShape == Init => ShapeInv
BY DEF Init, IdleTask, ShapeInv, ShapeOK

LEMMA IdleShape == ShapeOK(IdleTask)
BY DEF IdleTask, ShapeOK

(* One slot changes: the others are as they were. *)
LEMMA ShapeOfOthers ==
  ASSUME ShapeInv, NEW t \in Task, Others(t), ShapeOK(task'[t])
  PROVE  ShapeInv'
BY DEF ShapeInv, ShapeOK, Others

LEMMA TaskStepShape ==
  ASSUME TypeOK, ShapeInv, NEW t \in Task, TaskStep(t)
  PROVE  task' \in [Task -> TaskRecord] /\ ShapeInv'
<1>t. /\ ShapeOK(task[t]) /\ task[t].step \in 1..7 /\ task[t].from \in 1..7
      /\ task[t].op \in {"none", "run", "edit", "sweep", "rollback"}
  BY FieldTypes, StepFacts DEF ShapeInv, Op
<1> SUFFICES task' \in [Task -> TaskRecord] /\ Others(t) /\ ShapeOK(task'[t])
  BY ShapeOfOthers
<1> USE DEF Moves, Becomes
<1>1. CASE TakeJob(t) \/ PublishEdits(t)
  <2>1. CASE Becomes(t, IdleTask)
    BY <2>1, IdleShape
  <2>2. CASE TakeJob(t) /\ Moves(t, "mark", task[t].step, task[t].build)
    BY <2>2, <1>t, StepFacts DEF TakeJob, At, ShapeOK
  <2>3. CASE PublishEdits(t) /\ Moves(t, "connect", task[t].step, task[t].build)
    BY <2>3, <1>t, StepFacts DEF PublishEdits, At, ShapeOK
  <2>4. QED
    BY <1>1, <2>1, <2>2, <2>3, TakeMoves
<1>2. ASSUME Throw(t), task[t].pc \in {"connect", "exec", "build", "swapOut", "swapIn"}
      PROVE  task' \in [Task -> TaskRecord] /\ Others(t) /\ ShapeOK(task'[t])
  BY <1>2, <1>t, ThrowMoves, StepFacts DEF Is, ShapeOK
<1>3. ASSUME NextStep(t), task[t].op = "run", task[t].pc \in {"exec", "swapIn"}
      PROVE  task' \in [Task -> TaskRecord] /\ Others(t) /\ ShapeOK(task'[t])
  BY <1>3, <1>t, NextStepMoves, StepFacts DEF ShapeOK
<1>4. CASE MarkQueued(t)
  BY <1>4, <1>t, GotoMoves, StepFacts DEF MarkQueued, At, ShapeOK, PC
<1>5. CASE Connect(t)
  BY <1>5, <1>2, <1>t, ConnectMoves, StepFacts DEF Connect, At, Is, ShapeOK
<1>6. CASE RestoreLastBuild(t)
  BY <1>6, <1>t, RestoreMoves, StepFacts DEF RestoreLastBuild, At, ShapeOK
<1>7. CASE EnterStep(t)
  BY <1>7, <1>t, GotoMoves, StepFacts DEF EnterStep, At, ShapeOK, PC
<1>8. CASE RunStep(t)
  BY <1>8, <1>2, <1>3, <1>t DEF RunStep, At, ShapeOK
<1>9. CASE CreateBuild(t)
  BY <1>9, <1>t, CreateMoves, StepFacts DEF CreateBuild, At, ShapeOK
<1>10. CASE BuildSite(t)
  BY <1>10, <1>2, <1>t, GotoMoves, StepFacts DEF BuildSite, At, ShapeOK, PC
<1>11. CASE SwapOut(t)
  BY <1>11, <1>2, <1>t, GotoMoves, StepFacts DEF SwapOut, At, ShapeOK, PC
<1>12. CASE SwapIn(t)
  <2>1. CASE Is(t, "run") /\ NextStep(t)
    BY <1>12, <2>1, <1>3 DEF SwapIn, At, Is
  <2>2. CASE ~Is(t, "run") /\ Goto(t, "record")
    BY <1>12, <2>2, <1>t, GotoMoves, StepFacts DEF SwapIn, At, Is, ShapeOK, PC
  <2>3. CASE Throw(t)
    BY <1>12, <2>3, <1>2 DEF SwapIn, At
  <2>4. QED
    BY <1>12, <2>1, <2>2, <2>3 DEF SwapIn
<1>13. CASE RecordBuild(t)
  BY <1>13, <1>t, GotoMoves, StepFacts DEF RecordBuild, At, ShapeOK, PC
<1>14. CASE GoLive(t)
  BY <1>14, <1>t, GotoMoves, StepFacts DEF GoLive, At, ShapeOK, PC
<1>15. CASE Fail(t)
  BY <1>15, <1>t, GotoMoves, StepFacts DEF Fail, At, ShapeOK, PC
<1>16. CASE Release(t)
  BY <1>16, SlotBecomes, RecordTypes, IdleShape DEF Release
<1>17. QED
  BY <1>1, <1>4, <1>5, <1>6, <1>7, <1>8, <1>9, <1>10, <1>11, <1>12, <1>13, <1>14,
     <1>15, <1>16 DEF TaskStep

-----------------------------------------------------------------------------
(* A crash: every activation of the process is gone or waits once more *)

LEMMA CrashTasks ==
  ASSUME TypeOK, ShapeInv, NEW p \in Proc, Crash(p), NEW t \in Task
  PROVE  /\ task'[t] \in TaskRecord /\ ShapeOK(task'[t])
         /\ \/ task'[t] = task[t]
            \/ task'[t] = IdleTask
            \/ task'[t].pc = "waiting" /\ task'[t].op = "run"
         /\ Holds(t)' <=> Holds(t) /\ ProcOf(task[t].op) # p
         /\ Holds(t)' => task'[t] = task[t]
<1> DEFINE again == NewTask("run", task[t].site, task[t].from, "waiting", NoBuild)
           rerun == [again EXCEPT !.stalled = TRUE]
<1>1. task[t] \in TaskRecord /\ ShapeOK(task[t])
  BY FieldTypes DEF ShapeInv
<1>2. again \in TaskRecord
  BY <1>1, FieldTypes, RecordTypes DEF Op, PC
<1>3. /\ again.op = "run" /\ again.pc = "waiting" /\ again.step = again.from
  BY DEF NewTask
<1>4. /\ rerun \in TaskRecord /\ rerun.op = "run" /\ rerun.pc = "waiting"
      /\ rerun.step = rerun.from
  <2> HIDE DEF again
  <2> QED
    BY <1>2, <1>3 DEF TaskRecord
<1>5. ShapeOK(rerun)
  <2> HIDE DEF rerun
  <2> QED
    BY <1>4 DEF ShapeOK
<1>6. task'[t] = IF ProcOf(task[t].op) # p \/ task[t].pc \in {"idle", "waiting"} THEN task[t]
                 ELSE IF ~Inline /\ Is(t, "run") /\ ~task[t].stalled THEN rerun
                 ELSE IdleTask
  BY DEF Crash, AfterCrash
<1>7. IdleTask \in TaskRecord /\ ShapeOK(IdleTask) /\ IdleTask.pc = "idle"
  BY RecordTypes, IdleShape DEF IdleTask
<1> HIDE DEF rerun
<1>8. QED
  BY <1>1, <1>4, <1>5, <1>6, <1>7 DEF Holds

LEMMA NextShape ==
  ASSUME TypeOK, ShapeInv, [Next]_vars
  PROVE  task' \in [Task -> TaskRecord] /\ ShapeInv'
<1>1. ASSUME NEW t \in Task, TaskStep(t) PROVE task' \in [Task -> TaskRecord] /\ ShapeInv'
  BY <1>1, TaskStepShape
<1>2. ASSUME NEW t \in Task, NEW s, NEW from \in Step, NEW op, NEW pc, NEW b,
             Starts(t, op, s, from, pc, b),
             \/ op = "run" /\ pc \in {"mark", "waiting"}
             \/ op = "edit" /\ pc = "saved" /\ from = Deploying
             \/ op \in {"sweep", "rollback"} /\ pc = "connect" /\ from = Deploying
      PROVE  task' \in [Task -> TaskRecord] /\ ShapeInv'
  <2>1. ShapeOK(task'[t])
    BY <1>2, StepFacts DEF ShapeOK, Starts
  <2>2. QED
    BY <1>2, <2>1, ShapeOfOthers DEF Starts
<1>3. ASSUME NEW t \in Task, NEW s \in Site, NEW from \in ResumeFrom,
             RequestInline(t, s, from) \/ RequestQueued(t, s, from)
      PROVE  task' \in [Task -> TaskRecord] /\ ShapeInv'
  <2>1. from \in Step
    BY ResumeAssumption
  <2>2. CASE Starts(t, "run", s, from, "mark", NoBuild)
    BY <1>2, <2>1, <2>2
  <2>3. CASE Starts(t, "run", s, from, "waiting", NoBuild)
    BY <1>2, <2>1, <2>3
  <2>4. QED
    BY <1>3, <2>2, <2>3, CallersStart
<1>4. ASSUME NEW t \in Task, NEW s \in Site, SaveEdits(t, s) \/ SweepRebuild(t, s)
      PROVE  task' \in [Task -> TaskRecord] /\ ShapeInv'
  <2>1. CASE Starts(t, "edit", s, Deploying, "saved", NoBuild)
    BY <1>2, <2>1, StepFacts
  <2>2. CASE Starts(t, "sweep", s, Deploying, "connect", NoBuild)
    BY <1>2, <2>2, StepFacts
  <2>3. QED
    BY <1>4, <2>1, <2>2, CallersStart
<1>5. ASSUME NEW t \in Task, NEW s \in Site, NEW b \in Build, Rollback(t, s, b)
      PROVE  task' \in [Task -> TaskRecord] /\ ShapeInv'
  <2>1. Starts(t, "rollback", s, Deploying, "connect", b)
    BY <1>5, CallersStart
  <2>2. QED
    BY <1>2, <2>1, StepFacts
<1>6. ASSUME task' = task PROVE task' \in [Task -> TaskRecord] /\ ShapeInv'
  BY <1>6 DEF TypeOK, ShapeInv, ShapeOK
<1>7. ASSUME NEW p \in Proc, Crash(p) PROVE task' \in [Task -> TaskRecord] /\ ShapeInv'
  <2>1. task' = [t \in Task |-> task'[t]]
    BY <1>7 DEF Crash
  <2>2. QED
    BY <1>7, <2>1, CrashTasks DEF ShapeInv
<1>8. QED
  BY <1>1, <1>3, <1>4, <1>5, <1>6, <1>7 DEF Next, SweepStart, SweepSkip, Archive, vars

-----------------------------------------------------------------------------
(* LockInv: the `running` sets and the activations that hold a site *)

LEMMA InitLock == Init => LockInv
<1> SUFFICES ASSUME Init PROVE LockInv
  OBVIOUS
<1>1. \A t \in Task : ~Holds(t)
  BY DEF Init, IdleTask, Holds
<1>2. \A p \in Proc : running[p] = {}
  BY DEF Init
<1>3. QED
  BY <1>1, <1>2 DEF LockInv, LockIsExact, OneHolderPerProcess

(* A step that neither takes nor gives up a lock. *)
LEMMA LockKept ==
  ASSUME LockInv, running' = running,
         \A u \in Task : Holds(u)' <=> Holds(u),
         \A u \in Task : Holds(u) => task'[u].op = task[u].op /\ task'[u].site = task[u].site
  PROVE  LockInv'
<1>1. \A u \in Task : Holds(u) => ProcOf(task'[u].op) = ProcOf(task[u].op)
  BY DEF ProcOf
<1>2. LockIsExact'
  BY <1>1 DEF LockInv, LockIsExact
<1>3. OneHolderPerProcess'
  BY <1>1 DEF LockInv, OneHolderPerProcess
<1>4. QED
  BY <1>2, <1>3 DEF LockInv

LEMMA LockTaken ==
  ASSUME TypeOK, LockInv, NEW t \in Task, NEW p \in Proc, NEW s \in Site,
         Others(t), ~Holds(t), Holds(t)', task'[t].site = s, ProcOf(task'[t].op) = p,
         NotRunning(p, s), Acquire(p, s)
  PROVE  LockInv'
<1>1. \A u \in Task \ {t} : task'[u] = task[u] /\ (Holds(u)' <=> Holds(u))
  BY DEF Others, Holds
<1>2. \A q \in Proc : running'[q] = IF q = p THEN running[p] \cup {s} ELSE running[q]
  BY DEF Acquire, TypeOK
<1>3. \A u \in Task : ~(Holds(u) /\ task[u].site = s /\ ProcOf(task[u].op) = p)
  BY DEF NotRunning, LockInv, LockIsExact
<1>4. LockIsExact'
  BY <1>1, <1>2, <1>3 DEF LockInv, LockIsExact, Proc, ProcOf
<1>5. OneHolderPerProcess'
  BY <1>1, <1>3 DEF LockInv, OneHolderPerProcess, ProcOf
<1>6. QED
  BY <1>4, <1>5 DEF LockInv

LEMMA LockGivenUp ==
  ASSUME TypeOK, LockInv, NEW t \in Task, Others(t), Holds(t), ~Holds(t)', Unlock(t)
  PROVE  LockInv'
<1> DEFINE p == ProcOf(task[t].op)
           s == task[t].site
<1>1. \A u \in Task \ {t} : task'[u] = task[u] /\ (Holds(u)' <=> Holds(u))
  BY DEF Others, Holds
<1>2. p \in Proc /\ s \in Site
  BY ProcOfType, FieldTypes
<1>3. \A q \in Proc : running'[q] = IF q = p THEN running[p] \ {s} ELSE running[q]
  BY <1>2 DEF Unlock, TypeOK, Holds, Is
<1>4. \A u \in Task \ {t} : ~(Holds(u) /\ task[u].site = s /\ ProcOf(task[u].op) = p)
  BY DEF LockInv, OneHolderPerProcess
<1>5. LockIsExact'
  BY <1>1, <1>2, <1>3, <1>4 DEF LockInv, LockIsExact, Proc, ProcOf
<1>6. OneHolderPerProcess'
  BY <1>1 DEF LockInv, OneHolderPerProcess, ProcOf
<1>7. QED
  BY <1>5, <1>6 DEF LockInv

(* An activation that moves between two points where it holds its site, or  *)
(* where it does not.                                                      *)
LEMMA LockMoves ==
  ASSUME LockInv, running' = running, NEW t \in Task, NEW pc, NEW step, NEW b,
         Moves(t, pc, step, b),
         task[t].pc \notin {"idle", "waiting", "saved"},
         pc \notin {"idle", "waiting", "saved"}
  PROVE  LockInv'
BY LockKept DEF Moves, Others, Holds

LEMMA TaskStepLock ==
  ASSUME TypeOK, ShapeInv, LockInv, NEW t \in Task, TaskStep(t)
  PROVE  LockInv'
<1>t. /\ ShapeOK(task[t]) /\ task[t].site \in Site
      /\ task[t].op \in {"none", "run", "edit", "sweep", "rollback"}
  BY FieldTypes DEF ShapeInv, Op
<1>1. ASSUME Becomes(t, IdleTask), ~Holds(t), running' = running PROVE LockInv'
  <2>1. ~Holds(t)'
    BY <1>1 DEF Becomes, IdleTask, Holds
  <2>2. QED
    BY <1>1, <2>1, LockKept DEF Becomes, Others, Holds
<1>2. CASE TakeJob(t) \/ PublishEdits(t)
  <2>1. ~Holds(t)
    BY <1>2 DEF TakeJob, PublishEdits, At, Holds
  <2>2. CASE /\ TakeJob(t) /\ NotRunning(Installs, task[t].site)
             /\ Moves(t, "mark", task[t].step, task[t].build)
    <3>1. /\ Holds(t)' /\ Others(t) /\ task'[t].site = task[t].site
          /\ ProcOf(task'[t].op) = Installs
      BY <1>t, <2>2 DEF TakeJob, Moves, At, ShapeOK, Holds, ProcOf
    <3>2. Acquire(Installs, task[t].site)
      BY <2>2 DEF TakeJob
    <3>3. QED
      BY <1>t, <2>1, <2>2, <3>1, <3>2, LockTaken DEF Proc
  <2>3. CASE /\ PublishEdits(t) /\ NotRunning(Api, task[t].site)
             /\ Moves(t, "connect", task[t].step, task[t].build)
    <3>1. /\ Holds(t)' /\ Others(t) /\ task'[t].site = task[t].site
          /\ ProcOf(task'[t].op) = Api
      BY <1>t, <2>3 DEF PublishEdits, Moves, At, ShapeOK, Holds, ProcOf
    <3>2. Acquire(Api, task[t].site)
      BY <2>3 DEF PublishEdits
    <3>3. QED
      BY <1>t, <2>1, <2>3, <3>1, <3>2, LockTaken DEF Proc
  <2>4. QED
    BY <1>1, <1>2, <2>1, <2>2, <2>3, TakeMoves
<1>3. ASSUME Throw(t), running' = running,
             task[t].pc \in {"connect", "exec", "build", "swapOut", "swapIn"}
      PROVE  LockInv'
  BY <1>3, ThrowMoves, LockMoves
<1>4. ASSUME NextStep(t), running' = running, task[t].pc \in {"exec", "swapIn"}
      PROVE  LockInv'
  BY <1>4, NextStepMoves, LockMoves
<1>5. CASE MarkQueued(t)
  BY <1>5, GotoMoves, LockMoves DEF MarkQueued, At, PC
<1>6. CASE Connect(t)
  BY <1>6, <1>3, ConnectMoves, LockMoves DEF Connect, At
<1>7. CASE RestoreLastBuild(t)
  BY <1>7, RestoreMoves, LockMoves DEF RestoreLastBuild, At
<1>8. CASE EnterStep(t)
  BY <1>8, GotoMoves, LockMoves DEF EnterStep, At, PC
<1>9. CASE RunStep(t)
  BY <1>9, <1>3, <1>4 DEF RunStep, At
<1>10. CASE CreateBuild(t)
  BY <1>10, CreateMoves, LockMoves DEF CreateBuild, At
<1>11. CASE BuildSite(t)
  BY <1>11, <1>3, GotoMoves, LockMoves DEF BuildSite, At, PC
<1>12. CASE SwapOut(t)
  BY <1>12, <1>3, GotoMoves, LockMoves DEF SwapOut, At, PC
<1>13. CASE SwapIn(t)
  BY <1>13, <1>3, <1>4, GotoMoves, LockMoves DEF SwapIn, At, PC
<1>14. CASE RecordBuild(t)
  BY <1>14, GotoMoves, LockMoves DEF RecordBuild, At, PC
<1>15. CASE GoLive(t)
  BY <1>15, GotoMoves, LockMoves DEF GoLive, At, PC
<1>16. CASE Fail(t)
  BY <1>16, GotoMoves, LockMoves DEF Fail, At, PC
<1>17. CASE Release(t)
  <2>1. Becomes(t, IdleTask)
    BY <1>17, SlotBecomes, RecordTypes DEF Release
  <2>2. CASE Is(t, "rollback")
    BY <1>1, <1>17, <2>1, <2>2 DEF Release, Unlock, Holds, Is
  <2>3. CASE ~Is(t, "rollback")
    <3>1. Holds(t)
      BY <1>t, <1>17, <2>3 DEF Release, At, Is, ShapeOK, Holds
    <3>2. ~Holds(t)' /\ Others(t)
      BY <2>1 DEF Becomes, IdleTask, Holds
    <3>3. QED
      BY <1>17, <3>1, <3>2, LockGivenUp DEF Release
  <2>4. QED
    BY <2>2, <2>3
<1>18. QED
  BY <1>2, <1>5, <1>6, <1>7, <1>8, <1>9, <1>10, <1>11, <1>12, <1>13, <1>14, <1>15,
     <1>16, <1>17 DEF TaskStep

LEMMA NextLock ==
  ASSUME TypeOK, ShapeInv, LockInv, [Next]_vars
  PROVE  LockInv'
<1>1. ASSUME NEW t \in Task, TaskStep(t) PROVE LockInv'
  BY <1>1, TaskStepLock
<1>2. ASSUME NEW t \in Task, NEW op, NEW s, NEW from, NEW pc, NEW b,
             Starts(t, op, s, from, pc, b), ~Holds(t), running' = running,
             op = "rollback" \/ pc \in {"waiting", "saved"}
      PROVE  LockInv'
  <2>1. ~Holds(t)'
    BY <1>2 DEF Starts, Holds
  <2>2. QED
    BY <1>2, <2>1, LockKept DEF Starts, Others, Holds
<1>3. ASSUME NEW t \in Task, NEW s \in Site, NEW from \in ResumeFrom, RequestInline(t, s, from)
      PROVE  LockInv'
  <2>1. /\ Others(t) /\ ~Holds(t) /\ Holds(t)' /\ task'[t].site = s
        /\ ProcOf(task'[t].op) = Installs
    BY <1>3, CallersStart DEF RequestInline, Starts, Free, Holds, ProcOf
  <2>2. QED
    BY <1>3, <2>1, LockTaken DEF RequestInline, Proc
<1>4. ASSUME NEW t \in Task, NEW s \in Site, NEW from \in ResumeFrom, RequestQueued(t, s, from)
      PROVE  LockInv'
  <2>1. Starts(t, "run", s, from, "waiting", NoBuild)
    BY <1>4, CallersStart
  <2>2. QED
    BY <1>2, <1>4, <2>1 DEF RequestQueued, Free, Holds
<1>5. ASSUME NEW t \in Task, NEW s \in Site, SaveEdits(t, s) PROVE LockInv'
  <2>1. Starts(t, "edit", s, Deploying, "saved", NoBuild)
    BY <1>5, CallersStart
  <2>2. QED
    BY <1>2, <1>5, <2>1 DEF SaveEdits, Free, Holds
<1>6. ASSUME NEW t \in Task, NEW s \in Site, SweepRebuild(t, s) PROVE LockInv'
  <2>1. Starts(t, "sweep", s, Deploying, "connect", NoBuild)
    BY <1>6, CallersStart
  <2>2. /\ Others(t) /\ ~Holds(t) /\ Holds(t)' /\ task'[t].site = s
        /\ ProcOf(task'[t].op) = Api
    BY <1>6, <2>1 DEF SweepRebuild, Starts, Free, Holds, ProcOf
  <2>3. QED
    BY <1>6, <2>2, LockTaken DEF SweepRebuild, Proc
<1>7. ASSUME NEW t \in Task, NEW s \in Site, NEW b \in Build, Rollback(t, s, b) PROVE LockInv'
  <2>1. Starts(t, "rollback", s, Deploying, "connect", b)
    BY <1>7, CallersStart
  <2>2. QED
    BY <1>2, <1>7, <2>1 DEF Rollback, Free, Holds
<1>8. ASSUME task' = task, running' = running PROVE LockInv'
  BY <1>8, LockKept DEF Holds
<1>9. ASSUME NEW p \in Proc, Crash(p) PROVE LockInv'
  <2>1. \A q \in Proc : running'[q] = IF q = p THEN {} ELSE running[q]
    BY <1>9 DEF Crash, TypeOK
  <2>2. \A t \in Task : /\ Holds(t)' <=> Holds(t) /\ ProcOf(task[t].op) # p
                        /\ Holds(t)' => task'[t] = task[t]
    BY <1>9, CrashTasks
  <2>3. LockIsExact'
    BY <2>1, <2>2 DEF LockInv, LockIsExact
  <2>4. OneHolderPerProcess'
    BY <2>2 DEF LockInv, OneHolderPerProcess
  <2>5. QED
    BY <2>3, <2>4 DEF LockInv
<1>10. QED
  BY <1>1, <1>3, <1>4, <1>5, <1>6, <1>7, <1>8, <1>9
     DEF Next, SweepStart, SweepSkip, Archive, vars

-----------------------------------------------------------------------------
(* StatusInv: what a run knows of its site's column *)

LEMMA InitStatus == Init => StatusInv
BY DEF Init, IdleTask, StatusInv, StatusOK

(* A step that leaves the column alone. *)
LEMMA StatusKept ==
  ASSUME StatusInv, installStatus' = installStatus, NEW t \in Task, Others(t),
         StatusOK(task'[t], installStatus[task'[t].site])
  PROVE  StatusInv'
BY DEF StatusInv, StatusOK, Others

(* A run writes the column of its site: by the lock it is the only run of   *)
(* that site that knows anything of it.                                    *)
LEMMA StatusWritten ==
  ASSUME TypeOK, ShapeInv, LockInv, StatusInv, NEW t \in Task, Holds(t), Is(t, "run"), Others(t),
         \A s \in Site : s # task[t].site => installStatus'[s] = installStatus[s],
         StatusOK(task'[t], installStatus'[task'[t].site])
  PROVE  StatusInv'
<1> SUFFICES ASSUME NEW u \in Task \ {t}
             PROVE  StatusOK(task'[u], installStatus'[task'[u].site])
  BY DEF StatusInv, StatusOK
<1>1. task'[u] = task[u] /\ StatusOK(task[u], installStatus[task[u].site]) /\ task[u].site \in Site
  BY FieldTypes DEF Others, StatusInv
<1>2. CASE task[u].site # task[t].site
  BY <1>1, <1>2
<1>3. CASE task[u].site = task[t].site
  <2>1. ~(Holds(u) /\ Is(u, "run"))
    BY <1>3 DEF LockInv, OneHolderPerProcess, Is
  <2>2. QED
    BY <1>1, <2>1 DEF Holds, Is, StatusOK
<1>4. QED
  BY <1>2, <1>3

LEMMA SetStatusColumn ==
  ASSUME TypeOK, NEW s \in Site, NEW st, SetInstallStatus(s, st)
  PROVE  installStatus'[s] = st /\ \A r \in Site : r # s => installStatus'[r] = installStatus[r]
BY DEF TypeOK, SetInstallStatus

LEMMA TaskStepStatus ==
  ASSUME TypeOK, ShapeInv, LockInv, StatusInv, NEW t \in Task, TaskStep(t)
  PROVE  StatusInv'
<1> DEFINE st == installStatus[task[t].site]
<1>t. /\ ShapeOK(task[t]) /\ StatusOK(task[t], st)
      /\ task[t].site \in Site /\ task[t].step \in 1..7
  BY FieldTypes, StepFacts DEF ShapeInv, StatusInv
<1> USE DEF Moves
<1>1. ASSUME Becomes(t, IdleTask), installStatus' = installStatus PROVE StatusInv'
  BY <1>1, StatusKept DEF Becomes, IdleTask, StatusOK
<1>2. ASSUME Throw(t), installStatus' = installStatus,
             task[t].pc \in {"connect", "exec", "build", "swapOut", "swapIn"}
      PROVE  StatusInv'
  BY <1>2, <1>t, ThrowMoves, StatusKept, StepFacts DEF Is, StatusOK
<1>3. ASSUME NextStep(t), installStatus' = installStatus,
             task[t].op = "run", task[t].pc \in {"exec", "swapIn"}
      PROVE  StatusInv'
  BY <1>3, <1>t, NextStepMoves, StatusKept, StepFacts DEF ShapeOK, StatusOK
<1>4. CASE TakeJob(t) \/ PublishEdits(t)
  <2>1. CASE Moves(t, "mark", task[t].step, task[t].build)
    BY <1>4, <2>1, StatusKept DEF TakeJob, PublishEdits, siteVars, StatusOK
  <2>2. CASE PublishEdits(t) /\ Moves(t, "connect", task[t].step, task[t].build)
    BY <1>t, <2>2, StatusKept DEF PublishEdits, siteVars, At, ShapeOK, StatusOK
  <2>3. QED
    BY <1>1, <1>4, <2>1, <2>2, TakeMoves DEF TakeJob, PublishEdits, siteVars
<1>5. ASSUME task[t].pc \in {"mark", "enter", "golive", "failing"}
      PROVE  Holds(t) /\ Is(t, "run")
  BY <1>5, <1>t DEF ShapeOK, Holds, Is
<1>6. CASE MarkQueued(t)
  <2>1. \E pc \in {"connect", "failing"} : Moves(t, pc, task[t].step, task[t].build)
    BY <1>6, GotoMoves DEF MarkQueued, PC
  <2>2. Holds(t) /\ Is(t, "run")
    BY <1>5, <1>6 DEF MarkQueued, At
  <2>3. StatusOK(task'[t], "queued")
    BY <2>1 DEF StatusOK
  <2>4. QED
    BY <1>6, <1>t, <2>1, <2>2, <2>3, SetStatusColumn, StatusWritten DEF MarkQueued
<1>7. CASE Connect(t)
  <2>1. CASE Throw(t)
    BY <1>2, <1>7, <2>1 DEF Connect, siteVars, At
  <2>2. CASE Is(t, "rollback") /\ Moves(t, "swapOut", task[t].step, task[t].build)
    BY <1>7, <2>2, StatusKept DEF Connect, siteVars, Is, StatusOK
  <2>3. CASE task[t].op \in {"edit", "sweep"} /\ Moves(t, "create", task[t].step, task[t].build)
    BY <1>7, <2>3, StatusKept DEF Connect, siteVars, Is, StatusOK
  <2>4. CASE Moves(t, "restore", task[t].step, task[t].build)
    BY <1>7, <1>t, <2>4, StatusKept DEF Connect, siteVars, At, StatusOK
  <2>5. ASSUME NEW k \in Step, Moves(t, "enter", k, task[t].build) PROVE StatusInv'
    BY <1>7, <1>t, <2>5, StatusKept DEF Connect, siteVars, At, StatusOK
  <2>6. QED
    BY <1>7, <1>t, <2>1, <2>2, <2>3, <2>4, <2>5, ConnectMoves, StepFacts
<1>8. CASE RestoreLastBuild(t)
  <2>1. \E pc \in {"enter", "release"} : \E b : Moves(t, pc, task[t].step, b)
    BY <1>8, RestoreMoves
  <2>2. QED
    BY <1>8, <1>t, <2>1, StatusKept DEF RestoreLastBuild, siteVars, At, StatusOK
<1>9. CASE EnterStep(t)
  <2>1. \E pc \in {"create", "exec"} : Moves(t, pc, task[t].step, task[t].build)
    BY <1>9, GotoMoves DEF EnterStep, PC
  <2>2. Holds(t) /\ Is(t, "run")
    BY <1>5, <1>9 DEF EnterStep, At
  <2>3. StatusOK(task'[t], INSTALL_STEPS[task[t].step])
    BY <2>1 DEF StatusOK
  <2>4. QED
    BY <1>9, <1>t, <2>1, <2>2, <2>3, SetStatusColumn, StatusWritten DEF EnterStep
<1>10. CASE RunStep(t)
  BY <1>2, <1>3, <1>10, <1>t DEF RunStep, siteVars, At, ShapeOK
<1>11. CASE CreateBuild(t)
  <2>1. Moves(t, "build", task[t].step, nextBuild)
    BY <1>11, CreateMoves
  <2>2. task[t].pc = "create" /\ installStatus' = installStatus
    BY <1>11 DEF CreateBuild, siteVars, At
  <2>3. QED
    BY <1>t, <2>1, <2>2, StatusKept DEF StatusOK
<1>12. CASE BuildSite(t)
  <2>1. CASE Goto(t, "swapOut")
    BY <1>12, <1>t, <2>1, GotoMoves, StatusKept DEF BuildSite, siteVars, At, StatusOK, PC
  <2>2. QED
    BY <1>2, <1>12, <2>1 DEF BuildSite, siteVars, At
<1>13. CASE SwapOut(t)
  <2>1. CASE Goto(t, "swapIn")
    BY <1>13, <1>t, <2>1, GotoMoves, StatusKept DEF SwapOut, siteVars, At, StatusOK, PC
  <2>2. QED
    BY <1>2, <1>13, <2>1 DEF SwapOut, siteVars, At
<1>14. CASE SwapIn(t)
  <2>1. CASE Goto(t, "record")
    BY <1>14, <1>t, <2>1, GotoMoves, StatusKept DEF SwapIn, siteVars, At, StatusOK, PC
  <2>2. QED
    BY <1>2, <1>3, <1>14, <2>1 DEF SwapIn, siteVars, At, Is
<1>15. CASE RecordBuild(t)
  BY <1>15, GotoMoves, StatusKept DEF RecordBuild, StatusOK, PC
<1>16. CASE GoLive(t)
  <2>1. Moves(t, "release", task[t].step, task[t].build)
    BY <1>16, GotoMoves DEF GoLive, PC
  <2>2. \A s \in Site : s # task[t].site => installStatus'[s] = installStatus[s]
    BY <1>16 DEF GoLive, TypeOK
  <2>3. Holds(t) /\ Is(t, "run")
    BY <1>5, <1>16 DEF GoLive, At
  <2>4. StatusOK(task'[t], installStatus'[task'[t].site])
    BY <2>1 DEF StatusOK
  <2>5. QED
    BY <2>1, <2>2, <2>3, <2>4, StatusWritten
<1>17. CASE Fail(t)
  <2>1. Moves(t, "release", task[t].step, task[t].build)
    BY <1>17, GotoMoves DEF Fail, PC
  <2>2. Holds(t) /\ Is(t, "run")
    BY <1>5, <1>17 DEF Fail, At
  <2>3. StatusOK(task'[t], "failed")
    BY <2>1 DEF StatusOK
  <2>4. QED
    BY <1>17, <1>t, <2>1, <2>2, <2>3, SetStatusColumn, StatusWritten DEF Fail
<1>18. CASE Release(t)
  BY <1>1, <1>18, SlotBecomes, RecordTypes DEF Release, siteVars
<1>19. QED
  BY <1>4, <1>6, <1>7, <1>8, <1>9, <1>10, <1>11, <1>12, <1>13, <1>14, <1>15, <1>16,
     <1>17, <1>18 DEF TaskStep

LEMMA NextStatus ==
  ASSUME TypeOK, ShapeInv, LockInv, StatusInv, [Next]_vars
  PROVE  StatusInv'
<1>1. ASSUME NEW t \in Task, TaskStep(t) PROVE StatusInv'
  BY <1>1, TaskStepStatus
<1>2. ASSUME NEW t \in Task, NEW op, NEW s, NEW from, NEW pc, NEW b,
             Starts(t, op, s, from, pc, b), installStatus' = installStatus,
             op # "run" \/ pc \in {"waiting", "mark"}
      PROVE  StatusInv'
  BY <1>2, StatusKept DEF Starts, StatusOK
<1>3. ASSUME NEW t \in Task, NEW s \in Site, NEW from \in ResumeFrom,
             RequestInline(t, s, from) \/ RequestQueued(t, s, from)
      PROVE  StatusInv'
  <2>1. installStatus' = installStatus
    BY <1>3 DEF RequestInline, RequestQueued, siteVars
  <2>2. CASE Starts(t, "run", s, from, "mark", NoBuild)
    BY <1>2, <2>1, <2>2
  <2>3. CASE Starts(t, "run", s, from, "waiting", NoBuild)
    BY <1>2, <2>1, <2>3
  <2>4. QED
    BY <1>3, <2>2, <2>3, CallersStart
<1>4. ASSUME NEW t \in Task, NEW s \in Site, SaveEdits(t, s) \/ SweepRebuild(t, s)
      PROVE  StatusInv'
  <2>1. installStatus' = installStatus
    BY <1>4 DEF SaveEdits, SweepRebuild, siteVars
  <2>2. CASE Starts(t, "edit", s, Deploying, "saved", NoBuild)
    BY <1>2, <2>1, <2>2
  <2>3. CASE Starts(t, "sweep", s, Deploying, "connect", NoBuild)
    BY <1>2, <2>1, <2>3
  <2>4. QED
    BY <1>4, <2>2, <2>3, CallersStart
<1>5. ASSUME NEW t \in Task, NEW s \in Site, NEW b \in Build, Rollback(t, s, b)
      PROVE  StatusInv'
  <2>1. Starts(t, "rollback", s, Deploying, "connect", b)
    BY <1>5, CallersStart
  <2>2. QED
    BY <1>2, <1>5, <2>1 DEF Rollback, siteVars
<1>6. ASSUME task' = task, installStatus' = installStatus PROVE StatusInv'
  BY <1>6 DEF StatusInv, StatusOK
<1>7. ASSUME NEW p \in Proc, Crash(p) PROVE StatusInv'
  <2> SUFFICES ASSUME NEW t \in Task
               PROVE  StatusOK(task'[t], installStatus'[task'[t].site])
    BY DEF StatusInv
  <2>1. \/ task'[t] = task[t]
        \/ task'[t] = IdleTask
        \/ task'[t].pc = "waiting" /\ task'[t].op = "run"
    BY <1>7, CrashTasks
  <2>2. installStatus' = installStatus
    BY <1>7 DEF Crash, siteVars
  <2>3. QED
    BY <2>1, <2>2 DEF StatusInv, StatusOK, IdleTask
<1>8. QED
  BY <1>1, <1>3, <1>4, <1>5, <1>6, <1>7
     DEF Next, SweepStart, SweepSkip, Archive, vars, siteVars

-----------------------------------------------------------------------------
(* TypeOK *)

LEMMA InitType == Init => TypeOK
<1> SUFFICES ASSUME Init PROVE TypeOK
  OBVIOUS
<1>1. (CHOOSE s \in Site : TRUE) \in Site
  BY SiteAssumption
<1>2. task \in [Task -> TaskRecord]
  BY RecordTypes DEF Init
<1>3. QED
  BY <1>1, <1>2, StepFacts, BoundAssumption
     DEF Init, TypeOK, SiteStatus, NoBuild, NoDir, EmptyDir, Build

LEMMA SetStatusType ==
  ASSUME TypeOK, NEW s \in Site, NEW st \in InstallStatus, SetInstallStatus(s, st)
  PROVE  installStatus' \in [Site -> InstallStatus] /\ siteStatus' \in [Site -> SiteStatus]
BY DEF TypeOK, SetInstallStatus, SiteStatus

(* What every step does to the other variables. *)
LEMMA TaskStepType ==
  ASSUME TypeOK, ShapeInv, NEW t \in Task, TaskStep(t)
  PROVE  TypeOK'
<1> USE DEF siteVars, buildVars
<1>t. /\ task[t].site \in Site /\ task[t].build \in Build \cup {NoBuild}
      /\ ShapeOK(task[t]) /\ task[t].step \in 1..7 /\ task[t].op \in Op
  BY FieldTypes, StepFacts DEF ShapeInv
<1>n. task' \in [Task -> TaskRecord]
  BY TaskStepShape
<1>1. CASE TakeJob(t) \/ PublishEdits(t)
  BY <1>1, <1>t, <1>n DEF TakeJob, PublishEdits, TypeOK, Acquire
<1>2. CASE MarkQueued(t)
  BY <1>2, <1>t, <1>n, StepFacts, SetStatusType DEF MarkQueued, TypeOK
<1>3. CASE Connect(t) \/ RestoreLastBuild(t)
  BY <1>3, <1>n DEF Connect, RestoreLastBuild, TypeOK
<1>4. CASE EnterStep(t)
  <2>1. INSTALL_STEPS[task[t].step] \in InstallStatus
    BY <1>4, <1>t, StepFacts DEF EnterStep, At, ShapeOK
  <2>2. QED
    BY <1>4, <1>t, <1>n, <2>1, SetStatusType DEF EnterStep, TypeOK
<1>5. CASE RunStep(t)
  <2>1. docroot' \in [Site -> Build \cup {NoDir, EmptyDir}]
    BY <1>5, <1>t DEF RunStep, MakeDocroot, TypeOK
  <2>2. QED
    BY <1>5, <1>n, <2>1 DEF RunStep, TypeOK
<1>6. CASE CreateBuild(t)
  <2>1. nextBuild \in Build /\ nextBuild + 1 \in 1..(MaxBuilds + 1)
    BY <1>6, BoundAssumption DEF CreateBuild, Build
  <2>2. QED
    BY <1>6, <1>t, <1>n, <2>1 DEF CreateBuild, TypeOK
<1>7. CASE BuildSite(t)
  BY <1>7, <1>n DEF BuildSite, TypeOK
<1>8. CASE SwapOut(t)
  BY <1>8, <1>n DEF SwapOut, TypeOK
<1>9. CASE SwapIn(t)
  <2>1. docroot' \in [Site -> Build \cup {NoDir, EmptyDir}]
    BY <1>9, <1>t DEF SwapIn, MoveIn, TypeOK, NoBuild, NoDir
  <2>2. QED
    BY <1>9, <1>n, <2>1 DEF SwapIn, TypeOK
<1>10. CASE RecordBuild(t)
  BY <1>10, <1>t, <1>n DEF RecordBuild, TypeOK
<1>11. CASE GoLive(t)
  <2>1. CtxBuild(t) \in Build \cup {NoBuild}
    BY <1>t DEF CtxBuild, TypeOK
  <2>2. QED
    BY <1>11, <1>n, <2>1, StepFacts DEF GoLive, TypeOK, SiteStatus
<1>12. CASE Fail(t)
  BY <1>12, <1>t, <1>n, StepFacts, SetStatusType DEF Fail, TypeOK
<1>13. CASE Release(t)
  BY <1>13, <1>n DEF Release, Unlock, TypeOK
<1>14. QED
  BY <1>1, <1>2, <1>3, <1>4, <1>5, <1>6, <1>7, <1>8, <1>9, <1>10, <1>11, <1>12,
     <1>13 DEF TaskStep

LEMMA NextType ==
  ASSUME TypeOK, ShapeInv, [Next]_vars
  PROVE  TypeOK'
<1> USE DEF siteVars, buildVars
<1>n. task' \in [Task -> TaskRecord]
  BY NextShape
<1>1. ASSUME NEW t \in Task, TaskStep(t) PROVE TypeOK'
  BY <1>1, TaskStepType
<1>2. ASSUME NEW t \in Task, NEW s \in Site, NEW from \in ResumeFrom,
             RequestInline(t, s, from) \/ RequestQueued(t, s, from)
      PROVE  TypeOK'
  BY <1>2, <1>n DEF RequestInline, RequestQueued, TypeOK, Acquire, Proc
<1>3. ASSUME NEW t \in Task, NEW s \in Site, SaveEdits(t, s) \/ SweepRebuild(t, s)
      PROVE  TypeOK'
  BY <1>3, <1>n DEF SaveEdits, SweepRebuild, TypeOK, Acquire, Proc
<1>4. ASSUME NEW t \in Task, NEW s \in Site, NEW b \in Build, Rollback(t, s, b)
      PROVE  TypeOK'
  BY <1>4, <1>n DEF Rollback, TypeOK
<1>5. CASE SweepStart
  BY <1>5 DEF SweepStart, TypeOK
<1>6. ASSUME NEW s \in Site, SweepSkip(s) \/ Archive(s) PROVE TypeOK'
  BY <1>6 DEF SweepSkip, Archive, TypeOK, SiteStatus
<1>7. ASSUME NEW p \in Proc, Crash(p) PROVE TypeOK'
  <2>1. \A t \in Task : task[t].site \in Site /\ task[t].build \in Build \cup {NoBuild}
    BY FieldTypes
  <2>2. docroot' \in [Site -> Build \cup {NoDir, EmptyDir}]
    BY <1>7, <2>1 DEF Crash, MoveIn, TypeOK, NoBuild, NoDir
  <2>3. crashes' \in 0..MaxCrashes
    BY <1>7, BoundAssumption DEF Crash, TypeOK
  <2>4. QED
    BY <1>7, <1>n, <2>2, <2>3 DEF Crash, TypeOK
<1>8. CASE UNCHANGED vars
  BY <1>8 DEF vars, TypeOK
<1>9. QED
  BY <1>1, <1>2, <1>3, <1>4, <1>5, <1>6, <1>7, <1>8 DEF Next

-----------------------------------------------------------------------------
(* LiveIsPublished *)

LEMMA NextPublished ==
  ASSUME TypeOK, ShapeInv, LiveIsPublished, [Next]_vars
  PROVE  LiveIsPublished'
<1> USE DEF siteVars, LiveIsPublished
<1>1. ASSUME NEW s \in Site, NEW st, SetInstallStatus(s, st), st # "live" PROVE LiveIsPublished'
  BY <1>1 DEF SetInstallStatus, TypeOK
<1>2. ASSUME NEW t \in Task, TaskStep(t) PROVE LiveIsPublished'
  <2>1. /\ ShapeOK(task[t]) /\ task[t].site \in Site
        /\ INSTALL_STEPS[task[t].step] # "live"
    BY FieldTypes, StepFacts DEF ShapeInv
  <2>2. CASE MarkQueued(t)
    BY <1>1, <2>1, <2>2 DEF MarkQueued
  <2>3. CASE EnterStep(t)
    BY <1>1, <2>1, <2>3 DEF EnterStep
  <2>4. CASE Fail(t)
    BY <1>1, <2>1, <2>4 DEF Fail
  <2>5. CASE GoLive(t)
    BY <2>1, <2>5 DEF GoLive, TypeOK
  <2>6. CASE UNCHANGED <<installStatus, siteStatus>>
    BY <2>6
  <2>7. QED
    BY <1>2, <2>2, <2>3, <2>4, <2>5, <2>6
       DEF TaskStep, TakeJob, PublishEdits, Connect, RestoreLastBuild, RunStep,
           CreateBuild, BuildSite, SwapOut, SwapIn, RecordBuild, Release
<1>3. ASSUME NEW s \in Site, Archive(s) PROVE LiveIsPublished'
  BY <1>3 DEF Archive, TypeOK
<1>4. CASE UNCHANGED <<installStatus, siteStatus>>
  BY <1>4
<1>5. QED
  BY <1>2, <1>3, <1>4
     DEF Next, RequestInline, RequestQueued, SaveEdits, SweepRebuild, Rollback,
         SweepStart, SweepSkip, Crash, vars

-----------------------------------------------------------------------------
(* BuildInv: activations, records and document roots name successful builds *)

LEMMA InitBuilds == Init => BuildInv
BY DEF Init, IdleTask, BuildInv, TaskBuildsInv, SiteBuildsInv, PastBuild, At, NoDir, Build,
       RecordedBuildSucceeded, ServedBuildSucceeded, LiveHasBuild

RowsKept == buildSite' = buildSite /\ buildStatus' = buildStatus

(* No successful build is forgotten. *)
SuccessKept == \A s \in Site, b \in Build : Deployable(s, b) => Deployable(s, b)'

LEMMA RowsKeepSuccess == RowsKept => SuccessKept
BY DEF RowsKept, SuccessKept, Deployable, IsSuccess

LEMMA TaskBuildsStep ==
  ASSUME TypeOK, TaskBuildsInv, NEW t \in Task, Others(t), SuccessKept,
         \A u \in Task \ {t} : At(u, "build") => UnderConstruction(task[u])',
         PastBuild(task'[t]) => Deployable(task[t].site, task[t].build)',
         task'[t].pc = "build" => UnderConstruction(task[t])',
         task'[t].pc = "build" =>
           \A u \in Task \ {t} : At(u, "build") => task[u].build # task'[t].build
  PROVE  TaskBuildsInv'
<1>1. \A u \in Task : PastBuild(task'[u]) => Deployable(task[u].site, task[u].build)'
  <2> SUFFICES ASSUME NEW u \in Task \ {t}, PastBuild(task'[u])
               PROVE  Deployable(task[u].site, task[u].build)'
    OBVIOUS
  <2>1. task'[u] = task[u] /\ task[u].site \in Site
    BY FieldTypes DEF Others
  <2>2. Deployable(task[u].site, task[u].build)
    BY <2>1 DEF TaskBuildsInv, PastBuild
  <2>3. task[u].build \in Build
    BY <2>2 DEF Deployable
  <2>4. \A s \in Site, b \in Build :
          s = task[u].site /\ b = task[u].build => Deployable(s, b)'
    BY <2>2 DEF SuccessKept
  <2>5. QED
    BY <2>1, <2>3, <2>4 DEF Deployable, IsSuccess
<1>2. \A u \in Task : At(u, "build")' => UnderConstruction(task[u])'
  BY DEF At, Others
<1>3. \A u, v \in Task :
        At(u, "build")' /\ At(v, "build")' /\ task'[u].build = task'[v].build => u = v
  BY DEF At, Others, TaskBuildsInv
<1>4. QED
  BY <1>1, <1>2, <1>3 DEF TaskBuildsInv

(* A step that leaves the builds table alone and starts no build. *)
LEMMA TaskBuildsQuiet ==
  ASSUME TypeOK, TaskBuildsInv, NEW t \in Task, Others(t), RowsKept, task'[t].pc # "build",
         PastBuild(task'[t]) => Deployable(task'[t].site, task'[t].build)
  PROVE  TaskBuildsInv'
<1>1. PastBuild(task'[t]) => Deployable(task[t].site, task[t].build)'
  BY DEF RowsKept, Deployable, IsSuccess
<1>2. \A u \in Task \ {t} : At(u, "build") => UnderConstruction(task[u])'
  BY DEF Others, RowsKept, UnderConstruction, TaskBuildsInv
<1>3. QED
  BY <1>1, <1>2, RowsKeepSuccess, TaskBuildsStep

LEMMA SiteBuildsStep ==
  ASSUME TypeOK, TypeOK', SiteBuildsInv, SuccessKept,
         \A b \in Build : b >= nextBuild' => buildStatus'[b] = "absent",
         \A s \in Site : \/ lastBuild'[s] = lastBuild[s]
                         \/ Deployable(s, lastBuild'[s]),
         \A s \in Site : \/ docroot'[s] = docroot[s]
                         \/ docroot'[s] \notin Build
                         \/ Deployable(s, docroot'[s]),
         \A s \in Site : installStatus'[s] = "live" =>
                           installStatus[s] = "live" \/ Deployable(s, lastBuild'[s])
  PROVE  SiteBuildsInv'
<1>1. \A s \in Site, b \in Build : Deployable(s, b) => IsSuccess(s, b)'
  BY DEF SuccessKept, Deployable
<1>2. \A s \in Site : lastBuild[s] # NoBuild => Deployable(s, lastBuild[s])
  BY DEF TypeOK, SiteBuildsInv, RecordedBuildSucceeded, Deployable
<1>3. RecordedBuildSucceeded'
  <2> SUFFICES ASSUME NEW s \in Site, lastBuild'[s] # NoBuild PROVE IsSuccess(s, lastBuild[s])'
    BY DEF RecordedBuildSucceeded
  <2>1. Deployable(s, lastBuild'[s])
    BY <1>2
  <2>2. QED
    BY <1>1, <2>1 DEF Deployable, IsSuccess
<1>4. ServedBuildSucceeded'
  <2> SUFFICES ASSUME NEW s \in Site, docroot'[s] \in Build PROVE IsSuccess(s, docroot[s])'
    BY DEF ServedBuildSucceeded
  <2>1. Deployable(s, docroot'[s])
    BY DEF SiteBuildsInv, ServedBuildSucceeded, Deployable
  <2>2. QED
    BY <1>1, <2>1 DEF Deployable, IsSuccess
<1>5. LiveHasBuild'
  BY BoundAssumption DEF SiteBuildsInv, LiveHasBuild, Deployable, Build, NoBuild
<1>6. QED
  BY <1>3, <1>4, <1>5 DEF SiteBuildsInv

-----------------------------------------------------------------------------
LEMMA TaskStepTaskBuilds ==
  ASSUME TypeOK, ShapeInv, BuildInv, NEW t \in Task, TaskStep(t)
  PROVE  TaskBuildsInv'
<1>t. /\ ShapeOK(task[t]) /\ task[t].site \in Site
      /\ task[t].step \in 1..7 /\ task[t].from \in 1..7
      /\ task[t].build \in Build \cup {NoBuild}
      /\ PastBuild(task[t]) => Deployable(task[t].site, task[t].build)
  BY FieldTypes, StepFacts DEF ShapeInv, BuildInv, TaskBuildsInv
<1>i. TaskBuildsInv /\ SiteBuildsInv
  BY DEF BuildInv
<1> USE DEF Moves
<1>1. ASSUME Becomes(t, IdleTask), RowsKept PROVE TaskBuildsInv'
  BY <1>1, <1>i, TaskBuildsQuiet DEF Becomes, IdleTask, PastBuild
<1>2. ASSUME Throw(t), RowsKept PROVE TaskBuildsInv'
  BY <1>2, <1>i, ThrowMoves, TaskBuildsQuiet DEF PastBuild
<1>3. ASSUME NextStep(t), RowsKept,
             \/ task[t].pc = "exec" /\ task[t].step # Deploying
             \/ task[t].pc = "swapIn"
      PROVE  TaskBuildsInv'
  BY <1>3, <1>i, <1>t, NextStepMoves, TaskBuildsQuiet, StepFacts DEF PastBuild
<1>4. ASSUME NEW pc \in {"mark", "failing", "restore", "create", "release", "connect"},
             Moves(t, pc, task[t].step, task[t].build), RowsKept,
             pc = "connect" => task[t].op # "rollback"
      PROVE  TaskBuildsInv'
  BY <1>4, <1>i, TaskBuildsQuiet DEF PastBuild
<1>5. CASE TakeJob(t) \/ PublishEdits(t)
  <2>1. RowsKept
    BY <1>5 DEF TakeJob, PublishEdits, buildVars, RowsKept
  <2>2. task[t].op # "rollback"
    BY <1>5, <1>t DEF TakeJob, PublishEdits, At, ShapeOK
  <2>3. QED
    BY <1>1, <1>4, <1>5, <2>1, <2>2, TakeMoves
<1>6. CASE MarkQueued(t)
  <2>1. RowsKept /\ task[t].op # "rollback"
    BY <1>6, <1>t DEF MarkQueued, buildVars, RowsKept, At, ShapeOK
  <2>2. QED
    BY <1>4, <1>6, <2>1, GotoMoves DEF MarkQueued, PC
<1>7. CASE Connect(t)
  <2>1. RowsKept /\ task[t].pc = "connect" /\ task[t].step = task[t].from
    BY <1>7, <1>t DEF Connect, buildVars, RowsKept, At, ShapeOK
  <2>2. CASE Is(t, "rollback") /\ Moves(t, "swapOut", task[t].step, task[t].build)
    BY <1>i, <1>t, <2>1, <2>2, TaskBuildsQuiet DEF PastBuild, Is
  <2>3. ASSUME ~(task[t].from > Deploying),
               Moves(t, "enter", IF task[t].step = Preflight THEN CreatingUser ELSE task[t].step,
                     task[t].build)
        PROVE  TaskBuildsInv'
    BY <1>i, <1>t, <2>1, <2>3, TaskBuildsQuiet, StepFacts DEF PastBuild
  <2>4. QED
    BY <1>2, <1>4, <1>7, <2>1, <2>2, <2>3, ConnectMoves
<1>8. CASE RestoreLastBuild(t)
  <2>1. RowsKept
    BY <1>8 DEF RestoreLastBuild, buildVars, RowsKept
  <2>2. ASSUME NEW b \in Build, IsLatestSuccess(task[t].site, b), Moves(t, "enter", task[t].step, b)
        PROVE  TaskBuildsInv'
    BY <1>i, <2>1, <2>2, TaskBuildsQuiet DEF IsLatestSuccess, Deployable
  <2>3. QED
    BY <1>4, <1>8, <2>1, <2>2, RestoreMoves
<1>9. CASE EnterStep(t)
  <2>1. RowsKept /\ task[t].pc = "enter"
    BY <1>9 DEF EnterStep, buildVars, RowsKept, At
  <2>2. Moves(t, IF task[t].step = Deploying THEN "create" ELSE "exec", task[t].step, task[t].build)
    BY <1>9, GotoMoves DEF EnterStep, PC
  <2>3. QED
    BY <1>i, <1>t, <2>1, <2>2, TaskBuildsQuiet DEF PastBuild
<1>10. CASE RunStep(t)
  BY <1>2, <1>3, <1>10, <1>t DEF RunStep, buildVars, RowsKept, At, ShapeOK
<1>11. CASE CreateBuild(t)
  <2>1. nextBuild \in Build /\ Moves(t, "build", task[t].step, nextBuild)
    BY <1>11, CreateMoves
  <2>2. buildStatus[nextBuild] = "absent"
    BY <1>i, <2>1 DEF SiteBuildsInv, Build
  <2>3. /\ buildSite' = [buildSite EXCEPT ![nextBuild] = task[t].site]
        /\ buildStatus' = [buildStatus EXCEPT ![nextBuild] = "building"]
    BY <1>11 DEF CreateBuild
  <2>4. SuccessKept
    BY <2>1, <2>2, <2>3 DEF SuccessKept, Deployable, IsSuccess, TypeOK
  <2>5. \A u \in Task \ {t} : At(u, "build") =>
          task[u].build # nextBuild /\ UnderConstruction(task[u])'
    BY <1>i, <2>1, <2>2, <2>3 DEF TaskBuildsInv, UnderConstruction, Others, TypeOK
  <2>6. UnderConstruction(task[t])'
    BY <1>t, <2>1, <2>3 DEF UnderConstruction, TypeOK
  <2>7. QED
    BY <1>i, <2>1, <2>4, <2>5, <2>6, TaskBuildsStep DEF PastBuild
<1>12. CASE BuildSite(t)
  <2> DEFINE b == task[t].build
  <2>1. UnderConstruction(task[t]) /\ b \in Build
    BY <1>12, <1>i DEF BuildSite, TaskBuildsInv, UnderConstruction
  <2>2. PICK verdict \in {"success", "failed"} :
          /\ buildStatus' = [buildStatus EXCEPT ![b] = verdict] /\ buildSite' = buildSite
          /\ verdict = "success" => Goto(t, "swapOut")
          /\ verdict = "failed" => Throw(t)
    BY <1>12 DEF BuildSite
  <2>3. SuccessKept
    BY <2>1, <2>2 DEF SuccessKept, Deployable, IsSuccess, UnderConstruction, TypeOK
  <2>4. Others(t)
    BY <2>2, GotoMoves, ThrowMoves DEF PC
  <2>5. \A u \in Task \ {t} : At(u, "build") => UnderConstruction(task[u])'
    BY <1>12, <1>i, <2>1, <2>2, <2>4
       DEF BuildSite, TaskBuildsInv, UnderConstruction, Others, TypeOK
  <2>6. /\ task'[t].pc # "build"
        /\ PastBuild(task'[t]) => Deployable(task[t].site, task[t].build)'
    <3>1. CASE verdict = "success"
      <4>1. Moves(t, "swapOut", task[t].step, b)
        BY <2>2, <3>1, GotoMoves DEF PC
      <4>2. QED
        BY <2>1, <2>2, <3>1, <4>1 DEF Deployable, IsSuccess, UnderConstruction, TypeOK
    <3>2. CASE verdict = "failed"
      BY <2>2, <3>2, ThrowMoves DEF PastBuild
    <3>3. QED
      BY <3>1, <3>2
  <2>7. QED
    BY <1>i, <2>3, <2>4, <2>5, <2>6, TaskBuildsStep
<1>13. CASE SwapOut(t)
  <2>1. RowsKept /\ task[t].pc = "swapOut"
    BY <1>13 DEF SwapOut, buildVars, RowsKept, At
  <2>2. CASE Goto(t, "swapIn")
    BY <1>i, <1>t, <2>1, <2>2, GotoMoves, TaskBuildsQuiet DEF PastBuild, PC
  <2>3. QED
    BY <1>2, <1>13, <2>1, <2>2 DEF SwapOut
<1>14. CASE SwapIn(t)
  <2>1. RowsKept /\ task[t].pc = "swapIn"
    BY <1>14 DEF SwapIn, buildVars, RowsKept, At
  <2>2. CASE Goto(t, "record")
    BY <1>i, <1>t, <2>1, <2>2, GotoMoves, TaskBuildsQuiet DEF PastBuild, PC
  <2>3. QED
    BY <1>2, <1>3, <1>14, <2>1, <2>2 DEF SwapIn
<1>15. CASE RecordBuild(t) \/ GoLive(t) \/ Fail(t)
  <2>1. RowsKept
    BY <1>15 DEF RecordBuild, GoLive, Fail, buildVars, RowsKept
  <2>2. Moves(t, "release", task[t].step, task[t].build)
    BY <1>15, GotoMoves DEF RecordBuild, GoLive, Fail, PC
  <2>3. QED
    BY <1>4, <2>1, <2>2
<1>16. CASE Release(t)
  BY <1>1, <1>16, SlotBecomes, RecordTypes DEF Release, buildVars, RowsKept
<1>17. QED
  BY <1>5, <1>6, <1>7, <1>8, <1>9, <1>10, <1>11, <1>12, <1>13, <1>14, <1>15, <1>16 DEF TaskStep

LEMMA DirsAreNoBuilds == NoDir \notin Build /\ EmptyDir \notin Build /\ NoBuild \notin Build
BY BoundAssumption DEF NoDir, EmptyDir, NoBuild, Build

(* A step that leaves the builds table and the records of the sites alone   *)
(* and puts nothing but successful builds into document roots.             *)
LEMMA SiteBuildsQuiet ==
  ASSUME TypeOK, TypeOK', SiteBuildsInv, RowsKept, nextBuild' = nextBuild, lastBuild' = lastBuild,
         \A s \in Site : installStatus'[s] = "live" => installStatus[s] = "live",
         \A s \in Site : \/ docroot'[s] = docroot[s]
                         \/ docroot'[s] \notin Build
                         \/ Deployable(s, docroot'[s])
  PROVE  SiteBuildsInv'
<1>1. \A b \in Build : b >= nextBuild' => buildStatus'[b] = "absent"
  BY DEF SiteBuildsInv, RowsKept
<1>2. QED
  BY <1>1, RowsKeepSuccess, SiteBuildsStep

LEMMA TaskStepSiteBuilds ==
  ASSUME TypeOK, TypeOK', ShapeInv, BuildInv, NEW t \in Task, TaskStep(t)
  PROVE  SiteBuildsInv'
<1> DEFINE s == task[t].site
<1>t. /\ ShapeOK(task[t]) /\ s \in Site /\ task[t].step \in 1..7
      /\ PastBuild(task[t]) => Deployable(s, task[t].build)
  BY FieldTypes, StepFacts DEF ShapeInv, BuildInv, TaskBuildsInv
<1>i. SiteBuildsInv
  BY DEF BuildInv
<1> USE DEF siteVars, buildVars, RowsKept
<1>1. CASE UNCHANGED <<siteVars, buildVars, docroot>>
  BY <1>1, <1>i, SiteBuildsQuiet
<1>2. ASSUME NEW st, SetInstallStatus(s, st), st # "live",
             UNCHANGED <<lastBuild, buildVars, docroot>>
      PROVE  SiteBuildsInv'
  <2>1. \A r \in Site : installStatus'[r] = "live" => installStatus[r] = "live"
    BY <1>2, <1>t, SetStatusColumn
  <2>2. QED
    BY <1>2, <1>i, <2>1, SiteBuildsQuiet
<1>3. CASE MarkQueued(t)
  BY <1>2, <1>3 DEF MarkQueued
<1>4. CASE EnterStep(t)
  BY <1>2, <1>4, <1>t, StepFacts DEF EnterStep
<1>5. CASE Fail(t)
  BY <1>2, <1>5 DEF Fail
<1>6. CASE RunStep(t)
  <2>1. \A r \in Site : docroot'[r] = docroot[r] \/ docroot'[r] \notin Build
    BY <1>6, <1>t, DirsAreNoBuilds DEF RunStep, MakeDocroot, TypeOK
  <2>2. QED
    BY <1>6, <1>i, <2>1, SiteBuildsQuiet DEF RunStep
<1>7. CASE SwapOut(t)
  <2>1. \A r \in Site : docroot'[r] = docroot[r] \/ docroot'[r] \notin Build
    BY <1>7, <1>t, DirsAreNoBuilds DEF SwapOut, TypeOK
  <2>2. QED
    BY <1>7, <1>i, <2>1, SiteBuildsQuiet DEF SwapOut
<1>8. CASE SwapIn(t)
  <2>1. Deployable(s, task[t].build)
    BY <1>8, <1>t DEF SwapIn, At, PastBuild
  <2>2. \A r \in Site : docroot'[r] = docroot[r] \/ Deployable(r, docroot'[r])
    BY <1>8, <1>t, <2>1 DEF SwapIn, MoveIn, TypeOK
  <2>3. QED
    BY <1>8, <1>i, <2>2, SiteBuildsQuiet DEF SwapIn
<1>9. CASE CreateBuild(t)
  <2>1. \A b \in Build : b >= nextBuild => buildStatus[b] = "absent"
    BY <1>i DEF SiteBuildsInv
  <2>2. /\ nextBuild \in Build /\ nextBuild' = nextBuild + 1
        /\ buildSite' = [buildSite EXCEPT ![nextBuild] = s]
        /\ buildStatus' = [buildStatus EXCEPT ![nextBuild] = "building"]
    BY <1>9 DEF CreateBuild
  <2>3. SuccessKept
    BY <2>1, <2>2 DEF SuccessKept, Deployable, IsSuccess, TypeOK, Build
  <2>4. \A b \in Build : b >= nextBuild' => buildStatus'[b] = "absent"
    BY <2>1, <2>2, BoundAssumption DEF TypeOK, Build
  <2>5. QED
    BY <1>9, <1>i, <2>3, <2>4, SiteBuildsStep DEF CreateBuild
<1>10. CASE BuildSite(t)
  <2>1. UnderConstruction(task[t])
    BY <1>10 DEF BuildSite, BuildInv, TaskBuildsInv
  <2>2. PICK verdict \in {"success", "failed"} :
          /\ buildStatus' = [buildStatus EXCEPT ![task[t].build] = verdict]
          /\ buildSite' = buildSite
    BY <1>10 DEF BuildSite
  <2>3. SuccessKept
    BY <2>1, <2>2 DEF SuccessKept, Deployable, IsSuccess, UnderConstruction, TypeOK
  <2>4. \A b \in Build : b >= nextBuild' => buildStatus'[b] = "absent"
    <3>1. \A b \in Build : b >= nextBuild => buildStatus[b] = "absent"
      BY <1>i DEF SiteBuildsInv
    <3>2. \A b \in Build : b >= nextBuild => b # task[t].build
      BY <2>1, <3>1 DEF UnderConstruction
    <3>3. nextBuild' = nextBuild
      BY <1>10 DEF BuildSite
    <3>4. QED
      BY <2>2, <3>1, <3>2, <3>3 DEF TypeOK
  <2>5. QED
    BY <1>10, <1>i, <2>3, <2>4, SiteBuildsStep DEF BuildSite
<1>11. CASE RecordBuild(t)
  <2>1. Deployable(s, task[t].build)
    BY <1>11, <1>t DEF RecordBuild, At, PastBuild
  <2>2. \A r \in Site : lastBuild'[r] = lastBuild[r] \/ Deployable(r, lastBuild'[r])
    BY <1>11, <1>t, <2>1 DEF RecordBuild, TypeOK
  <2>3. \A b \in Build : b >= nextBuild' => buildStatus'[b] = "absent"
    BY <1>11, <1>i DEF RecordBuild, SiteBuildsInv
  <2>4. QED
    BY <1>11, <1>i, <2>2, <2>3, RowsKeepSuccess, SiteBuildsStep DEF RecordBuild
<1>12. CASE GoLive(t)
  <2>1. Deployable(s, task[t].build)
    BY <1>12, <1>t DEF GoLive, At, PastBuild
  <2>2. CtxBuild(t) = task[t].build
    BY <2>1, DirsAreNoBuilds DEF CtxBuild, Deployable
  <2>3. \A r \in Site : lastBuild'[r] = lastBuild[r] \/ Deployable(r, lastBuild'[r])
    BY <1>12, <1>t, <2>1, <2>2 DEF GoLive, TypeOK
  <2>4. \A r \in Site : installStatus'[r] = "live" =>
          installStatus[r] = "live" \/ Deployable(r, lastBuild'[r])
    BY <1>12, <1>t, <2>1, <2>2 DEF GoLive, TypeOK
  <2>5. \A b \in Build : b >= nextBuild' => buildStatus'[b] = "absent"
    BY <1>12, <1>i DEF GoLive, SiteBuildsInv
  <2>6. QED
    BY <1>12, <1>i, <2>3, <2>4, <2>5, RowsKeepSuccess, SiteBuildsStep DEF GoLive
<1>13. QED
  BY <1>1, <1>3, <1>4, <1>5, <1>6, <1>7, <1>8, <1>9, <1>10, <1>11, <1>12
     DEF TaskStep, TakeJob, PublishEdits, Connect, RestoreLastBuild, Release

LEMMA NextBuilds ==
  ASSUME TypeOK, TypeOK', ShapeInv, BuildInv, [Next]_vars
  PROVE  BuildInv'
<1> USE DEF siteVars, buildVars, RowsKept
<1>i. TaskBuildsInv /\ SiteBuildsInv
  BY DEF BuildInv
<1>1. ASSUME NEW t \in Task, TaskStep(t) PROVE BuildInv'
  BY <1>1, TaskStepTaskBuilds, TaskStepSiteBuilds DEF BuildInv
<1>2. ASSUME UNCHANGED <<installStatus, lastBuild, buildVars, docroot>> PROVE SiteBuildsInv'
  BY <1>2, <1>i, SiteBuildsQuiet
<1>3. ASSUME NEW t \in Task, NEW op, NEW s \in Site, NEW from, NEW pc, NEW b,
             Starts(t, op, s, from, pc, b), RowsKept, pc \in {"mark", "waiting", "saved", "connect"},
             op = "rollback" => Deployable(s, b)
      PROVE  TaskBuildsInv'
  BY <1>3, <1>i, TaskBuildsQuiet DEF Starts, PastBuild
<1>4. ASSUME NEW t \in Task, NEW s \in Site, NEW from \in ResumeFrom,
             RequestInline(t, s, from) \/ RequestQueued(t, s, from)
      PROVE  BuildInv'
  <2>1. UNCHANGED <<siteVars, buildVars, docroot>>
    BY <1>4 DEF RequestInline, RequestQueued
  <2>2. CASE Starts(t, "run", s, from, "mark", NoBuild)
    BY <1>2, <1>3, <2>1, <2>2 DEF BuildInv
  <2>3. CASE Starts(t, "run", s, from, "waiting", NoBuild)
    BY <1>2, <1>3, <2>1, <2>3 DEF BuildInv
  <2>4. QED
    BY <1>4, <2>2, <2>3, CallersStart
<1>5. ASSUME NEW t \in Task, NEW s \in Site, SaveEdits(t, s) \/ SweepRebuild(t, s)
      PROVE  BuildInv'
  <2>1. UNCHANGED <<siteVars, buildVars, docroot>>
    BY <1>5 DEF SaveEdits, SweepRebuild
  <2>2. CASE Starts(t, "edit", s, Deploying, "saved", NoBuild)
    BY <1>2, <1>3, <2>1, <2>2 DEF BuildInv
  <2>3. CASE Starts(t, "sweep", s, Deploying, "connect", NoBuild)
    BY <1>2, <1>3, <2>1, <2>3 DEF BuildInv
  <2>4. QED
    BY <1>5, <2>2, <2>3, CallersStart
<1>6. ASSUME NEW t \in Task, NEW s \in Site, NEW b \in Build, Rollback(t, s, b)
      PROVE  BuildInv'
  <2>1. /\ UNCHANGED <<siteVars, buildVars, docroot>>
        /\ Deployable(s, b)
    BY <1>6 DEF Rollback, Deployable
  <2>2. Starts(t, "rollback", s, Deploying, "connect", b)
    BY <1>6, CallersStart
  <2>3. QED
    BY <1>2, <1>3, <2>1, <2>2 DEF BuildInv
<1>7. ASSUME task' = task, RowsKept PROVE TaskBuildsInv'
  BY <1>7, <1>i
     DEF TaskBuildsInv, PastBuild, Deployable, IsSuccess, UnderConstruction, At
<1>8. CASE SweepStart \/ UNCHANGED vars
  BY <1>2, <1>7, <1>8 DEF SweepStart, vars, BuildInv
<1>9. ASSUME NEW s \in Site, SweepSkip(s) \/ Archive(s) PROVE BuildInv'
  BY <1>2, <1>7, <1>9 DEF SweepSkip, Archive, BuildInv
<1>10. ASSUME NEW p \in Proc, Crash(p) PROVE BuildInv'
  <2>1. UNCHANGED <<siteVars, buildVars>>
    BY <1>10 DEF Crash
  <2>2. \A s \in Site : docroot'[s] = docroot[s] \/ Deployable(s, docroot'[s])
    <3>1. CASE docroot' = docroot
      BY <3>1
    <3>2. ASSUME NEW t \in Task, At(t, "swapIn"), MoveIn(task[t].site, task[t].build)
          PROVE  \A s \in Site : docroot'[s] = docroot[s] \/ Deployable(s, docroot'[s])
      <4>1. Deployable(task[t].site, task[t].build)
        BY <1>i, <3>2 DEF TaskBuildsInv, PastBuild, At
      <4>2. QED
        BY <3>2, <4>1, FieldTypes DEF MoveIn, TypeOK
    <3>3. QED
      BY <1>10, <3>1, <3>2 DEF Crash
  <2>3. SiteBuildsInv'
    BY <1>i, <2>1, <2>2, SiteBuildsQuiet
  <2>4. \A t \in Task : \/ task'[t] = task[t]
                        \/ task'[t].pc = "idle"
                        \/ task'[t].pc = "waiting"
    <3>1. IdleTask.pc = "idle"
      BY DEF IdleTask
    <3>2. QED
      BY <1>10, <3>1, CrashTasks
  <2>5. TaskBuildsInv'
    BY <1>i, <2>1, <2>4
       DEF TaskBuildsInv, PastBuild, Deployable, IsSuccess, UnderConstruction, At
  <2>6. QED
    BY <2>3, <2>5 DEF BuildInv
<1>11. QED
  BY <1>1, <1>4, <1>5, <1>6, <1>8, <1>9, <1>10 DEF Next

-----------------------------------------------------------------------------
(* QuietIsSettled: where no install is left behind *)

(* What loses an install: restoreLastBuild without a build, which only a    *)
(* resume past the deploy step reaches; a crash of the inline panel; the    *)
(* second crash of a worker, for BullMQ hands a job on once.               *)
NothingIsLost ==
  /\ ResumeFrom \subseteq Preflight..Deploying
  /\ MaxCrashes = 0 \/ (~Inline /\ MaxCrashes = 1)

SettledStatus == {"draft", "live", "failed"}
Pending(r)    == r.op = "run" /\ r.pc # "release"

(* A run that only has its lock left to give up has written its outcome.    *)
QuietOK(r, st) ==
  r.op = "run" =>
    /\ r.from <= Deploying
    /\ r.pc = "release" => st \in SettledStatus
    /\ r.pc = "waiting" => ~Inline

QuietTasks == \A t \in Task : QuietOK(task[t], installStatus[task[t].site])

QuietSites ==
  \A s \in Site : \/ installStatus[s] \in SettledStatus
                  \/ \E t \in Task : Pending(task[t]) /\ task[t].site = s

NotStalled == crashes = 0 => \A t \in Task : ~task[t].stalled

QuietInv == QuietTasks /\ QuietSites /\ NotStalled

(* What a step of a run does to it and to its site's column: it goes on,    *)
(* on the way it may write the step it is on; it ends with its outcome; it  *)
(* gives up its lock; or another activation holds the site.                *)
Elsewhere(t) == \A s \in Site : s # task[t].site => installStatus'[s] = installStatus[s]

RunGoesOn(t) ==
  \E pc \in PC \ {"release", "waiting"} : \E k, b :
    /\ Moves(t, pc, k, b)
    /\ installStatus' = installStatus \/ (Holds(t) /\ Elsewhere(t))
RunEnds(t) ==
  /\ \E k, b : Moves(t, "release", k, b)
  /\ Holds(t) /\ Elsewhere(t) /\ installStatus'[task[t].site] \in SettledStatus
RunIsGone(t) ==
  /\ Becomes(t, IdleTask) /\ installStatus' = installStatus
  /\ \/ task[t].pc = "release"
     \/ task[t].pc = "waiting" /\ task[t].site \in running[Installs]

LEMMA RunSteps ==
  ASSUME TypeOK, ShapeInv, NEW t \in Task, TaskStep(t), task[t].op = "run",
         task[t].from <= Deploying
  PROVE  RunGoesOn(t) \/ RunEnds(t) \/ RunIsGone(t)
<1>t. /\ ShapeOK(task[t]) /\ task[t].site \in Site /\ task[t].step \in 1..7 /\ Is(t, "run")
      /\ task[t].from \in 1..7
  BY FieldTypes, StepFacts DEF ShapeInv, Is
<1>p. {"mark", "failing", "golive", "enter", "connect", "exec", "create", "build", "swapOut", "swapIn", "record"}
        \subseteq PC \ {"release", "waiting"}
  BY DEF PC
<1>1. ASSUME NEW pc \in PC \ {"release", "waiting"}, NEW k, NEW b, Moves(t, pc, k, b),
             installStatus' = installStatus
      PROVE  RunGoesOn(t)
  BY <1>1 DEF RunGoesOn
<1>2. ASSUME NEW pc \in PC \ {"release", "waiting"}, NEW k, NEW b, Moves(t, pc, k, b),
             NEW st, SetInstallStatus(task[t].site, st), Holds(t)
      PROVE  RunGoesOn(t)
  <2>1. Elsewhere(t)
    BY <1>2, <1>t, SetStatusColumn DEF Elsewhere
  <2>2. QED
    BY <1>2, <2>1 DEF RunGoesOn
<1>3. ASSUME Throw(t), installStatus' = installStatus PROVE RunGoesOn(t)
  BY <1>1, <1>3, <1>t, <1>p, ThrowMoves
<1>4. ASSUME NextStep(t), installStatus' = installStatus PROVE RunGoesOn(t)
  BY <1>1, <1>4, <1>p, NextStepMoves
<1>5. ASSUME NEW pc \in PC \ {"release", "waiting"}, Goto(t, pc), installStatus' = installStatus
      PROVE  RunGoesOn(t)
  BY <1>1, <1>5, GotoMoves
<1>6. CASE TakeJob(t) \/ PublishEdits(t)
  <2>1. installStatus' = installStatus /\ task[t].pc \in {"waiting", "saved"}
    BY <1>6 DEF TakeJob, PublishEdits, siteVars, At
  <2>2. task[t].pc = "waiting" /\ TakeJob(t)
    BY <1>6, <1>t, <2>1 DEF ShapeOK, PublishEdits, At
  <2>3. CASE NotRunning(Installs, task[t].site)
    BY <1>5, <1>p, <2>1, <2>2, <2>3 DEF TakeJob
  <2>4. CASE ~NotRunning(Installs, task[t].site)
    BY <2>1, <2>2, <2>4, SlotBecomes, RecordTypes DEF TakeJob, RunIsGone, NotRunning
  <2>5. QED
    BY <2>3, <2>4
<1>7. CASE MarkQueued(t)
  <2>1. \E pc \in {"connect", "failing"} : Moves(t, pc, task[t].step, task[t].build)
    BY <1>7, GotoMoves DEF MarkQueued, PC
  <2>2. Holds(t)
    BY <1>7, <1>t DEF MarkQueued, At, Holds, Is
  <2>3. QED
    BY <1>2, <1>7, <1>p, <2>1, <2>2 DEF MarkQueued
<1>8. CASE Connect(t)
  <2>1. installStatus' = installStatus
    BY <1>8 DEF Connect, siteVars
  <2>2. QED
    BY <1>1, <1>3, <1>8, <1>t, <1>p, <2>1, ConnectMoves, StepFacts DEF Is
<1>9. CASE RestoreLastBuild(t)
  <2>1. task[t].pc = "restore"
    BY <1>9 DEF RestoreLastBuild, At
  <2>2. task[t].from > Deploying
    BY <2>1, <1>t DEF ShapeOK
  <2>3. QED
    BY <1>t, <2>2, StepFacts
<1>10. CASE EnterStep(t)
  <2>1. \E pc \in {"create", "exec"} : Moves(t, pc, task[t].step, task[t].build)
    BY <1>10, GotoMoves DEF EnterStep, PC
  <2>2. Holds(t)
    BY <1>10, <1>t DEF EnterStep, At, Holds, Is
  <2>3. QED
    BY <1>2, <1>10, <1>p, <2>1, <2>2 DEF EnterStep
<1>11. CASE RunStep(t)
  BY <1>3, <1>4, <1>11 DEF RunStep, siteVars
<1>12. CASE CreateBuild(t)
  BY <1>1, <1>12, <1>p, CreateMoves DEF CreateBuild, siteVars
<1>13. CASE BuildSite(t)
  BY <1>3, <1>5, <1>13, <1>p DEF BuildSite, siteVars
<1>14. CASE SwapOut(t)
  BY <1>3, <1>5, <1>14, <1>p DEF SwapOut, siteVars
<1>15. CASE SwapIn(t)
  BY <1>3, <1>4, <1>15, <1>t DEF SwapIn, siteVars
<1>16. CASE RecordBuild(t)
  BY <1>16, <1>t DEF RecordBuild, At, ShapeOK
<1>17. CASE GoLive(t) \/ Fail(t)
  <2>1. Moves(t, "release", task[t].step, task[t].build)
    BY <1>17, GotoMoves DEF GoLive, Fail, PC
  <2>2. Holds(t)
    BY <1>17, <1>t DEF GoLive, Fail, At, Holds, Is
  <2>3. Elsewhere(t) /\ installStatus'[task[t].site] \in SettledStatus
    <3>1. CASE GoLive(t)
      BY <3>1, <1>t DEF GoLive, TypeOK, Elsewhere, SettledStatus
    <3>2. CASE Fail(t)
      BY <3>2, <1>t, SetStatusColumn DEF Fail, Elsewhere, SettledStatus
    <3>3. QED
      BY <1>17, <3>1, <3>2
  <2>4. QED
    BY <2>1, <2>2, <2>3 DEF RunEnds
<1>18. CASE Release(t)
  BY <1>18, SlotBecomes, RecordTypes DEF Release, siteVars, At, RunIsGone
<1>19. QED
  BY <1>6, <1>7, <1>8, <1>9, <1>10, <1>11, <1>12, <1>13, <1>14, <1>15, <1>16,
     <1>17, <1>18 DEF TaskStep

(* What is not a run stays none and leaves the columns alone. *)
LEMMA OtherSteps ==
  ASSUME TypeOK, ShapeInv, NEW t \in Task, TaskStep(t), task[t].op # "run"
  PROVE  Others(t) /\ task'[t].op # "run" /\ installStatus' = installStatus
<1>t. ShapeOK(task[t]) /\ task[t].step \in 1..7 /\ ~Is(t, "run")
  BY FieldTypes, StepFacts DEF ShapeInv, Is
<1>1. ASSUME NEW pc, NEW k, NEW b, Moves(t, pc, k, b) PROVE Others(t) /\ task'[t].op # "run"
  BY <1>1 DEF Moves
<1>2. ASSUME Throw(t) PROVE Others(t) /\ task'[t].op # "run"
  BY <1>1, <1>2, ThrowMoves
<1>3. ASSUME NEW pc \in PC, Goto(t, pc) PROVE Others(t) /\ task'[t].op # "run"
  BY <1>1, <1>3, GotoMoves
<1>4. ASSUME Becomes(t, IdleTask) PROVE Others(t) /\ task'[t].op # "run"
  BY <1>4 DEF Becomes, IdleTask
<1>5. CASE TakeJob(t) \/ PublishEdits(t)
  BY <1>1, <1>4, <1>5, TakeMoves DEF TakeJob, PublishEdits, siteVars
<1>6. CASE MarkQueued(t) \/ RestoreLastBuild(t) \/ EnterStep(t) \/ RunStep(t) \/ GoLive(t) \/ Fail(t)
  BY <1>6, <1>t DEF MarkQueued, RestoreLastBuild, EnterStep, RunStep, GoLive, Fail, At, ShapeOK
<1>7. CASE Connect(t)
  BY <1>1, <1>2, <1>7, ConnectMoves DEF Connect, siteVars
<1>8. CASE CreateBuild(t)
  BY <1>1, <1>8, CreateMoves DEF CreateBuild, siteVars
<1>9. CASE BuildSite(t) \/ SwapOut(t)
  BY <1>2, <1>3, <1>9 DEF BuildSite, SwapOut, siteVars, PC
<1>10. CASE SwapIn(t)
  BY <1>2, <1>3, <1>10, <1>t DEF SwapIn, siteVars, PC
<1>11. CASE RecordBuild(t)
  BY <1>3, <1>11 DEF RecordBuild, PC
<1>12. CASE Release(t)
  BY <1>4, <1>12, SlotBecomes, RecordTypes DEF Release, siteVars
<1>13. QED
  BY <1>5, <1>6, <1>7, <1>8, <1>9, <1>10, <1>11, <1>12 DEF TaskStep

(* No other run at its end has its column written under it. *)
LEMMA OthersAreQuiet ==
  ASSUME TypeOK, LockInv, QuietTasks, NEW t \in Task, Others(t),
         installStatus' = installStatus \/ (Holds(t) /\ task[t].op = "run" /\ Elsewhere(t)),
         NEW u \in Task \ {t}
  PROVE  QuietOK(task'[u], installStatus'[task'[u].site])
<1>1. task'[u] = task[u] /\ QuietOK(task[u], installStatus[task[u].site]) /\ task[u].site \in Site
  BY FieldTypes DEF Others, QuietTasks
<1>2. CASE installStatus'[task[u].site] = installStatus[task[u].site]
  BY <1>1, <1>2
<1>3. CASE installStatus'[task[u].site] # installStatus[task[u].site]
  <2>1. Holds(t) /\ task[t].op = "run" /\ task[u].site = task[t].site
    BY <1>1, <1>3 DEF Elsewhere
  <2>2. ~(Holds(u) /\ task[u].op = "run")
    BY <2>1 DEF LockInv, OneHolderPerProcess
  <2>3. QED
    BY <1>1, <2>2 DEF Holds, QuietOK
<1>4. QED
  BY <1>2, <1>3

LEMMA TaskStepQuiet ==
  ASSUME TypeOK, ShapeInv, LockInv, QuietInv, NEW t \in Task, TaskStep(t)
  PROVE  QuietTasks' /\ QuietSites'
<1> DEFINE s == task[t].site
<1>i. QuietTasks /\ QuietSites /\ s \in Site /\ QuietOK(task[t], installStatus[s])
  BY FieldTypes DEF QuietInv, QuietTasks
<1>1. ASSUME Others(t), Elsewhere(t), Pending(task'[t]) \/ installStatus'[s] \in SettledStatus,
             Pending(task'[t]) => task'[t].site = s
      PROVE  QuietSites'
  <2> SUFFICES ASSUME NEW r \in Site, installStatus'[r] \notin SettledStatus
               PROVE  \E u \in Task : Pending(task'[u]) /\ task'[u].site = r
    BY DEF QuietSites, Pending
  <2>1. CASE r = s
    BY <1>1, <2>1
  <2>2. CASE r # s
    <3>1. PICK u \in Task : Pending(task[u]) /\ task[u].site = r
      BY <1>1, <1>i, <2>2 DEF QuietSites, Elsewhere
    <3>2. task'[u] = task[u]
      BY <1>1, <2>2, <3>1 DEF Others
    <3>3. QED
      BY <3>1, <3>2
  <2>3. QED
    BY <2>1, <2>2
<1>2. ASSUME Others(t), installStatus' = installStatus,
             ~Pending(task[t]) \/ \E u \in Task \ {t} : Pending(task[u]) /\ task[u].site = s
      PROVE  QuietSites'
  <2> SUFFICES ASSUME NEW r \in Site, installStatus'[r] \notin SettledStatus
               PROVE  \E u \in Task : Pending(task'[u]) /\ task'[u].site = r
    BY DEF QuietSites, Pending
  <2>1. PICK u \in Task : Pending(task[u]) /\ task[u].site = r
    BY <1>2, <1>i DEF QuietSites
  <2>2. PICK v \in Task \ {t} : Pending(task[v]) /\ task[v].site = r
    BY <1>2, <2>1
  <2>3. QED
    BY <1>2, <2>2 DEF Others
<1>3. ASSUME Others(t), QuietOK(task'[t], installStatus'[task'[t].site]),
             installStatus' = installStatus \/ (Holds(t) /\ task[t].op = "run" /\ Elsewhere(t))
      PROVE  QuietTasks'
  <2>1. \A u \in Task \ {t} : QuietOK(task'[u], installStatus'[task'[u].site])
    BY <1>i, <1>3, OthersAreQuiet
  <2>2. QED
    BY <1>3, <2>1 DEF QuietTasks, QuietOK
<1>4. CASE task[t].op # "run"
  <2>1. Others(t) /\ task'[t].op # "run" /\ installStatus' = installStatus
    BY <1>4, OtherSteps
  <2>2. QED
    BY <1>2, <1>3, <1>4, <2>1 DEF QuietOK, Pending
<1>5. CASE task[t].op = "run"
  <2>1. task[t].from <= Deploying /\ (task[t].pc = "waiting" => ~Inline)
        /\ (task[t].pc = "release" => installStatus[s] \in SettledStatus)
    BY <1>5, <1>i DEF QuietOK
  <2>2. RunGoesOn(t) \/ RunEnds(t) \/ RunIsGone(t)
    BY <1>5, <2>1, RunSteps
  <2>3. CASE RunGoesOn(t)
    <3>1. PICK pc \in PC \ {"release", "waiting"} : \E k, b :
            /\ Moves(t, pc, k, b)
            /\ installStatus' = installStatus \/ (Holds(t) /\ Elsewhere(t))
      BY <2>3 DEF RunGoesOn
    <3>2. Others(t) /\ Pending(task'[t]) /\ task'[t].site = s /\ Elsewhere(t)
          /\ QuietOK(task'[t], installStatus'[task'[t].site])
      BY <1>5, <2>1, <3>1 DEF Moves, Pending, Elsewhere, QuietOK
    <3>3. QED
      BY <1>1, <1>3, <1>5, <3>1, <3>2
  <2>4. CASE RunEnds(t)
    <3>1. PICK k, b : Moves(t, "release", k, b)
      BY <2>4 DEF RunEnds
    <3>2. Others(t) /\ ~Pending(task'[t]) /\ QuietOK(task'[t], installStatus'[task'[t].site])
      BY <2>1, <2>4, <3>1 DEF Moves, Pending, QuietOK, RunEnds
    <3>3. QED
      BY <1>1, <1>3, <1>5, <2>4, <3>2 DEF RunEnds
  <2>5. CASE RunIsGone(t)
    <3>1. Others(t) /\ installStatus' = installStatus /\ task'[t].op = "none"
      BY <2>5 DEF RunIsGone, Becomes, IdleTask
    <3>2. QuietTasks'
      BY <1>3, <3>1 DEF QuietOK
    <3>3. CASE installStatus[s] \in SettledStatus
      BY <1>1, <3>1, <3>2, <3>3 DEF Elsewhere, Pending
    <3>4. CASE installStatus[s] \notin SettledStatus
      <4>1. task[t].pc = "waiting" /\ s \in running[Installs] /\ ~Inline
        BY <2>1, <2>5, <3>4 DEF RunIsGone
      <4>2. PICK u \in Task : Holds(u) /\ task[u].site = s /\ ProcOf(task[u].op) = Installs
        BY <1>i, <4>1 DEF LockInv, LockIsExact, Proc
      <4>3. u # t /\ task[u].op = "run"
        BY <4>1, <4>2 DEF Holds, ProcOf, Inline
      <4>4. task[u].pc # "release"
        BY <1>i, <3>4, <4>2, <4>3 DEF QuietTasks, QuietOK
      <4>5. QED
        BY <1>2, <3>1, <3>2, <4>2, <4>3, <4>4 DEF Pending
    <3>5. QED
      BY <3>2, <3>3, <3>4
  <2>6. QED
    BY <2>2, <2>3, <2>4, <2>5
<1>6. QED
  BY <1>4, <1>5

(* No activation is handed on before the first crash. *)
LEMMA TaskStepStalled ==
  ASSUME TypeOK, NEW t \in Task, TaskStep(t)
  PROVE  Others(t) /\ (task'[t].stalled => task[t].stalled) /\ crashes' = crashes
<1>c. crashes' = crashes
  BY DEF TaskStep, TakeJob, PublishEdits, MarkQueued, Connect, RestoreLastBuild, EnterStep,
         RunStep, CreateBuild, BuildSite, SwapOut, SwapIn, RecordBuild, GoLive, Fail, Release
<1> DEFINE Kept == Others(t) /\ (task'[t].stalled => task[t].stalled)
<1> SUFFICES Kept
  BY <1>c
<1>1. ASSUME NEW pc, NEW k, NEW b, Moves(t, pc, k, b) PROVE Kept
  BY <1>1 DEF Moves
<1>2. ASSUME Throw(t) PROVE Kept
  BY <1>1, <1>2, ThrowMoves
<1>3. ASSUME NEW pc \in PC, Goto(t, pc) PROVE Kept
  BY <1>1, <1>3, GotoMoves
<1>4. ASSUME Becomes(t, IdleTask) PROVE Kept
  BY <1>4 DEF Becomes, IdleTask
<1>5. ASSUME NextStep(t) PROVE Kept
  BY <1>1, <1>5, NextStepMoves
<1> HIDE DEF Kept
<1>6. CASE TakeJob(t) \/ PublishEdits(t)
  BY <1>1, <1>4, <1>6, TakeMoves
<1>7. CASE MarkQueued(t) \/ EnterStep(t) \/ RecordBuild(t) \/ GoLive(t) \/ Fail(t)
  BY <1>3, <1>7 DEF MarkQueued, EnterStep, RecordBuild, GoLive, Fail, PC
<1>8. CASE Connect(t) \/ RestoreLastBuild(t) \/ CreateBuild(t)
  BY <1>1, <1>2, <1>8, ConnectMoves, RestoreMoves, CreateMoves
<1>9. CASE RunStep(t) \/ BuildSite(t) \/ SwapOut(t) \/ SwapIn(t)
  BY <1>2, <1>3, <1>5, <1>9 DEF RunStep, BuildSite, SwapOut, SwapIn, PC
<1>10. CASE Release(t)
  BY <1>4, <1>10, SlotBecomes, RecordTypes DEF Release
<1>11. QED
  BY <1>6, <1>7, <1>8, <1>9, <1>10 DEF TaskStep

(* The steps of the callers, the sweep and the operator. *)
LEMMA CallersAreQuiet ==
  ASSUME TypeOK, QuietInv, NothingIsLost, NEW t \in Task,
         NEW op, NEW s \in Site, NEW from, NEW pc, NEW b, Starts(t, op, s, from, pc, b),
         Free(t), ShapeInv, installStatus' = installStatus, crashes' = crashes,
         op = "run" => from \in ResumeFrom /\ (pc = "mark" \/ (pc = "waiting" /\ ~Inline))
  PROVE  QuietInv'
<1>1. QuietTasks /\ QuietSites /\ NotStalled
  BY DEF QuietInv
<1>2. Others(t) /\ task'[t].op = op /\ task'[t].pc = pc /\ task'[t].from = from /\ ~task'[t].stalled
  BY DEF Starts
<1>3. QuietTasks'
  <2>1. QuietOK(task'[t], installStatus'[task'[t].site])
    <3>1. from \in ResumeFrom => from <= Deploying
      BY StepFacts DEF NothingIsLost
    <3>2. QED
      BY <1>2, <3>1 DEF QuietOK
  <2>2. \A u \in Task \ {t} : QuietOK(task'[u], installStatus'[task'[u].site])
    BY <1>1, <1>2 DEF QuietTasks, Others
  <2>3. QED
    BY <2>1, <2>2 DEF QuietTasks, QuietOK
<1>4. QuietSites'
  <2>1. ~Pending(task[t])
    BY DEF Free, ShapeInv, ShapeOK, Pending
  <2>2. \A u \in Task : Pending(task[u]) => task'[u] = task[u]
    BY <1>2, <2>1 DEF Others
  <2>3. QED
    BY <1>1, <2>2 DEF QuietSites, Pending
<1>5. NotStalled'
  BY <1>1, <1>2 DEF NotStalled, Others
<1>6. QED
  BY <1>3, <1>4, <1>5 DEF QuietInv

(* A crash of the inline panel is ruled out; a worker's runs wait again.    *)
LEMMA CrashIsQuiet ==
  ASSUME TypeOK, ShapeInv, QuietInv, NothingIsLost, NEW p \in Proc, Crash(p)
  PROVE  QuietInv'
<1>1. QuietTasks /\ QuietSites /\ NotStalled
  BY DEF QuietInv
<1>2. ~Inline /\ crashes = 0 /\ crashes' = 1
  BY BoundAssumption DEF Crash, NothingIsLost, TypeOK
<1>3. installStatus' = installStatus
  BY DEF Crash, siteVars
<1>4. \A t \in Task : task'[t] = AfterCrash(t, p)
  BY DEF Crash
<1>5. ASSUME NEW t \in Task, task[t].op = "run"
      PROVE  \/ task'[t] = task[t]
             \/ /\ task'[t].op = "run" /\ task'[t].site = task[t].site
                /\ task'[t].from = task[t].from /\ task'[t].pc = "waiting"
  <2>1. ~task[t].stalled
    BY <1>1, <1>2 DEF NotStalled
  <2>2. AfterCrash(t, p) = task[t] \/
        AfterCrash(t, p) = [NewTask("run", task[t].site, task[t].from, "waiting", NoBuild) EXCEPT !.stalled = TRUE]
    BY <1>2, <1>5, <2>1 DEF AfterCrash, Is
  <2>3. QED
    BY <1>4, <2>2 DEF NewTask
<1>6. ASSUME NEW t \in Task, task[t].op # "run" PROVE task'[t].op # "run"
  <2>1. AfterCrash(t, p) = task[t] \/ AfterCrash(t, p) = IdleTask
    BY <1>6 DEF AfterCrash, Is
  <2>2. QED
    BY <1>4, <1>6, <2>1 DEF IdleTask
<1>7. QuietTasks'
  <2> SUFFICES ASSUME NEW t \in Task PROVE QuietOK(task'[t], installStatus[task'[t].site])
    BY <1>3 DEF QuietTasks
  <2>1. CASE task[t].op # "run"
    BY <1>6, <2>1 DEF QuietOK
  <2>2. CASE task[t].op = "run"
    BY <1>1, <1>2, <1>5, <2>2 DEF QuietTasks, QuietOK
  <2>3. QED
    BY <2>1, <2>2
<1>8. QuietSites'
  <2>1. \A t \in Task : Pending(task[t]) => Pending(task'[t]) /\ task'[t].site = task[t].site
    BY <1>5 DEF Pending
  <2>2. QED
    BY <1>1, <1>3, <2>1 DEF QuietSites, Pending
<1>9. NotStalled'
  BY <1>2 DEF NotStalled
<1>10. QED
  BY <1>7, <1>8, <1>9 DEF QuietInv

LEMMA NextQuiet ==
  ASSUME TypeOK, ShapeInv, LockInv, QuietInv, NothingIsLost, [Next]_vars
  PROVE  QuietInv'
<1>1. ASSUME NEW t \in Task, TaskStep(t) PROVE QuietInv'
  <2>1. NotStalled'
    BY <1>1, TaskStepStalled DEF QuietInv, NotStalled, Others
  <2>2. QED
    BY <1>1, <2>1, TaskStepQuiet DEF QuietInv
<1>2. ASSUME NEW t \in Task, NEW s \in Site, NEW from \in ResumeFrom,
             RequestInline(t, s, from) \/ RequestQueued(t, s, from)
      PROVE  QuietInv'
  <2>1. Free(t) /\ installStatus' = installStatus /\ crashes' = crashes
    BY <1>2 DEF RequestInline, RequestQueued, siteVars
  <2>2. CASE RequestInline(t, s, from)
    BY <2>1, <2>2, CallersStart, CallersAreQuiet
  <2>3. CASE RequestQueued(t, s, from)
    <3>1. ~Inline
      BY <2>3 DEF RequestQueued
    <3>2. QED
      BY <2>1, <2>3, <3>1, CallersStart, CallersAreQuiet
  <2>4. QED
    BY <1>2, <2>2, <2>3
<1>3. ASSUME NEW t \in Task, NEW s \in Site, SaveEdits(t, s) \/ SweepRebuild(t, s)
      PROVE  QuietInv'
  <2>1. Free(t) /\ installStatus' = installStatus /\ crashes' = crashes
    BY <1>3 DEF SaveEdits, SweepRebuild, siteVars
  <2>2. QED
    BY <1>3, <2>1, CallersStart, CallersAreQuiet
<1>4. ASSUME NEW t \in Task, NEW s \in Site, NEW b \in Build, Rollback(t, s, b)
      PROVE  QuietInv'
  <2>1. Free(t) /\ installStatus' = installStatus /\ crashes' = crashes
    BY <1>4 DEF Rollback, siteVars
  <2>2. QED
    BY <1>4, <2>1, CallersStart, CallersAreQuiet
<1>5. ASSUME task' = task, installStatus' = installStatus, crashes' = crashes PROVE QuietInv'
  BY <1>5 DEF QuietInv, QuietTasks, QuietSites, NotStalled, QuietOK, Pending
<1>6. ASSUME NEW p \in Proc, Crash(p) PROVE QuietInv'
  BY <1>6, CrashIsQuiet
<1>7. QED
  BY <1>1, <1>2, <1>3, <1>4, <1>5, <1>6 DEF Next, SweepStart, SweepSkip, Archive, vars, siteVars

-----------------------------------------------------------------------------
(* The theorems *)

(* IInv holds initially, every step preserves it, and so it always holds. *)
THEOREM Invariance == Spec => []IInv
<1>1. Init => IInv
  <2>1. Init => LiveIsPublished
    BY DEF Init, LiveIsPublished
  <2>2. QED
    BY <2>1, InitType, InitShape, InitLock, InitStatus, InitBuilds DEF IInv
<1>2. IInv /\ [Next]_vars => IInv'
  <2> SUFFICES ASSUME IInv, [Next]_vars PROVE IInv'
    OBVIOUS
  <2>1. TypeOK /\ ShapeInv /\ LockInv /\ StatusInv /\ BuildInv /\ LiveIsPublished
    BY DEF IInv
  <2>2. TypeOK'
    BY <2>1, NextType
  <2>3. ShapeInv' /\ LockInv' /\ StatusInv'
    BY <2>1, NextShape, NextLock, NextStatus
  <2>4. BuildInv' /\ LiveIsPublished'
    BY <2>1, <2>2, NextBuilds, NextPublished
  <2>5. QED
    BY <2>2, <2>3, <2>4 DEF IInv
<1>3. QED
  BY <1>1, <1>2, PTL DEF Spec

(* Every variable keeps its type. *)
THEOREM TypeCorrect == Spec => []TypeOK
<1>1. IInv => TypeOK
  BY DEF IInv
<1>2. QED
  BY <1>1, Invariance, PTL

(* `running` holds exactly the sites that are being worked on, and each by  *)
(* one activation: no finally deletes an entry it does not own, and no      *)
(* early return, throw or crash leaves one behind.                         *)
THEOREM LockCorrect == Spec => [](LockIsExact /\ OneHolderPerProcess)
<1>1. IInv => LockIsExact /\ OneHolderPerProcess
  BY DEF IInv, LockInv
<1>2. QED
  BY <1>1, Invariance, PTL

(* With JOBS_MODE=inline one `running` set serves the whole panel, and one  *)
(* activation at most works on a site.                                     *)
THEOREM InlineExclusion ==
  ASSUME Inline
  PROVE  Spec => []OnePipelinePerSite
<1>1. IInv => OnePipelinePerSite
  BY DEF IInv, LockInv, OneHolderPerProcess, OnePipelinePerSite, Inline, ProcOf
<1>2. QED
  BY <1>1, Invariance, PTL

(* While an install runs, install_status is the step it is on. *)
THEOREM StatusCorrect == Spec => []StatusFollowsRun
<1>1. IInv => StatusFollowsRun
  <2> SUFFICES ASSUME IInv, NEW t \in Task, Is(t, "run")
               PROVE  LET st == installStatus[task[t].site] IN
                      CASE task[t].pc \in {"connect", "restore"} -> st = "queued"
                        [] task[t].pc \in {"exec", "create", "build", "swapOut", "swapIn"} ->
                             st = INSTALL_STEPS[task[t].step]
                        [] task[t].pc = "golive"  -> st = INSTALL_STEPS[Verifying]
                        [] task[t].pc \in {"enter", "failing"} ->
                             st \notin {"draft", "live", "failed"}
                        [] OTHER -> TRUE
    BY DEF StatusFollowsRun
  <2>1. /\ StatusOK(task[t], installStatus[task[t].site])
        /\ ShapeOK(task[t]) /\ task[t].step \in 1..7 /\ task[t].op = "run"
    BY FieldTypes, StepFacts DEF IInv, StatusInv, ShapeInv, Is
  <2>2. CASE task[t].pc = "enter"
    <3>1. task[t].step > CreatingUser => INSTALL_STEPS[task[t].step - 1] \notin {"draft", "live", "failed"}
      BY <2>1, StepFacts
    <3>2. QED
      BY <2>1, <2>2, <3>1 DEF StatusOK
  <2>3. CASE task[t].pc # "enter"
    BY <2>1, <2>3 DEF StatusOK
  <2>4. QED
    BY <2>2, <2>3
<1>2. QED
  BY <1>1, Invariance, PTL

(* The build a site records, and the build its visitors are served, are     *)
(* successful builds of that site.                                         *)
THEOREM BuildsCorrect == Spec => [](RecordedBuildSucceeded /\ ServedBuildSucceeded)
<1>1. IInv => RecordedBuildSucceeded /\ ServedBuildSucceeded
  BY DEF IInv, BuildInv, SiteBuildsInv
<1>2. QED
  BY <1>1, Invariance, PTL

(* A live site is published until somebody archives it. *)
THEOREM PublishedCorrect == Spec => []LiveIsPublished
<1>1. IInv => LiveIsPublished
  BY DEF IInv
<1>2. QED
  BY <1>1, Invariance, PTL

(* Unless a client resumes behind the build, the inline panel crashes, or a *)
(* worker crashes twice, no site is left on a step nobody is working on:    *)
(* every install that is dropped or ends leaves the column to another one   *)
(* or at its outcome.                                                      *)
THEOREM InstallsSettle ==
  ASSUME NothingIsLost
  PROVE  Spec => []QuietIsSettled
<1>1. Init => QuietInv
  BY DEF Init, IdleTask, QuietInv, QuietTasks, QuietSites, NotStalled, QuietOK, SettledStatus
<1>2. IInv /\ QuietInv /\ [Next]_vars => QuietInv'
  BY NextQuiet DEF IInv
<1>3. QuietInv => QuietIsSettled
  BY DEF QuietInv, QuietSites, QuietIsSettled, SettledStatus, Pending, Is
<1>4. QED
  BY <1>1, <1>2, <1>3, Invariance, PTL DEF Spec

(* Every live site has recorded a build, also one that was resumed past the *)
(* step that builds.                                                       *)
THEOREM LiveSitesAreBuilt == Spec => []LiveHasBuild
<1>1. IInv => LiveHasBuild
  BY DEF IInv, BuildInv, SiteBuildsInv
<1>2. QED
  BY <1>1, Invariance, PTL

-----------------------------------------------------------------------------
(* The pipeline implements InstallLifecycle *)

LEMMA LifecycleSteps ==
  /\ Lifecycle!First = 1 /\ Lifecycle!Last = 6
  /\ \A i \in 1..6 : Lifecycle!ServerSteps[i] = INSTALL_STEPS[i + 1]
BY DEF Lifecycle!First, Lifecycle!Last, Lifecycle!ServerSteps, INSTALL_STEPS

(* Every step of the panel is a step of the lifecycle or leaves it alone. *)
THEOREM LifecycleRefinement == Spec => LifecycleSpec
<1>1. Init => Lifecycle!Init
  BY DEF Init, Lifecycle!Init
<1>2. IInv /\ [Next]_vars => [Lifecycle!Next]_installStatus
  <2> SUFFICES ASSUME IInv, [Next]_vars PROVE [Lifecycle!Next]_installStatus
    OBVIOUS
  <2> USE DEF siteVars
  <2>1. ASSUME NEW t \in Task, TaskStep(t) PROVE [Lifecycle!Next]_installStatus
    <3> DEFINE s  == task[t].site
               st == installStatus[s]
    <3>t. /\ TypeOK /\ ShapeOK(task[t]) /\ StatusOK(task[t], st)
          /\ s \in Site /\ task[t].step \in 1..7
      BY FieldTypes, StepFacts DEF IInv, ShapeInv, StatusInv
    <3>1. CASE MarkQueued(t)
      BY <3>1, <3>t DEF MarkQueued, SetInstallStatus, Lifecycle!Next, Lifecycle!Enqueue, Lifecycle!Move
    <3>2. CASE EnterStep(t)
      <4>1. /\ installStatus' = [installStatus EXCEPT ![s] = INSTALL_STEPS[task[t].step]]
            /\ task[t].step \in 2..7
            /\ st = "queued" \/ (task[t].step > 2 /\ st = INSTALL_STEPS[task[t].step - 1])
        <5>1. task[t].pc = "enter" /\ task[t].op = "run"
          BY <3>2, <3>t DEF EnterStep, At, ShapeOK
        <5>2. installStatus' = [installStatus EXCEPT ![s] = INSTALL_STEPS[task[t].step]]
          BY <3>2 DEF EnterStep, SetInstallStatus
        <5>3. task[t].step # 1
          BY <3>t, <5>1, StepFacts DEF ShapeOK
        <5>4. st = "queued" \/ (task[t].step > 2 /\ st = INSTALL_STEPS[task[t].step - 1])
          BY <3>t, <5>1, StepFacts DEF StatusOK
        <5>5. QED
          BY <3>t, <5>2, <5>3, <5>4
      <4>2. PICK i \in 1..6 : i + 1 = task[t].step
        BY <4>1
      <4>3. CASE st = "queued"
        BY <3>t, <4>1, <4>2, <4>3, LifecycleSteps
           DEF Lifecycle!Next, Lifecycle!Begin, Lifecycle!Move
      <4>4. CASE task[t].step > 2 /\ st = INSTALL_STEPS[task[t].step - 1]
        <5>1. PICK j \in 1..5 : j + 2 = task[t].step
          BY <4>1, <4>4
        <5>2. /\ st = Lifecycle!ServerSteps[j]
              /\ INSTALL_STEPS[task[t].step] = Lifecycle!ServerSteps[j + 1]
          BY <4>4, <5>1, LifecycleSteps
        <5>3. j \in Lifecycle!First..(Lifecycle!Last - 1)
          BY LifecycleSteps
        <5>4. Lifecycle!Move(s, Lifecycle!ServerSteps[j + 1])
          BY <4>1, <5>2 DEF Lifecycle!Move
        <5>5. Lifecycle!Advance(s)
          BY <5>2, <5>3, <5>4 DEF Lifecycle!Advance
        <5>6. QED
          BY <3>t, <5>5 DEF Lifecycle!Next
      <4>5. QED
        BY <4>1, <4>3, <4>4
    <3>3. CASE GoLive(t)
      <4>1. st = Lifecycle!ServerSteps[Lifecycle!Last]
        BY <3>3, <3>t, LifecycleSteps, StepFacts DEF GoLive, At, ShapeOK, StatusOK
      <4>2. QED
        BY <3>3, <3>t, <4>1 DEF GoLive, Lifecycle!Next, Lifecycle!Succeed, Lifecycle!Move
    <3>4. CASE Fail(t)
      BY <3>4, <3>t DEF Fail, At, ShapeOK, StatusOK, SetInstallStatus,
                        Lifecycle!Next, Lifecycle!FailStep, Lifecycle!Move
    <3>5. CASE installStatus' = installStatus
      BY <3>5
    <3>6. QED
      BY <2>1, <3>1, <3>2, <3>3, <3>4, <3>5
         DEF TaskStep, TakeJob, PublishEdits, Connect, RestoreLastBuild, RunStep,
             CreateBuild, BuildSite, SwapOut, SwapIn, RecordBuild, Release
  <2>2. CASE installStatus' = installStatus
    BY <2>2
  <2>3. QED
    BY <2>1, <2>2
       DEF Next, RequestInline, RequestQueued, SaveEdits, SweepRebuild, Rollback,
           SweepStart, SweepSkip, Archive, Crash, vars
<1>3. QED
  BY <1>1, <1>2, Invariance, PTL DEF Spec, LifecycleSpec, Lifecycle!Spec

=============================================================================
