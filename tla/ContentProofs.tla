---------------------------- MODULE ContentProofs ----------------------------
(***************************************************************************)
(* What is proved of a site's document, for any documents, editors, saves, *)
(* builds and requests on their way: its edits (ContentEdits), the checks  *)
(* it passes on its way to its visitors (PublishGate), who may edit it     *)
(* (EditorKeys), and the two pages of the dashboard that show and write it *)
(* (RecordPage, Wizard).  Each part has the inductive invariant of its own *)
(* view: IInv, GateInv, KeyInv, RecordInv, WizardInv.                      *)
(***************************************************************************)
EXTENDS MCContent, TLAPS, WellFoundedInduction

(* A job under way holds the lock, so there is one at most. *)
LockInv ==
  /\ \A j \in Job : job[j].pc # "idle" => running
  /\ \A j, k \in Job : job[j].pc # "idle" /\ job[k].pc # "idle" => j = k

(* A promise is about the current value. *)
PromiseInv == \A f \in Field : promised[f] # 0 => promised[f] = params[f]

(* What a job builds or deploys is at least as new as any build and as what *)
(* is served.                                                              *)
VersionInv ==
  /\ release <= version /\ \A b \in artifacts : b.version <= version
  /\ \A j \in Job : job[j].pc \in {"build", "deploy"} =>
       /\ job[j].version <= version /\ release <= job[j].version
       /\ \A b \in artifacts : b.version <= job[j].version

IInv == TypeOK /\ LockInv /\ PromiseInv /\ VersionInv /\ PromiseAccounted

-----------------------------------------------------------------------------
LEMMA IdleRecords == IdleEditor \in EditorRecord /\ IdleJob \in JobRecord /\ Blank \in Content
<1>1. (CHOOSE f \in Field : TRUE) \in Field  BY EditAssumption
<1>2. Blank \in Content  BY DEF Blank, Content
<1>3. IdleJob \in JobRecord  BY <1>2 DEF IdleJob, JobRecord, JobKind
<1> QED  BY <1>1, <1>2, <1>3 DEF IdleEditor, EditorRecord

LEMMA InitInv == Init => IInv
<1> SUFFICES ASSUME Init PROVE IInv
  OBVIOUS
<1>1. Blank \in Content /\ \A f \in Field : Blank[f] = 0
  BY DEF Blank, Content
<1>2. TypeOK
  <2>1. [content |-> Blank, version |-> 0] \in Artifact  BY <1>1 DEF Artifact
  <2>2. editor \in [Editor -> EditorRecord] /\ job \in [Job -> JobRecord]
    BY IdleRecords DEF Init
  <2> QED BY <1>1, <2>1, <2>2 DEF Init, TypeOK
<1>3. LockInv /\ VersionInv
  BY DEF Init, LockInv, VersionInv, IdleJob
<1>4. PromiseInv /\ PromiseAccounted
  BY <1>1 DEF Init, PromiseInv, PromiseAccounted
<1> QED BY <1>2, <1>3, <1>4 DEF IInv

(* Where neither the jobs nor what is served change, promises stay on their *)
(* way.                                                                    *)
LEMMA SameWay ==
  ASSUME NEW f \in Field, UNCHANGED <<job, served>>, promised'[f] = promised[f]
  PROVE  OnItsWay(f)' <=> OnItsWay(f)
BY DEF OnItsWay, Brings

(* Steps of the saves: parameters and promises change, no job does.        *)
LEMMA EditInv ==
  ASSUME IInv, NEW e \in Editor, WriteParams(e) \/ \E f \in Field, own \in BOOLEAN : ReadSite(e, f, own)
  PROVE  IInv'
<1>1. CASE \E f \in Field, own \in BOOLEAN : ReadSite(e, f, own)
  <2>1. PICK f \in Field, own \in BOOLEAN : ReadSite(e, f, own)
    BY <1>1
  <2>2. /\ UNCHANGED <<params, version, live, served, release, artifacts, running, job, promised, lost>>
        /\ edits' \in Nat /\ (own /\ live) \in BOOLEAN
    BY <2>1 DEF ReadSite, IInv, TypeOK
  <2>3. TypeOK'
    <3>1. [pc |-> "write", field |-> f, value |-> edits', snap |-> params, publishes |-> own /\ live]
            \in EditorRecord
      BY <2>2 DEF EditorRecord, IInv, TypeOK
    <3> QED BY <2>1, <2>2, <3>1 DEF ReadSite, IInv, TypeOK
  <2>4. PromiseAccounted'
    BY <2>2, SameWay DEF IInv, PromiseAccounted
  <2> QED BY <2>2, <2>3, <2>4 DEF IInv, LockInv, PromiseInv, VersionInv
<1>2. CASE WriteParams(e)
  <2>1. /\ UNCHANGED <<live, served, release, artifacts, running, job, edits>>
        /\ version' = version + 1
    BY <1>2 DEF WriteParams
  <2>2. params' \in Content
    BY <1>2 DEF WriteParams, Merged, IInv, TypeOK, Content, EditorRecord
  <2>3. /\ promised' \in Content
        /\ \A f \in Field : promised'[f] # 0 => promised'[f] = promised[f] /\ promised'[f] = params'[f]
    BY <1>2, <2>2 DEF WriteParams, IInv, TypeOK, Content
  <2>4. TypeOK'
    <3>1. editor' \in [Editor -> EditorRecord]
      BY <1>2, IdleRecords DEF WriteParams, IInv, TypeOK, EditorRecord
    <3>2. lost' \subseteq Field  BY <1>2 DEF WriteParams, IInv, TypeOK
    <3> QED BY <2>1, <2>2, <2>3, <3>1, <3>2 DEF IInv, TypeOK
  <2>5. LockInv' /\ VersionInv'
    BY <2>1 DEF IInv, TypeOK, Artifact, JobRecord, LockInv, VersionInv
  <2>6. PromiseInv'  BY <2>3 DEF PromiseInv
  <2>7. PromiseAccounted'
    <3> SUFFICES ASSUME NEW f \in Field, promised'[f] # 0, f \notin lost' PROVE OnItsWay(f)'
      BY DEF PromiseAccounted
    <3>1. promised'[f] = promised[f] /\ f \notin lost  BY <1>2, <2>3 DEF WriteParams
    <3> QED BY <2>1, <3>1, SameWay DEF IInv, PromiseAccounted
  <2> QED BY <2>4, <2>5, <2>6, <2>7 DEF IInv
<1> QED BY <1>1, <1>2

(* A job starts under the free lock and has read nothing yet. *)
LEMMA StartKeeps ==
  ASSUME TypeOK, LockInv, NotRunning, NEW j \in Job, NEW kind \in JobKind, StartJob(j, kind)
  PROVE  /\ job' \in [Job -> JobRecord] /\ running' \in BOOLEAN
         /\ LockInv'
         /\ job'[j].pc = "read" /\ job'[j].kind = kind
         /\ \A k \in Job : job[k].pc = "idle" /\ job'[k].pc \notin {"build", "deploy"}
<1>1. \A k \in Job : job[k].pc = "idle"
  BY DEF LockInv, NotRunning
<1> DEFINE r == [IdleJob EXCEPT !.pc = "read", !.kind = kind]
<1>2. r \in JobRecord /\ r.pc = "read" /\ r.kind = kind
  BY IdleRecords DEF IdleJob, JobRecord
<1> HIDE DEF r
<1>3. /\ job' \in [Job -> JobRecord] /\ running' = TRUE /\ job'[j] = r
      /\ \A k \in Job : job'[k].pc = IF k = j THEN "read" ELSE job[k].pc
  BY <1>2 DEF StartJob, TypeOK, r
<1>4. LockInv'
  BY <1>1, <1>3 DEF LockInv
<1> QED BY <1>1, <1>2, <1>3, <1>4

LEMMA PublishInv ==
  ASSUME IInv, NEW e \in Editor, Publish(e)
  PROVE  IInv'
<1> DEFINE g == editor[e].field
           now == params[g] = editor[e].value
           danger == IF now THEN {g} ELSE {}
<1>1. /\ UNCHANGED <<params, version, live, served, release, artifacts, edits>>
      /\ promised' = [promised EXCEPT ![g] = IF now THEN editor[e].value ELSE @]
      /\ editor' = [editor EXCEPT ![e] = IdleEditor]
      /\ LoseAmong(danger)
      /\ \/ NotRunning /\ \E j \in Job : StartJob(j, "rebuild")
         \/ ~NotRunning /\ UNCHANGED <<running, job>>
  BY DEF Publish
<1>2. g \in Field /\ promised' \in Content /\ editor[e].value \in Nat
  BY <1>1 DEF IInv, TypeOK, Content, EditorRecord
<1>3. /\ \A f \in Field : promised'[f] # 0 => promised'[f] = params'[f]
      /\ \A f \in Field : f \notin danger => promised'[f] = promised[f]
  BY <1>1, <1>2 DEF IInv, TypeOK, Content, PromiseInv
<1>4. editor' \in [Editor -> EditorRecord]
  BY <1>1, IdleRecords DEF IInv, TypeOK
<1>5. lost' = {f \in lost \cup danger : ~OnItsWay(f)'} /\ danger \subseteq Field
  BY <1>1, <1>2 DEF LoseAmong
<1> HIDE DEF danger
<1>6. ASSUME NotRunning, NEW j \in Job, StartJob(j, "rebuild")
      PROVE  IInv'
  <2>1. /\ job' \in [Job -> JobRecord] /\ running' \in BOOLEAN
        /\ LockInv'
        /\ job'[j].pc = "read" /\ job'[j].kind = "rebuild"
        /\ \A k \in Job : job[k].pc = "idle" /\ job'[k].pc \notin {"build", "deploy"}
    BY <1>6, StartKeeps DEF IInv, JobKind
  <2>2. TypeOK'
    BY <1>1, <1>2, <1>4, <1>5, <2>1 DEF IInv, TypeOK
  <2>3. VersionInv'
    BY <1>1, <2>1 DEF IInv, VersionInv
  <2>4. PromiseInv' /\ PromiseAccounted'
    BY <1>3, <2>1 DEF PromiseInv, PromiseAccounted, OnItsWay, Brings
  <2> QED BY <2>1, <2>2, <2>3, <2>4 DEF IInv
<1>7. ASSUME UNCHANGED <<running, job>>
      PROVE  IInv'
  <2>1. TypeOK' /\ LockInv' /\ VersionInv'
    BY <1>1, <1>2, <1>4, <1>5, <1>7 DEF IInv, TypeOK, LockInv, VersionInv
  <2>2. PromiseInv'
    BY <1>3 DEF PromiseInv
  <2>3. PromiseAccounted'
    <3> SUFFICES ASSUME NEW f \in Field, promised'[f] # 0, ~OnItsWay(f)' PROVE f \in lost \cup danger
      BY <1>5 DEF PromiseAccounted
    <3>1. f \notin danger => ~OnItsWay(f) /\ promised[f] # 0  BY <1>1, <1>3, <1>7, SameWay
    <3> QED BY <3>1 DEF IInv, PromiseAccounted
  <2> QED BY <2>1, <2>2, <2>3 DEF IInv
<1> QED BY <1>1, <1>6, <1>7

LEMMA OtherJobInv ==
  ASSUME IInv, NEW j \in Job, NEW kind \in JobKind, OtherJob(j, kind)
  PROVE  IInv'
<1>1. UNCHANGED <<params, version, live, served, release, artifacts, editor, promised, lost, edits>>
  BY DEF OtherJob
<1>2. /\ job' \in [Job -> JobRecord] /\ running' \in BOOLEAN
      /\ LockInv'
      /\ \A k \in Job : job[k].pc = "idle" /\ job'[k].pc \notin {"build", "deploy"}
  BY StartKeeps DEF OtherJob, IInv
<1>3. TypeOK' /\ VersionInv' /\ PromiseInv'
  BY <1>1, <1>2 DEF IInv, TypeOK, VersionInv, PromiseInv
<1>4. PromiseAccounted'
  BY <1>1, <1>2 DEF IInv, PromiseAccounted, OnItsWay, Brings
<1> QED BY <1>2, <1>3, <1>4 DEF IInv

(* A promise not lost is what a job that has read the parameters has read. *)
LEMMA BroughtByAll ==
  ASSUME IInv, NEW f \in Field, promised[f] # 0, f \notin lost,
         NEW j \in Job, job[j].pc \in {"build", "deploy"}
  PROVE  job[j].content[f] = promised[f]
<1>1. PICK k \in Job : Brings(k, f)  BY DEF IInv, PromiseAccounted, OnItsWay
<1>2. k = j  BY <1>1 DEF IInv, LockInv, Brings
<1> QED  BY <1>1, <1>2 DEF Brings

(* Steps of the one job under way. *)
LEMMA ReadParamsInv ==
  ASSUME IInv, NEW j \in Job, ReadParams(j)
  PROVE  IInv'
<1>0. TypeOK /\ LockInv /\ PromiseInv /\ VersionInv  BY DEF IInv
<1> DEFINE r == [job[j] EXCEPT !.pc = IF job[j].kind = "resume" THEN "rest" ELSE "build",
                               !.content = params, !.version = version]
<1>1. /\ UNCHANGED <<params, version, served, release, artifacts, running, editor, promised, lost, edits>>
      /\ live' \in BOOLEAN /\ job[j].pc = "read" /\ job' = [job EXCEPT ![j] = r]
  BY <1>0 DEF ReadParams, TypeOK
<1>2. /\ r \in JobRecord /\ r.content = params /\ r.version = version /\ r.pc \in {"rest", "build"}
      /\ job[j].kind # "resume" => r.pc = "build"
  BY <1>0 DEF TypeOK, JobRecord
<1> HIDE DEF r
<1>3. job' \in [Job -> JobRecord] /\ job'[j] = r /\ \A k \in Job : k # j => job'[k] = job[k]
  BY <1>0, <1>1, <1>2 DEF TypeOK
<1>4. \A k \in Job : job[k].pc # "idle" => k = j  BY <1>0, <1>1 DEF LockInv
<1>5. TypeOK' /\ LockInv' /\ PromiseInv'
  BY <1>0, <1>1, <1>2, <1>3, <1>4 DEF TypeOK, LockInv, PromiseInv
<1>6. VersionInv'
  BY <1>0, <1>1, <1>2, <1>3, <1>4 DEF VersionInv, TypeOK
<1>7. PromiseAccounted'
  <2> SUFFICES ASSUME NEW f \in Field, promised[f] # 0, f \notin lost PROVE OnItsWay(f)'
    BY <1>1 DEF PromiseAccounted
  <2>1. promised[f] = params[f] /\ OnItsWay(f)  BY <1>0 DEF PromiseInv, IInv, PromiseAccounted
  <2>2. CASE job[j].kind # "resume"
    <3>1. Brings(j, f)'  BY <1>1, <1>2, <1>3, <2>1, <2>2 DEF Brings
    <3> QED BY <3>1 DEF OnItsWay
  <2>3. CASE job[j].kind = "resume"
    <3>1. \A k \in Job : job'[k].pc \notin {"build", "deploy"} /\ ~Brings(k, f)
      BY <1>1, <1>3, <1>4, <2>3 DEF Brings, r
    <3> QED BY <1>1, <2>1, <3>1 DEF OnItsWay
  <2> QED BY <2>2, <2>3
<1> QED BY <1>5, <1>6, <1>7 DEF IInv

LEMMA DeployInv ==
  ASSUME IInv, NEW j \in Job, Build(j) \/ Deploy(j)
  PROVE  IInv'
<1>0. TypeOK /\ LockInv /\ PromiseInv /\ VersionInv  BY DEF IInv
<1>1. /\ UNCHANGED <<params, version, live, running, editor, promised, edits>>
      /\ job[j].pc \in {"build", "deploy"}
  BY DEF Build, Deploy
<1>2. \A k \in Job : job[k].pc # "idle" => k = j  BY <1>0, <1>1 DEF LockInv
<1>3. Built(j) \in Artifact /\ Built(j).content = job[j].content /\ Built(j).version = job[j].version
  BY <1>0 DEF Built, Artifact, TypeOK, JobRecord
<1>4. ASSUME NEW pc \in {"deploy", "rest"}, job' = [job EXCEPT ![j].pc = pc]
      PROVE  /\ job' \in [Job -> JobRecord] /\ LockInv'
             /\ job'[j].pc = pc /\ job'[j].content = job[j].content /\ job'[j].version = job[j].version
             /\ \A k \in Job : k # j => job'[k] = job[k]
  BY <1>0, <1>1, <1>2, <1>4 DEF TypeOK, JobRecord, LockInv
<1>5. CASE Build(j)
  <2>1. /\ UNCHANGED <<served, release, lost>> /\ artifacts' = artifacts \cup {Built(j)}
        /\ job[j].pc = "build" /\ job' = [job EXCEPT ![j].pc = "deploy"]
    BY <1>5 DEF Build
  <2>2. /\ job' \in [Job -> JobRecord] /\ LockInv'
        /\ job'[j].pc = "deploy" /\ job'[j].content = job[j].content /\ job'[j].version = job[j].version
        /\ \A k \in Job : k # j => job'[k] = job[k]
    BY <1>4, <2>1
  <2>3. TypeOK' /\ PromiseInv'
    BY <1>0, <1>1, <1>3, <2>1, <2>2 DEF TypeOK, PromiseInv
  <2>4. VersionInv'
    BY <1>0, <1>1, <1>2, <1>3, <2>1, <2>2 DEF VersionInv, TypeOK, JobRecord
  <2>5. PromiseAccounted'
    <3> SUFFICES ASSUME NEW f \in Field, promised[f] # 0, f \notin lost PROVE OnItsWay(f)'
      BY <1>1, <2>1 DEF PromiseAccounted
    <3>1. job[j].content[f] = promised[f]  BY <1>1, BroughtByAll
    <3>2. Brings(j, f)'  BY <1>1, <2>2, <3>1 DEF Brings
    <3> QED BY <3>2 DEF OnItsWay
  <2> QED BY <2>2, <2>3, <2>4, <2>5 DEF IInv
<1>6. CASE Deploy(j)
  <2>1. /\ artifacts' = artifacts /\ served' = job[j].content /\ release' = job[j].version
        /\ job' = [job EXCEPT ![j].pc = "rest"]
        /\ lost' = {f \in lost \cup {} : ~OnItsWay(f)'}
    BY <1>3, <1>6 DEF Deploy, Serve, LoseAmong
  <2>2. /\ job' \in [Job -> JobRecord] /\ LockInv'
        /\ job'[j].pc = "rest"
        /\ \A k \in Job : k # j => job'[k] = job[k]
    BY <1>4, <2>1
  <2>3. TypeOK' /\ PromiseInv'
    BY <1>0, <1>1, <2>1, <2>2 DEF TypeOK, PromiseInv, JobRecord
  <2>4. VersionInv'
    BY <1>0, <1>1, <1>2, <2>1, <2>2 DEF VersionInv
  <2>5. PromiseAccounted'
    <3> SUFFICES ASSUME NEW f \in Field, promised[f] # 0, f \notin lost PROVE OnItsWay(f)'
      BY <1>1, <2>1 DEF PromiseAccounted
    <3>1. served'[f] = promised'[f]  BY <1>1, <2>1, BroughtByAll
    <3>2. \A k \in Job : job'[k].pc \notin {"build", "deploy"}  BY <1>2, <2>2
    <3> QED BY <3>1, <3>2 DEF OnItsWay
  <2> QED BY <2>2, <2>3, <2>4, <2>5 DEF IInv
<1> QED BY <1>5, <1>6

LEMMA EndInv ==
  ASSUME IInv, NEW j \in Job, Finish(j) \/ JobFails(j)
  PROVE  IInv'
<1>0. TypeOK /\ LockInv /\ PromiseInv /\ VersionInv  BY DEF IInv
<1>1. /\ UNCHANGED <<params, version, served, release, artifacts, editor, promised, edits>>
      /\ job[j].pc # "idle" /\ EndJob(j) /\ live' \in BOOLEAN
  BY <1>0 DEF Finish, JobFails, TypeOK
<1>2. \A k \in Job : job[k].pc # "idle" => k = j  BY <1>0, <1>1 DEF LockInv
<1>3. /\ job' \in [Job -> JobRecord] /\ running' = FALSE
      /\ \A k \in Job : job'[k].pc = "idle"
  BY <1>0, <1>1, <1>2, IdleRecords DEF EndJob, TypeOK, IdleJob
<1>4. lost' \subseteq Field /\ (lost' = lost \/ lost' = {f \in lost \cup {g \in Field : Brings(j, g)} : ~OnItsWay(f)'})
  BY <1>0 DEF TypeOK, Finish, JobFails, LoseAmong
<1>5. TypeOK' /\ LockInv' /\ PromiseInv' /\ VersionInv'
  BY <1>0, <1>1, <1>3, <1>4 DEF TypeOK, LockInv, PromiseInv, VersionInv
<1>6. PromiseAccounted'
  <2> SUFFICES ASSUME NEW f \in Field, promised[f] # 0, ~OnItsWay(f)' PROVE f \in lost'
    BY <1>1 DEF PromiseAccounted
  <2>1. served[f] # promised[f]  BY <1>1, <1>3 DEF OnItsWay
  <2>2. f \in lost \/ \E k \in Job : Brings(k, f)  BY <2>1 DEF IInv, PromiseAccounted, OnItsWay
  <2>3. f \in lost \/ Brings(j, f)  BY <1>2, <2>2 DEF Brings
  <2>4. CASE Finish(j)  BY <2>3, <2>4 DEF Finish, Brings
  <2>5. CASE JobFails(j)  BY <2>3, <2>5 DEF JobFails, LoseAmong
  <2> QED BY <2>4, <2>5
<1> QED BY <1>5, <1>6 DEF IInv

LEMMA EditRollbackInv ==
  ASSUME IInv, NEW b \in artifacts, Rollback(b)
  PROVE  IInv'
<1>0. TypeOK /\ LockInv /\ PromiseInv /\ VersionInv  BY DEF IInv
<1>1. /\ UNCHANGED <<params, version, live, artifacts, running, editor, job, promised, edits>>
      /\ served' = b.content /\ release' = b.version
      /\ lost' = {f \in lost \cup {g \in Field : served[g] = promised[g]} : ~OnItsWay(f)'}
  BY DEF Rollback, Serve, LoseAmong
<1>2. b.content \in Content /\ b.version \in Nat  BY <1>0 DEF TypeOK, Artifact
<1>3. TypeOK' /\ LockInv' /\ PromiseInv' /\ VersionInv'
  BY <1>0, <1>1, <1>2 DEF TypeOK, LockInv, PromiseInv, VersionInv
<1>4. PromiseAccounted'
  <2> SUFFICES ASSUME NEW f \in Field, promised[f] # 0, ~OnItsWay(f)' PROVE f \in lost'
    BY <1>1 DEF PromiseAccounted
  <2>1. ~\E k \in Job : Brings(k, f)  BY <1>1 DEF OnItsWay, Brings
  <2>2. f \in lost \/ served[f] = promised[f]  BY <2>1 DEF IInv, PromiseAccounted, OnItsWay
  <2> QED BY <1>1, <2>2
<1> QED BY <1>3, <1>4 DEF IInv

LEMMA StepInv == IInv /\ [Next]_vars => IInv'
<1> SUFFICES ASSUME IInv, [Next]_vars PROVE IInv'
  OBVIOUS
<1>1. CASE UNCHANGED vars
  <2>1. PromiseAccounted'  BY <1>1, SameWay DEF vars, IInv, PromiseAccounted
  <2> QED BY <1>1, <2>1 DEF vars, IInv, TypeOK, LockInv, PromiseInv, VersionInv
<1> QED BY <1>1, EditInv, PublishInv, OtherJobInv, ReadParamsInv, DeployInv, EndInv, EditRollbackInv
        DEF Next, EditorStep, JobStep, RollsBack

LEMMA InvHolds == Spec => []IInv
BY InitInv, StepInv, PTL DEF Spec

-----------------------------------------------------------------------------
(* However saves, updates, rebuilds, installs and rollbacks overlap: what a *)
(* client was told is being published is served or under way, unless its    *)
(* own republication was refused, its job failed or a rollback undid it.   *)
THEOREM PromisesAreKept == Spec => []PromiseAccounted
<1>1. IInv => PromiseAccounted
  BY DEF IInv
<1> QED BY <1>1, InvHolds, PTL

(* But for rollbacks, no deployment replaces what is served by parameters   *)
(* read before it.                                                         *)
THEOREM NeverGoesBack == Spec => ServedNeverRegresses
<1>1. IInv /\ [Next]_vars => [RollsBack \/ release' >= release]_vars
  <2> SUFFICES ASSUME IInv, Next, ~RollsBack PROVE release' >= release
    OBVIOUS
  <2>0. release \in Nat
    BY DEF IInv, TypeOK
  <2>1. CASE \E j \in Job : Deploy(j)
    <3>1. PICK j \in Job : Deploy(j)
      BY <2>1
    <3>2. release' = job[j].version /\ job[j].pc = "deploy" /\ job[j].version \in Nat
      BY <3>1 DEF Deploy, Serve, Built, IInv, TypeOK, JobRecord
    <3> QED BY <2>0, <3>2 DEF IInv, VersionInv
  <2>2. CASE ~\E j \in Job : Deploy(j)
    <3>1. release' = release
      BY <2>2 DEF Next, EditorStep, JobStep, ReadSite, WriteParams, Publish, OtherJob, ReadParams, Build, Finish, JobFails
    <3> QED BY <2>0, <3>1
  <2> QED BY <2>1, <2>2
<1> QED BY <1>1, InvHolds, PTL DEF Spec, ServedNeverRegresses
-----------------------------------------------------------------------------
(* Functions defined over 0..N by recursion: there is one, and what each    *)
(* step preserves all of it has.                                            *)

LEMMA LeastNumber ==
  ASSUME NEW T \in SUBSET Nat, T # {}
  PROVE  \E x \in T : \A y \in T : x <= y
<1> DEFINE R == OpToRel(<, Nat)
<1>1. IsWellFoundedOn(R, Nat)  BY NatLessThanWellFounded
<1>2. \A x, y \in Nat : x < y => <<x, y>> \in R  BY DEF OpToRel
<1> HIDE DEF R
<1>3. \E x \in T : \A y \in T : ~(<<y, x>> \in R)  BY <1>1, WFMin
<1>4. PICK x \in T : \A y \in T : ~(<<y, x>> \in R)  BY <1>3
<1>5. ASSUME NEW y \in T PROVE x <= y
  <2>1. ~(y < x)  BY <1>2, <1>4, <1>5
  <2>2. x \in Nat /\ y \in Nat  BY <1>5
  <2> QED  BY <2>1, <2>2
<1> QED  BY <1>4, <1>5

LEMMA EveryNumber ==
  ASSUME NEW T \in SUBSET Nat, 0 \in T, \A n \in T : n + 1 \in T
  PROVE  Nat \subseteq T
<1> SUFFICES ASSUME Nat \ T # {} PROVE FALSE  OBVIOUS
<1>1. PICK x \in Nat \ T : \A y \in Nat \ T : x <= y  BY LeastNumber
<1>2. x - 1 \in Nat /\ (x - 1) + 1 = x  OBVIOUS
<1>3. x - 1 \in T  BY <1>1, <1>2
<1> QED  BY <1>1, <1>2, <1>3

IsFold(f, N, S, a, step) ==
  f \in [0..N -> S] /\ f[0] = a /\ \A n \in 1..N : f[n] = step[n][f[n - 1]]

LEMMA FoldExists ==
  ASSUME NEW N \in Nat, NEW S, NEW a \in S, NEW step \in [1..N -> [S -> S]]
  PROVE  \E f : IsFold(f, N, S, a, step)
<1> DEFINE Builds(n, f) == f[0] = a /\ \A i \in 1..n : i <= N => f[i] = step[i][f[i - 1]]
           T == {n \in Nat : \E f \in [0..n -> S] : Builds(n, f) \/ n > N}
<1>1. 0 \in T
  <2>1. [i \in 0..0 |-> a] \in [0..0 -> S] /\ Builds(0, [i \in 0..0 |-> a])  OBVIOUS
  <2> QED  BY <2>1
<1>2. ASSUME NEW n \in T PROVE n + 1 \in T
  <2>0. n \in Nat  BY <1>2
  <2>1. CASE n + 1 > N
    <3>1. [i \in 0..(n + 1) |-> a] \in [0..(n + 1) -> S]  OBVIOUS
    <3>2. n + 1 \in Nat  BY <2>0
    <3> HIDE DEF Builds
    <3> QED  BY <2>1, <3>1, <3>2
  <2>2. CASE n + 1 <= N
    <3>1. PICK f \in [0..n -> S] : Builds(n, f)  BY <1>2, <2>2
    <3> DEFINE g == [i \in 0..(n+1) |-> IF i = n + 1 THEN step[n+1][f[n]] ELSE f[i]]
    <3>2. n + 1 \in 1..N /\ n \in 0..n  BY <1>2, <2>2
    <3>3. step[n+1][f[n]] \in S  BY <3>2
    <3>4. g \in [0..(n+1) -> S]  BY <1>2, <3>3
    <3>5. g[0] = a  BY <3>1
    <3>6. ASSUME NEW i \in 1..(n+1) PROVE g[i] = step[i][g[i-1]]
      <4>1. CASE i = n + 1
        <5>1. g[i] = step[i][f[n]]  BY <4>1
        <5>2. g[i-1] = f[n]  BY <4>1
        <5> QED  BY <5>1, <5>2
      <4>2. CASE i \in 1..n
        <5>1. g[i] = f[i] /\ g[i-1] = f[i-1]  BY <4>2
        <5>2. i <= N  BY <2>2, <4>2
        <5> QED  BY <3>1, <4>2, <5>1, <5>2
      <4>3. i = n + 1 \/ i \in 1..n  BY <3>6
      <4> QED  BY <4>1, <4>2, <4>3
    <3> HIDE DEF g
    <3> QED  BY <3>4, <3>5, <3>6
  <2>3. n + 1 > N \/ n + 1 <= N  BY <1>2
  <2> QED  BY <2>1, <2>2, <2>3
<1> HIDE DEF T
<1>3. N \in T
  <2>1. T \in SUBSET Nat  BY DEF T
  <2> QED  BY <1>1, <1>2, <2>1, EveryNumber
<1> QED  BY <1>3 DEF T, IsFold

LEMMA FoldStays ==
  ASSUME NEW N \in Nat, NEW S, NEW f, f[0] \in S, \A n \in 1..N : f[n - 1] \in S => f[n] \in S
  PROVE  f[N] \in S
<1> DEFINE T == {n \in Nat : n <= N => f[n] \in S}
<1>1. 0 \in T  OBVIOUS
<1>2. ASSUME NEW n \in T PROVE n + 1 \in T
  <2>1. n + 1 \in Nat  BY <1>2
  <2>2. ASSUME n + 1 <= N PROVE f[n + 1] \in S
    <3>1. n + 1 \in 1..N /\ (n + 1) - 1 = n /\ n <= N  BY <1>2, <2>2
    <3>2. f[n] \in S  BY <1>2, <3>1
    <3> QED  BY <3>1, <3>2
  <2> QED  BY <2>1, <2>2
<1> HIDE DEF T
<1>3. N \in T
  <2>1. T \in SUBSET Nat  BY DEF T
  <2> QED  BY <1>1, <1>2, <2>1, EveryNumber
<1> QED  BY <1>3 DEF T

-----------------------------------------------------------------------------
(* The gate: each group of runPreflight's rules against its part of what    *)
(* the gate is for.                                                         *)

LEMMA ElementOf ==
  ASSUME NEW T, NEW s \in Seq(T), NEW i \in DOMAIN s
  PROVE  s[i] \in T
OBVIOUS

LEMMA LengthIsNat ==
  ASSUME NEW T, NEW s \in Seq(T)
  PROVE  Len(s) \in Nat
OBVIOUS

LEMMA LongRaises ==
  ASSUME NEW n \in Nat, NEW max \in Nat, NEW field, NEW what
  PROVE  Gate!Raise(n > max, field, what) = {} <=> n <= max
<1>1. n > max <=> ~(n <= max)  OBVIOUS
<1>2. CASE n <= max
  BY <1>1, <1>2 DEF Gate!Raise
<1>3. CASE ~(n <= max)
  BY <1>1, <1>3 DEF Gate!Raise
<1> QED  BY <1>2, <1>3

LEMMA DestinationClean ==
  ASSUME NEW d \in Document
  PROVE  /\ Gate!DestinationErrors(d) = {} <=> d.dest.kind = "https"
         /\ d.dest.kind = "https" => d.dest.host \in Host /\ Gate!HostOf(d.dest) = d.dest.host
<1>1. d.dest \in Url  BY DEF Document
<1>2. d.dest.kind \in {"none", "http", "https"}
  BY <1>1 DEF Url
<1>3. d.dest.kind # "none" => d.dest.host \in Host /\ Gate!HostOf(d.dest) = d.dest.host
  BY <1>1 DEF Url, Gate!HostOf
<1>4. d.dest.kind = "none" => Gate!HostOf(d.dest) = "null"
  BY DEF Gate!HostOf
<1>5. Gate!HostOf(d.dest) = "null" <=> d.dest.kind = "none"
  BY <1>2, <1>3, <1>4, GateAssumption
<1>6. Gate!DestinationErrors(d) = {} <=> Gate!HostOf(d.dest) # "null" /\ d.dest.kind # "http"
  BY DEF Gate!DestinationErrors, Gate!Raise
<1> QED  BY <1>2, <1>3, <1>5, <1>6

LEMMA OutboundClean ==
  ASSUME NEW d \in Document, d.dest.kind = "https", NEW url \in Url, NEW field
  PROVE  Gate!OutboundErrors(d, field, url) = {} <=>
           url.kind = "https" /\ url.host \in d.hosts \cup {d.dest.host}
<1>1. Gate!HostOf(d.dest) = d.dest.host /\ d.dest.host \in Host
  BY DestinationClean
<1>2. Gate!AllowedHosts(d) = d.hosts \cup {d.dest.host}
  <2>1. d.hosts \subseteq Host  BY DEF Document
  <2> QED  BY <1>1, <2>1, GateAssumption DEF Gate!AllowedHosts
<1>3. CASE url.kind = "none"
  BY <1>3 DEF Gate!OutboundErrors
<1>4. CASE url.kind = "http"
  BY <1>4 DEF Gate!OutboundErrors
<1>5. CASE url.kind = "https"
  <2>1. Gate!HostOf(url) = url.host  BY <1>5 DEF Gate!HostOf
  <2>2. Gate!OutboundErrors(d, field, url)
          = Gate!Raise(Gate!HostOf(d.dest) # "null" /\ Gate!HostOf(url) \notin Gate!AllowedHosts(d),
                       field, "off-destination")
    BY <1>5 DEF Gate!OutboundErrors
  <2>3. Gate!HostOf(d.dest) # "null"  BY <1>1, GateAssumption
  <2> QED  BY <1>2, <1>5, <2>1, <2>2, <2>3 DEF Gate!Raise
<1> QED  BY <1>3, <1>4, <1>5 DEF Url

(* What a product, and an offer of it, must be. *)
SafeUrl(d, u) == u.kind = "https" /\ u.host \in d.hosts \cup {d.dest.host}
SafeOffers(d, offers) ==
  /\ \A j \in DOMAIN offers : SafeUrl(d, offers[j].url) /\ offers[j].named
  /\ Len(offers) <= MaxOffers
SafeProducts(d) ==
  /\ \A i \in DOMAIN d.products :
       SafeUrl(d, d.products[i].url) /\ SafeOffers(d, d.products[i].offers)
  /\ Len(d.products) <= MaxProducts

LEMMA OffersClean ==
  ASSUME NEW d \in Document, d.dest.kind = "https", NEW i \in DOMAIN d.products
  PROVE  Gate!OfferErrors(d, i) = {} <=> SafeOffers(d, d.products[i].offers)
<1> DEFINE offers == d.products[i].offers
           ErrorsAt(j) == Gate!Raise(~offers[j].named, <<i, j, "store_name">>, "required")
                            \cup Gate!OutboundErrors(d, <<i, j, "target_url">>, offers[j].url)
<1>1. offers \in Seq(Offered)
  <2>1. d.products \in Seq(Listed)  BY DEF Document
  <2>2. d.products[i] \in Listed  BY <2>1, ElementOf
  <2> QED  BY <2>2 DEF Listed
<1>2. Len(offers) \in Nat /\ MaxOffers \in Nat  BY <1>1, LengthIsNat, GateAssumption
<1>3. Gate!OfferErrors(d, i) = {} <=>
        /\ \A j \in DOMAIN offers : ErrorsAt(j) = {}
        /\ Gate!Raise(Len(offers) > MaxOffers, <<i, "offers">>, "too many") = {}
  <2> HIDE DEF ErrorsAt, offers
  <2>1. Gate!OfferErrors(d, i)
          = (UNION {ErrorsAt(j) : j \in DOMAIN offers})
              \cup Gate!Raise(Len(offers) > MaxOffers, <<i, "offers">>, "too many")
    BY DEF Gate!OfferErrors, ErrorsAt, offers
  <2>2. UNION {ErrorsAt(j) : j \in DOMAIN offers} = {} <=> \A j \in DOMAIN offers : ErrorsAt(j) = {}
    OBVIOUS
  <2>3. Gate!OfferErrors(d, i) = {} <=>
          /\ UNION {ErrorsAt(j) : j \in DOMAIN offers} = {}
          /\ Gate!Raise(Len(offers) > MaxOffers, <<i, "offers">>, "too many") = {}
    BY <2>1
  <2> QED  BY <2>2, <2>3, Zenon
<1>4. ASSUME NEW j \in DOMAIN offers
      PROVE  ErrorsAt(j) = {} <=> SafeUrl(d, offers[j].url) /\ offers[j].named
  <2>1. offers[j] \in Offered  BY <1>1, <1>4, ElementOf
  <2>2. offers[j].url \in Url /\ offers[j].named \in BOOLEAN  BY <2>1 DEF Offered
  <2>3. Gate!Raise(~offers[j].named, <<i, j, "store_name">>, "required") = {} <=> offers[j].named
    BY <2>2 DEF Gate!Raise
  <2>4. Gate!OutboundErrors(d, <<i, j, "target_url">>, offers[j].url) = {} <=> SafeUrl(d, offers[j].url)
    BY <2>2, OutboundClean DEF SafeUrl
  <2> QED  BY <2>3, <2>4
<1>5. Gate!Raise(Len(offers) > MaxOffers, <<i, "offers">>, "too many") = {} <=> Len(offers) <= MaxOffers
  BY <1>2, LongRaises
<1> HIDE DEF ErrorsAt
<1> QED  BY <1>3, <1>4, <1>5 DEF SafeOffers

LEMMA ProductsClean ==
  ASSUME NEW d \in Document, d.dest.kind = "https"
  PROVE  Gate!ProductErrors(d) = {} <=> SafeProducts(d)
<1> DEFINE ErrorsAt(i) == Gate!OutboundErrors(d, <<i, "target_url">>, d.products[i].url)
                            \cup Gate!OfferErrors(d, i)
<1>1. d.products \in Seq(Listed)  BY DEF Document
<1>2. Len(d.products) \in Nat /\ MaxProducts \in Nat  BY <1>1, LengthIsNat, GateAssumption
<1>3. Gate!ProductErrors(d) = {} <=>
        /\ \A i \in DOMAIN d.products : ErrorsAt(i) = {}
        /\ Gate!Raise(Len(d.products) > MaxProducts, <<"products">>, "too many") = {}
  <2> HIDE DEF ErrorsAt
  <2>1. Gate!ProductErrors(d)
          = (UNION {ErrorsAt(i) : i \in DOMAIN d.products})
              \cup Gate!Raise(Len(d.products) > MaxProducts, <<"products">>, "too many")
    BY DEF Gate!ProductErrors, ErrorsAt
  <2>2. UNION {ErrorsAt(i) : i \in DOMAIN d.products} = {} <=> \A i \in DOMAIN d.products : ErrorsAt(i) = {}
    OBVIOUS
  <2>3. Gate!ProductErrors(d) = {} <=>
          /\ UNION {ErrorsAt(i) : i \in DOMAIN d.products} = {}
          /\ Gate!Raise(Len(d.products) > MaxProducts, <<"products">>, "too many") = {}
    BY <2>1
  <2> QED  BY <2>2, <2>3, Zenon
<1>4. ASSUME NEW i \in DOMAIN d.products
      PROVE  ErrorsAt(i) = {} <=>
               SafeUrl(d, d.products[i].url) /\ SafeOffers(d, d.products[i].offers)
  <2>1. d.products[i].url \in Url
    <3>1. d.products[i] \in Listed  BY <1>1, <1>4, ElementOf
    <3> QED  BY <3>1 DEF Listed
  <2>2. Gate!OutboundErrors(d, <<i, "target_url">>, d.products[i].url) = {} <=> SafeUrl(d, d.products[i].url)
    BY <2>1, OutboundClean DEF SafeUrl
  <2>3. Gate!OfferErrors(d, i) = {} <=> SafeOffers(d, d.products[i].offers)
    BY <1>4, OffersClean
  <2> QED  BY <2>2, <2>3
<1>5. Gate!Raise(Len(d.products) > MaxProducts, <<"products">>, "too many") = {}
        <=> Len(d.products) <= MaxProducts
  BY <1>2, LongRaises
<1> HIDE DEF ErrorsAt
<1> QED  BY <1>3, <1>4, <1>5 DEF SafeProducts

LEMMA TextsClean ==
  ASSUME NEW d \in Document
  PROVE  /\ Gate!TrustErrors(d) = {} <=>
              /\ \A f \in Gate!Trust : d.text[f] # 0
              /\ d.text["contact_email"] > 0 => d.email
         /\ Gate!LegalErrors(d) = {} <=>
              /\ d.text["privacy_policy_md"] >= MinPrivacy
              /\ d.text["terms_md"] # 0
              /\ Gate!NeedsDisclosure(d.category) => d.text["affiliate_disclosure_md"] # 0
         /\ Gate!ClaimErrors(d) = {} <=> Gate!NoClaim \notin {d.claims[i] : i \in DOMAIN d.claims}
         /\ Gate!SchemaErrors(d, {}) = {} <=>
              /\ \A f \in Required : d.text[f] # 0
              /\ \A f \in Gate!Text : Gate!BlockOf(f) \in Walked =>
                   MaxLength[f] = 0 \/ d.text[f] <= MaxLength[f]
<1>1. d.text \in [Text -> Nat] /\ d.email \in BOOLEAN  BY DEF Document
<1>2. \A f \in Text : d.text[f] \in Nat /\ MaxLength[f] \in Nat  BY <1>1, GateAssumption
<1>3. {"contact_email", "privacy_policy_md", "terms_md", "affiliate_disclosure_md"} \subseteq Text
  BY DEF Text, Trust, Legal
<1>4. Gate!Text = Text
  BY DEF Gate!Text, Gate!Trust, Gate!Legal, Gate!Seo, Gate!Custom, Text, Trust, Legal, Seo, Custom
<1>5. Gate!TrustErrors(d) = {} <=>
        /\ \A f \in Gate!Trust : d.text[f] # 0
        /\ d.text["contact_email"] > 0 => d.email
  <2> DEFINE BlankAt(f) == Gate!Raise(d.text[f] = 0, <<f>>, "required")
             Malformed  == Gate!Raise(d.text["contact_email"] > 0 /\ ~d.email, <<"contact_email">>, "invalid")
  <2>1. Gate!TrustErrors(d) = (UNION {BlankAt(f) : f \in Gate!Trust}) \cup Malformed
    BY DEF Gate!TrustErrors
  <2>2. \A f : BlankAt(f) = {} <=> d.text[f] # 0
    BY DEF Gate!Raise
  <2>3. Malformed = {} <=> (d.text["contact_email"] > 0 => d.email)
    BY DEF Gate!Raise
  <2> HIDE DEF BlankAt, Malformed
  <2>4. UNION {BlankAt(f) : f \in Gate!Trust} = {} <=> \A f \in Gate!Trust : BlankAt(f) = {}
    OBVIOUS
  <2>5. Gate!TrustErrors(d) = {} <=>
          UNION {BlankAt(f) : f \in Gate!Trust} = {} /\ Malformed = {}
    BY <2>1
  <2> QED  BY <2>2, <2>3, <2>4, <2>5, Zenon
<1>6. Gate!LegalErrors(d) = {} <=>
        /\ d.text["privacy_policy_md"] >= MinPrivacy
        /\ d.text["terms_md"] # 0
        /\ Gate!NeedsDisclosure(d.category) => d.text["affiliate_disclosure_md"] # 0
  <2>1. d.text["privacy_policy_md"] \in Nat /\ MinPrivacy \in Nat  BY <1>2, <1>3, GateAssumption
  <2> QED  BY <2>1 DEF Gate!LegalErrors, Gate!Raise
<1>7. Gate!ClaimErrors(d) = {} <=> Gate!NoClaim \notin {d.claims[i] : i \in DOMAIN d.claims}
  BY DEF Gate!ClaimErrors, Gate!Raise
<1>8. Gate!SchemaErrors(d, {}) = {} <=>
        /\ \A f \in Required : d.text[f] # 0
        /\ \A f \in Text : Gate!BlockOf(f) \in Walked => MaxLength[f] = 0 \/ d.text[f] <= MaxLength[f]
  <2> DEFINE walked == {f \in Text : Gate!BlockOf(f) \in Walked}
             BlankAt(f) == Gate!Raise(d.text[f] = 0 /\ \A e \in {} : e.field # <<f>>, <<f>>, "required")
             LongAt(f)  == Gate!Raise(MaxLength[f] > 0 /\ d.text[f] > MaxLength[f], <<f>>, "long")
  <2>1. Gate!SchemaErrors(d, {})
          = (UNION {BlankAt(f) : f \in Required}) \cup UNION {LongAt(f) : f \in walked}
    BY <1>4 DEF Gate!SchemaErrors
  <2>2. \A f : BlankAt(f) = {} <=> d.text[f] # 0
    BY DEF Gate!Raise
  <2>3. \A f \in Text : LongAt(f) = {} <=> MaxLength[f] = 0 \/ d.text[f] <= MaxLength[f]
    BY <1>2 DEF Gate!Raise
  <2> HIDE DEF BlankAt, LongAt
  <2>4. UNION {BlankAt(f) : f \in Required} = {} <=> \A f \in Required : BlankAt(f) = {}
    OBVIOUS
  <2>5. UNION {LongAt(f) : f \in walked} = {} <=> \A f \in Text : Gate!BlockOf(f) \in Walked => LongAt(f) = {}
    OBVIOUS
  <2>6. Gate!SchemaErrors(d, {}) = {} <=>
          UNION {BlankAt(f) : f \in Required} = {} /\ UNION {LongAt(f) : f \in walked} = {}
    BY <2>1
  <2> QED  BY <2>2, <2>3, <2>4, <2>5, <2>6, Zenon
<1> QED  BY <1>4, <1>5, <1>6, <1>7, <1>8

LEMMA GateLetsThrough ==
  ASSUME NEW d \in Document
  PROVE  Gate!Passes(d) <=> Gate!Compliant(d)
<1> DEFINE found == Gate!DestinationErrors(d) \cup Gate!TrustErrors(d) \cup Gate!LegalErrors(d)
                      \cup Gate!ProductErrors(d) \cup Gate!ClaimErrors(d)
<1>1. Gate!Passes(d) <=> found = {} /\ Gate!SchemaErrors(d, {}) = {}
  <2>1. Gate!RunPreflight(d) = found \cup Gate!SchemaErrors(d, found)
    BY DEF Gate!RunPreflight
  <2> HIDE DEF found
  <2> QED  BY <2>1 DEF Gate!Passes
<1>2. found = {} <=>
        /\ Gate!DestinationErrors(d) = {} /\ Gate!TrustErrors(d) = {} /\ Gate!LegalErrors(d) = {}
        /\ Gate!ProductErrors(d) = {} /\ Gate!ClaimErrors(d) = {}
  OBVIOUS
<1> HIDE DEF found
<1>3. Gate!DestinationErrors(d) = {} <=> d.dest.kind = "https"  BY DestinationClean
<1>4. (\A u \in Gate!Outbound(d) \cup {d.dest} :
         Gate!IsHttps(u) /\ u.host \in d.hosts \cup {d.dest.host})
      <=> /\ d.dest.kind = "https"
          /\ \A i \in DOMAIN d.products :
               /\ SafeUrl(d, d.products[i].url)
               /\ \A j \in DOMAIN d.products[i].offers : SafeUrl(d, d.products[i].offers[j].url)
  BY DEF Gate!Outbound, Gate!IsHttps, SafeUrl
<1>5. d.dest.kind = "https" => (Gate!ProductErrors(d) = {} <=> SafeProducts(d))
  BY ProductsClean
<1>6. d.text["contact_email"] \in Nat /\ "contact_email" \in Gate!Trust
  BY DEF Document, Text, Trust, Gate!Trust
<1>7. Gate!TrustErrors(d) = {} <=> (\A f \in Gate!Trust : d.text[f] # 0) /\ d.email
  BY <1>6, TextsClean
<1>8. Gate!Compliant(d) <=>
        /\ d.dest.kind = "https" /\ SafeProducts(d)
        /\ (\A f \in Gate!Trust : d.text[f] # 0) /\ d.email
        /\ d.text["terms_md"] # 0
        /\ \A f \in Required : d.text[f] # 0
        /\ d.text["privacy_policy_md"] >= MinPrivacy
        /\ Gate!NeedsDisclosure(d.category) => d.text["affiliate_disclosure_md"] # 0
        /\ \A f \in Gate!Text : Gate!BlockOf(f) \in Walked => MaxLength[f] = 0 \/ d.text[f] <= MaxLength[f]
        /\ Gate!NoClaim \notin {d.claims[i] : i \in DOMAIN d.claims}
  <2>1. SafeProducts(d) <=>
          /\ \A i \in DOMAIN d.products :
               /\ SafeUrl(d, d.products[i].url)
               /\ \A j \in DOMAIN d.products[i].offers : SafeUrl(d, d.products[i].offers[j].url)
          /\ Len(d.products) <= MaxProducts
          /\ \A i \in DOMAIN d.products :
               /\ Len(d.products[i].offers) <= MaxOffers
               /\ \A j \in DOMAIN d.products[i].offers : d.products[i].offers[j].named
    BY DEF SafeProducts, SafeOffers
  <2>2. (\A f \in Gate!Trust \cup Required \cup {"terms_md"} : d.text[f] # 0) <=>
          /\ \A f \in Gate!Trust : d.text[f] # 0
          /\ \A f \in Required : d.text[f] # 0
          /\ d.text["terms_md"] # 0
    OBVIOUS
  <2> QED  BY <1>4, <2>1, <2>2, Zenon DEF Gate!Compliant
<1> QED  BY <1>1, <1>2, <1>3, <1>5, <1>7, <1>8, TextsClean

-----------------------------------------------------------------------------
(* From the check to the visitors.                                          *)

Documents == Draft \cup Deployed
FullInstall == {"preflight", "deploying_files"}
HasBuilt == {"deploy", "injecting_tracking", "verifying", "live"}

GateShape ==
  /\ site \in Documents
  /\ builds \in Seq([doc : Documents, page : UNION {Gate!RenderedPages(d) : d \in Documents}])
  /\ docroot \in 0..Len(builds)
  /\ published \in BOOLEAN
  /\ install \in {Gate!Nobody} \cup
       [kind : {"install", "rebuild"}, from : Gate!Step,
        pc : {"preflight", "resume", "build"} \cup HasBuilt,
        doc : Documents, build : 0..Len(builds), raced : BOOLEAN]

(* A job starts at the check or behind it, and only what resumes behind the *)
(* build looks at a build it has not made.                                  *)
EntryInv ==
  install # Gate!Nobody =>
    /\ install.pc = "preflight" => install.from = "preflight"
    /\ install.pc = "resume" => install.from \notin FullInstall
    /\ install.pc \in HasBuilt <=> install.build # 0
    /\ install.from = "preflight" /\ install.pc # "preflight" => Gate!Passes(install.doc)

(* What a job has built is what it has read, and stands in front of the     *)
(* visitors until somebody rolls back.                                      *)
OwnBuildInv ==
  install # Gate!Nobody /\ install.from \in FullInstall =>
    /\ install.build # 0 => builds[install.build].doc = install.doc
    /\ install.pc \in {"injecting_tracking", "verifying", "live"} /\ ~install.raced =>
         docroot = install.build
    /\ install.pc \in {"verifying", "live"} =>
         Gate!MissingIn(builds[install.build].page, install.doc) = {}

(* The last step looked at what the visitors see. *)
SeenInv ==
  install # Gate!Nobody /\ install.pc = "live" /\ ~install.raced =>
    Gate!ClaimsOf(install.doc) \cup Gate!PagesOf(install.doc) \subseteq builds[docroot].page

GateInv == GateShape /\ EntryInv /\ OwnBuildInv /\ SeenInv

LEMMA JobFields ==
  ASSUME GateShape, install.pc # "idle"
  PROVE  /\ install # Gate!Nobody
         /\ install \in [kind : {"install", "rebuild"}, from : Gate!Step,
                         pc : {"preflight", "resume", "build"} \cup HasBuilt,
                         doc : Documents, build : 0..Len(builds), raced : BOOLEAN]
BY DEF GateShape, Gate!Nobody

LEMMA JobIsSomebody ==
  ASSUME NEW j, j.pc \in {"preflight", "resume", "build"} \cup HasBuilt
  PROVE  j # Gate!Nobody
BY DEF Gate!Nobody, HasBuilt

LEMMA NewJobInv ==
  ASSUME GateInv, NEW kind \in {"install", "rebuild"}, NEW from \in Gate!Step,
         NEW pc \in {"preflight", "resume", "build"},
         pc = "preflight" <=> from = "preflight", pc = "resume" <=> from \notin FullInstall,
         install' = Gate!NewJob(kind, from, pc, site),
         published' \in BOOLEAN, UNCHANGED <<site, builds, docroot>>
  PROVE  GateInv'
<1>1. /\ install' = [kind |-> kind, from |-> from, pc |-> pc, doc |-> site, build |-> 0, raced |-> FALSE]
  BY DEF Gate!NewJob, Gate!NoBuild
<1>2. 0 \in 0..Len(builds)
  <2>1. Len(builds) \in Nat  BY LengthIsNat DEF GateInv, GateShape
  <2> QED  BY <2>1
<1>3. GateShape'  BY <1>1, <1>2 DEF GateInv, GateShape
<1>4. EntryInv' /\ OwnBuildInv' /\ SeenInv'
  BY <1>1 DEF EntryInv, OwnBuildInv, SeenInv, HasBuilt, FullInstall
<1> QED  BY <1>3, <1>4 DEF GateInv

LEMMA RollbackInv ==
  ASSUME GateInv, NEW b \in DOMAIN builds, Gate!Rollback(b)
  PROVE  GateInv'
<1> USE DEF GateInv
<1>1. docroot' = b /\ UNCHANGED <<site, builds, published>> /\ b \in 0..Len(builds)
  <2>1. Len(builds) \in Nat /\ DOMAIN builds = 1..Len(builds)  BY LengthIsNat DEF GateShape
  <2> QED  BY <2>1 DEF Gate!Rollback
<1>2. CASE install = Gate!Nobody
  <2>1. install' = install  BY <1>2 DEF Gate!Rollback
  <2> QED  BY <1>1, <1>2, <2>1 DEF GateShape, EntryInv, OwnBuildInv, SeenInv
<1>3. CASE install # Gate!Nobody
  <2>1. install' = [install EXCEPT !.raced = TRUE]  BY <1>3 DEF Gate!Rollback
  <2>2. /\ install'.kind = install.kind /\ install'.from = install.from /\ install'.pc = install.pc
        /\ install'.doc = install.doc /\ install'.build = install.build /\ install'.raced = TRUE
    BY <1>3, <2>1 DEF GateShape
  <2>3. GateShape'  BY <1>1, <1>3, <2>1 DEF GateShape
  <2>4. EntryInv'   BY <1>1, <1>3, <2>2 DEF EntryInv
  <2>5. OwnBuildInv' /\ SeenInv'  BY <1>1, <1>3, <2>2 DEF OwnBuildInv, SeenInv
  <2> QED  BY <2>3, <2>4, <2>5
<1> QED  BY <1>2, <1>3

LEMMA BuildInv ==
  ASSUME GateInv, Gate!BuildSite
  PROVE  GateInv'
<1> USE DEF GateInv
<1>1. install.pc = "build"  BY DEF Gate!BuildSite, Gate!At
<1> DEFINE n == Len(builds)
<1>2. /\ install # Gate!Nobody
      /\ install \in [kind : {"install", "rebuild"}, from : Gate!Step,
                      pc : {"preflight", "resume", "build"} \cup HasBuilt,
                      doc : Documents, build : 0..n, raced : BOOLEAN]
  BY <1>1, JobFields
<1>3. n \in Nat  BY LengthIsNat DEF GateShape
<1>4. PICK p \in Gate!RenderedPages(install.doc) :
        builds' = Append(builds, [doc |-> install.doc, page |-> p])
  BY DEF Gate!BuildSite
<1>5. [doc |-> install.doc, page |-> p]
        \in [doc : Documents, page : UNION {Gate!RenderedPages(d) : d \in Documents}]
  BY <1>2, <1>4
<1>6. /\ builds' \in Seq([doc : Documents, page : UNION {Gate!RenderedPages(d) : d \in Documents}])
      /\ Len(builds') = n + 1 /\ builds'[n + 1] = [doc |-> install.doc, page |-> p]
  BY <1>3, <1>4, <1>5 DEF GateShape
<1>7. /\ install' = [install EXCEPT !.pc = "deploy", !.build = n + 1]
      /\ UNCHANGED <<site, docroot, published>>
  BY DEF Gate!BuildSite
<1>8. /\ install'.kind = install.kind /\ install'.from = install.from /\ install'.pc = "deploy"
      /\ install'.doc = install.doc /\ install'.build = n + 1 /\ install'.raced = install.raced
  BY <1>2, <1>7
<1>9. GateShape'
  <2>1. docroot \in 0..(n + 1)  BY <1>3 DEF GateShape
  <2>2. n + 1 \in 0..(n + 1)  BY <1>3
  <2>3. install' \in [kind : {"install", "rebuild"}, from : Gate!Step,
                      pc : {"preflight", "resume", "build"} \cup HasBuilt,
                      doc : Documents, build : 0..(n + 1), raced : BOOLEAN]
    BY <1>2, <1>7, <2>2 DEF HasBuilt
  <2> HIDE DEF n
  <2> QED  BY <1>6, <1>7, <2>1, <2>3 DEF GateShape
<1>10. EntryInv'  BY <1>1, <1>2, <1>3, <1>8 DEF EntryInv, HasBuilt
<1>11. OwnBuildInv'  BY <1>6, <1>8 DEF OwnBuildInv
<1>12. SeenInv'  BY <1>8 DEF SeenInv
<1> QED  BY <1>9, <1>10, <1>11, <1>12

(* The steps that only move the job on, and the deployment. *)
LEMMA ForwardInv ==
  ASSUME GateInv,
         \/ Gate!RunGate \/ Gate!Resume \/ Gate!Deploy
         \/ Gate!VerifyTracking \/ Gate!FinalVerify \/ Gate!GoLive
  PROVE  GateInv'
<1> USE DEF GateInv
<1>1. Len(builds) \in Nat  BY LengthIsNat DEF GateShape
<1>2. ASSUME NEW pc \in HasBuilt \cup {"build"}, NEW b \in 0..Len(builds), install.pc # "idle",
             install' = [install EXCEPT !.pc = pc, !.build = b]
      PROVE  /\ install # Gate!Nobody /\ install' # Gate!Nobody
             /\ install' \in [kind : {"install", "rebuild"}, from : Gate!Step,
                              pc : {"preflight", "resume", "build"} \cup HasBuilt,
                              doc : Documents, build : 0..Len(builds), raced : BOOLEAN]
             /\ install'.pc = pc /\ install'.build = b
             /\ install'.from = install.from /\ install'.doc = install.doc
             /\ install'.raced = install.raced
  BY <1>2, JobFields, JobIsSomebody
<1>3. ASSUME NEW pc, install' = [install EXCEPT !.pc = pc], install.pc # "idle"
      PROVE  install' = [install EXCEPT !.pc = pc, !.build = install.build]
             /\ install.build \in 0..Len(builds)
  BY <1>3, JobFields
<1>4. CASE Gate!RunGate
  <2>1. /\ install.pc = "preflight" /\ Gate!Passes(install.doc)
        /\ install' = [install EXCEPT !.pc = "build"] /\ UNCHANGED <<site, builds, docroot, published>>
    BY <1>4 DEF Gate!RunGate, Gate!At, Gate!Goto
  <2>2. install' = [install EXCEPT !.pc = "build", !.build = install.build]
        /\ install.build \in 0..Len(builds)
    BY <1>3, <2>1
  <2>3. GateShape'  BY <1>2, <2>1, <2>2 DEF GateShape
  <2>4. EntryInv'   BY <1>2, <2>1, <2>2 DEF EntryInv, HasBuilt
  <2>5. OwnBuildInv' /\ SeenInv'  BY <1>2, <2>1, <2>2 DEF OwnBuildInv, SeenInv
  <2> QED  BY <2>3, <2>4, <2>5
<1>5. CASE Gate!Resume
  <2>1. /\ install.pc = "resume" /\ builds # << >> /\ UNCHANGED <<site, builds, docroot, published>>
        /\ install' = [install EXCEPT !.pc = install.from, !.build = Len(builds)]
    BY <1>5 DEF Gate!Resume, Gate!At
  <2>2. Len(builds) # 0 /\ Len(builds) \in 0..Len(builds)  BY <1>1, <2>1 DEF GateShape
  <2>3. install.from \in HasBuilt /\ install.from \notin FullInstall /\ install.from # "live"
        /\ install.from # "preflight"
    <3>1. install # Gate!Nobody /\ install.from \in Gate!Step  BY <2>1, JobFields
    <3>2. install.from \notin FullInstall  BY <2>1, <3>1 DEF EntryInv
    <3> QED  BY <3>1, <3>2 DEF Gate!Step, HasBuilt, FullInstall
  <2>4. GateShape'  BY <1>2, <2>1, <2>2, <2>3 DEF GateShape
  <2>5. EntryInv'   BY <1>2, <2>1, <2>2, <2>3 DEF EntryInv, HasBuilt
  <2>6. OwnBuildInv' /\ SeenInv'  BY <1>2, <2>1, <2>2, <2>3 DEF OwnBuildInv, SeenInv
  <2> QED  BY <2>4, <2>5, <2>6
<1>6. CASE Gate!Deploy
  <2>1. /\ install.pc = "deploy" /\ docroot' = install.build /\ UNCHANGED <<site, builds, published>>
        /\ install' = Gate!Nobody \/ install' = [install EXCEPT !.pc = "injecting_tracking"]
    BY <1>6 DEF Gate!Deploy, Gate!At
  <2>2. install.build \in 0..Len(builds) /\ install # Gate!Nobody  BY <2>1, JobFields
  <2>3. CASE install' = Gate!Nobody
    BY <2>1, <2>2, <2>3 DEF GateShape, EntryInv, OwnBuildInv, SeenInv
  <2>4. CASE install' = [install EXCEPT !.pc = "injecting_tracking"]
    <3>1. install' = [install EXCEPT !.pc = "injecting_tracking", !.build = install.build]
      BY <1>3, <2>1, <2>4
    <3>2. "injecting_tracking" \in HasBuilt \cup {"build"}  BY DEF HasBuilt
    <3>3. GateShape'  BY <1>2, <2>1, <2>2, <3>1, <3>2 DEF GateShape
    <3>4. EntryInv'   BY <1>2, <2>1, <2>2, <3>1, <3>2 DEF EntryInv, HasBuilt
    <3>5. OwnBuildInv' /\ SeenInv'  BY <1>2, <2>1, <2>2, <3>1, <3>2 DEF OwnBuildInv, SeenInv
    <3> QED  BY <3>3, <3>4, <3>5
  <2> QED  BY <2>1, <2>3, <2>4
<1>7. CASE Gate!VerifyTracking
  <2>1. /\ install.pc = "injecting_tracking"
        /\ Gate!MissingIn(builds[install.build].page, install.doc) = {}
        /\ install' = [install EXCEPT !.pc = "verifying"] /\ UNCHANGED <<site, builds, docroot, published>>
    BY <1>7 DEF Gate!VerifyTracking, Gate!At, Gate!Goto
  <2>2. install' = [install EXCEPT !.pc = "verifying", !.build = install.build]
        /\ install.build \in 0..Len(builds) /\ "verifying" \in HasBuilt \cup {"build"}
    BY <1>3, <2>1 DEF HasBuilt
  <2>3. GateShape'  BY <1>2, <2>1, <2>2 DEF GateShape
  <2>4. EntryInv'   BY <1>2, <2>1, <2>2 DEF EntryInv, HasBuilt
  <2>5. OwnBuildInv' /\ SeenInv'  BY <1>2, <2>1, <2>2 DEF OwnBuildInv, SeenInv
  <2> QED  BY <2>3, <2>4, <2>5
<1>8. CASE Gate!FinalVerify
  <2>1. /\ install.pc = "verifying"
        /\ Gate!ClaimsOf(install.doc) \cup Gate!PagesOf(install.doc) \subseteq builds[docroot].page
        /\ install' = [install EXCEPT !.pc = "live"] /\ UNCHANGED <<site, builds, docroot, published>>
    BY <1>8 DEF Gate!FinalVerify, Gate!At, Gate!Goto
  <2>2. install' = [install EXCEPT !.pc = "live", !.build = install.build]
        /\ install.build \in 0..Len(builds) /\ "live" \in HasBuilt \cup {"build"}
    BY <1>3, <2>1 DEF HasBuilt
  <2>3. GateShape'  BY <1>2, <2>1, <2>2 DEF GateShape
  <2>4. EntryInv'   BY <1>2, <2>1, <2>2 DEF EntryInv, HasBuilt
  <2>5. OwnBuildInv' /\ SeenInv'  BY <1>2, <2>1, <2>2 DEF OwnBuildInv, SeenInv
  <2> QED  BY <2>3, <2>4, <2>5
<1>9. CASE Gate!GoLive
  <2>1. install' = Gate!Nobody /\ published' = TRUE /\ UNCHANGED <<site, builds, docroot>>
    BY <1>9 DEF Gate!GoLive
  <2> QED  BY <2>1 DEF GateShape, EntryInv, OwnBuildInv, SeenInv
<1> QED  BY <1>4, <1>5, <1>6, <1>7, <1>8, <1>9

LEMMA GateHolds == Gate!Spec => []GateInv
<1>1. Gate!Init => GateInv
  <2> SUFFICES ASSUME Gate!Init PROVE GateInv  OBVIOUS
  <2>1. site \in Documents /\ builds = << >> /\ docroot = 0 /\ published = FALSE /\ install = Gate!Nobody
    BY DEF Gate!Init, Gate!NoBuild, Documents
  <2>2. << >> \in Seq([doc : Documents, page : UNION {Gate!RenderedPages(d) : d \in Documents}])
        /\ Len(<< >>) = 0
    OBVIOUS
  <2>3. GateShape
    <3>1. builds \in Seq([doc : Documents, page : UNION {Gate!RenderedPages(d) : d \in Documents}])
      BY <2>1, <2>2
    <3>2. docroot \in 0..Len(builds)  BY <2>1, <2>2
    <3> QED  BY <2>1, <3>1, <3>2 DEF GateShape
  <2>4. EntryInv /\ OwnBuildInv /\ SeenInv  BY <2>1 DEF EntryInv, OwnBuildInv, SeenInv
  <2> QED  BY <2>3, <2>4 DEF GateInv
<1>2. GateInv /\ [Gate!Next]_Gate!vars => GateInv'
  <2> SUFFICES ASSUME GateInv, [Gate!Next]_Gate!vars PROVE GateInv'  OBVIOUS
  <2>1. ASSUME NEW d \in Deployed, Gate!Update(d) PROVE GateInv'
    <3>1. site' \in Documents /\ UNCHANGED <<builds, docroot, published, install>>
      BY <2>1 DEF Gate!Update, Documents
    <3> QED  BY <3>1 DEF GateInv, GateShape, EntryInv, OwnBuildInv, SeenInv
  <2>2. ASSUME NEW from \in Gate!Step, Gate!Install(from) PROVE GateInv'
    <3> DEFINE pc == CASE from = "preflight" -> "preflight"
                       [] from = "deploying_files" -> "build"
                       [] OTHER -> "resume"
    <3>1. install' = Gate!NewJob("install", from, pc, site) /\ published' = FALSE
          /\ UNCHANGED <<site, builds, docroot>>
      BY <2>2 DEF Gate!Install
    <3>2. pc \in {"preflight", "resume", "build"} /\ (pc = "preflight" <=> from = "preflight")
          /\ (pc = "resume" <=> from \notin FullInstall)
      BY DEF FullInstall
    <3> HIDE DEF pc
    <3> QED  BY <3>1, <3>2, NewJobInv
  <2>3. CASE Gate!Rebuild
    <3>1. install' = Gate!NewJob("rebuild", "deploying_files", "build", site)
          /\ UNCHANGED <<site, builds, docroot, published>>
      BY <2>3 DEF Gate!Rebuild
    <3>2. "deploying_files" \in Gate!Step /\ "deploying_files" \in FullInstall
          /\ published' \in BOOLEAN
      BY <3>1 DEF Gate!Step, FullInstall, GateInv, GateShape
    <3> QED  BY <3>1, <3>2, NewJobInv
  <2>4. ASSUME NEW b \in DOMAIN builds, Gate!Rollback(b) PROVE GateInv'
    BY <2>4, RollbackInv
  <2>5. CASE Gate!Fail
    BY <2>5 DEF Gate!Fail, GateInv, GateShape, EntryInv, OwnBuildInv, SeenInv
  <2>6. CASE UNCHANGED Gate!vars
    BY <2>6 DEF Gate!vars, GateInv, GateShape, EntryInv, OwnBuildInv, SeenInv
  <2> QED  BY <2>1, <2>2, <2>3, <2>4, <2>5, <2>6, BuildInv, ForwardInv DEF Gate!Next, Gate!JobStep
<1> QED  BY <1>1, <1>2, PTL DEF Gate!Spec

(* Whatever document stands in the row, the gate lets it through exactly    *)
(* when it is compliant.                                                    *)
THEOREM GateDecides == Gate!Spec => []GateIsExact
<1>1. GateInv => GateIsExact
  <2>1. ASSUME GateInv PROVE site \in Document
    BY <2>1, DocumentAssumption DEF GateInv, GateShape, Documents
  <2> QED  BY <2>1, GateLetsThrough DEF GateIsExact, Gate!GateIsExact
<1> QED  BY <1>1, GateHolds, PTL

(* A full install publishes what passed the gate, whatever is saved while   *)
(* it runs.                                                                 *)
THEOREM InstallIsTrue == Gate!Spec => []InstallServesWhatItVetted
<1>1. GateInv => InstallServesWhatItVetted
  <2> SUFFICES ASSUME GateInv, install # Gate!Nobody, install.from = "preflight",
                      install.pc # "preflight", install.build # 0
               PROVE  Gate!Compliant(builds[install.build].doc)
    BY DEF InstallServesWhatItVetted, Gate!InstallServesWhatItVetted, Gate!NoBuild
  <2>1. builds[install.build].doc = install.doc  BY DEF GateInv, OwnBuildInv, FullInstall
  <2>2. Gate!Passes(install.doc)  BY DEF GateInv, EntryInv
  <2>3. install.doc \in Document  BY DocumentAssumption DEF GateInv, GateShape, Documents
  <2> QED  BY <2>1, <2>2, <2>3, GateLetsThrough
<1> QED  BY <1>1, GateHolds, PTL

(* When an install declares the site live and nobody rolled back, the page  *)
(* the server shows is the one its document asks for.                       *)
THEOREM LiveIsTrue == Gate!Spec => LiveShowsWhatItAsks
<1>1. GateInv /\ [Gate!Next]_Gate!vars =>
        [published' /\ ~published /\ ~install.raced =>
           LET shown == builds[docroot].page
           IN  /\ Gate!ClaimsOf(install.doc) \cup Gate!PagesOf(install.doc) \subseteq shown
               /\ install.from \in {"preflight", "deploying_files"} =>
                    Gate!MissingIn(shown, install.doc) = {}]_Gate!vars
  <2> SUFFICES ASSUME GateInv, Gate!Next, published', ~published, ~install.raced
               PROVE  /\ Gate!ClaimsOf(install.doc) \cup Gate!PagesOf(install.doc) \subseteq builds[docroot].page
                      /\ install.from \in FullInstall => Gate!MissingIn(builds[docroot].page, install.doc) = {}
    BY DEF FullInstall
  <2>1. Gate!GoLive
    BY DEF Gate!Next, Gate!JobStep, Gate!Update, Gate!Install, Gate!Rebuild, Gate!Rollback, Gate!RunGate,
           Gate!Resume, Gate!BuildSite, Gate!Deploy, Gate!VerifyTracking, Gate!FinalVerify, Gate!Fail
  <2>2. install.pc = "live"  BY <2>1 DEF Gate!GoLive, Gate!At
  <2>3. install # Gate!Nobody  BY <2>2, JobFields DEF GateInv
  <2> QED  BY <2>2, <2>3 DEF GateInv, OwnBuildInv, SeenInv
<1> QED  BY <1>1, GateHolds, PTL DEF Gate!Spec, LiveShowsWhatItAsks, Gate!LiveShowsWhatItAsks

-----------------------------------------------------------------------------
(* The editing key and the whitelist.                                       *)

AllowedEdit == {e \in Keys!Edit : Keys!Allowed(e.path)}
Shown  == Value \cup {"written", Keys!Hole}
Params == [headline : Shown, terms_md : {"written"}, ad_claims : Seq(Shown)]

LEMMA KeptAreAllowed ==
  ASSUME NEW edited \in Seq(Keys!Edit)
  PROVE  Keys!Sanitized(edited) \in Seq(AllowedEdit)
<1> DEFINE N == Len(edited)
           S == Seq(AllowedEdit)
           Next1(q, n) == IF Keys!Allowed(edited[n].path) /\ Len(q) < MaxSaved
                          THEN Append(q, edited[n]) ELSE q
           step == [n \in 1..N |-> [q \in S |-> Next1(q, n)]]
           Body(f) == [n \in 0..N |->
                         IF n = 0 THEN << >>
                         ELSE IF Keys!Allowed(edited[n].path) /\ Len(f[n - 1]) < MaxSaved
                              THEN Append(f[n - 1], edited[n])
                              ELSE f[n - 1]]
           kept == CHOOSE f : f = Body(f)
<1>1. N \in Nat /\ << >> \in S  BY LengthIsNat
<1>2. ASSUME NEW n \in 1..N, NEW q \in S PROVE Next1(q, n) \in S
  <2>1. edited[n] \in Keys!Edit  BY <1>2, ElementOf
  <2>2. Keys!Allowed(edited[n].path) => Append(q, edited[n]) \in S
    <3>1. ASSUME Keys!Allowed(edited[n].path) PROVE edited[n] \in AllowedEdit
      BY <2>1, <3>1 DEF AllowedEdit
    <3> QED  BY <1>2, <3>1
  <2> QED  BY <1>2, <2>2
<1> HIDE DEF Next1, S
<1>3. step \in [1..N -> [S -> S]]  BY <1>2
<1>4. \A n \in 1..N, q \in S : step[n][q] = Next1(q, n)  OBVIOUS
<1> HIDE DEF step, N
<1>5. PICK f : IsFold(f, N, S, << >>, step)  BY <1>1, <1>3, FoldExists
<1>6. \A n \in 1..N : n - 1 \in 0..N /\ f[n] = Next1(f[n - 1], n)
  <2>1. \A n \in 1..N : n - 1 \in 0..N  BY <1>1
  <2> QED  BY <1>4, <1>5, <2>1 DEF IsFold
<1>7. f = Body(f)
  <2>1. \A n \in 0..N : n = 0 \/ n \in 1..N  BY <1>1
  <2> QED  BY <1>5, <1>6, <2>1 DEF Next1, IsFold
<1>8. kept = Body(kept)
  <2> HIDE DEF Body
  <2> QED  BY <1>7
<1>9. Keys!Sanitized(edited) = kept[N]  BY DEF Keys!Sanitized, N
<1> HIDE DEF kept
<1>10. kept[0] \in S /\ \A n \in 1..N : kept[n - 1] \in S => kept[n] \in S
  <2>1. \A n \in 1..N : n \in 0..N /\ n # 0  BY <1>1
  <2>2. 0 \in 0..N  BY <1>1
  <2>3. kept[0] = << >>  BY <1>8, <2>2
  <2>4. \A n \in 1..N : kept[n] = Next1(kept[n - 1], n)  BY <1>8, <2>1 DEF Next1
  <2> QED  BY <1>1, <1>2, <2>3, <2>4
<1> QED  BY <1>1, <1>9, <1>10, FoldStays DEF S

LEMMA SetIndexIsSequence ==
  ASSUME NEW seq \in Seq(Shown), NEW i \in Nat, NEW v \in Shown
  PROVE  Keys!SetIndex(seq, i, v) \in Seq(Shown)
<1> DEFINE k == IF i + 1 > Len(seq) THEN i + 1 ELSE Len(seq)
<1>1. Len(seq) \in Nat /\ k \in Nat  BY LengthIsNat
<1> HIDE DEF k
<1>2. \A n \in 1..k : (IF n = i + 1 THEN v ELSE IF n <= Len(seq) THEN seq[n] ELSE Keys!Hole) \in Shown
  <2>1. \A n \in 1..k : n <= Len(seq) => seq[n] \in Shown  BY <1>1
  <2> QED  BY <2>1 DEF Shown
<1>3. Keys!SetIndex(seq, i, v)
        = [n \in 1..k |-> IF n = i + 1 THEN v ELSE IF n <= Len(seq) THEN seq[n] ELSE Keys!Hole]
  BY DEF Keys!SetIndex, k
<1> QED  BY <1>1, <1>2, <1>3

LEMMA SetPathProtects ==
  ASSUME NEW p \in Params, NEW e \in AllowedEdit
  PROVE  Keys!SetPath(p, e) \in Params
<1>1. /\ e.value \in Shown /\ e.path \in Keys!Path /\ e.path.kind # "terms_md"
  BY DEF AllowedEdit, Keys!Edit, Keys!Allowed, Shown
<1>2. CASE e.path.kind = "headline"
  <2>1. Keys!SetPath(p, e) = [p EXCEPT !.headline = e.value]  BY <1>2 DEF Keys!SetPath
  <2> QED  BY <1>1, <2>1 DEF Params
<1>3. CASE e.path.kind = "ad_claims"
  <2>1. e.path.index \in 0..MaxClaim  BY <1>1, <1>3 DEF Keys!Path
  <2>2. Keys!SetPath(p, e) = [p EXCEPT !.ad_claims = Keys!SetIndex(@, e.path.index, e.value)]
    BY <1>3 DEF Keys!SetPath
  <2>3. Keys!SetIndex(p.ad_claims, e.path.index, e.value) \in Seq(Shown)
    <3>1. e.path.index \in Nat  BY <2>1
    <3>2. p.ad_claims \in Seq(Shown)  BY DEF Params
    <3> QED  BY <1>1, <3>1, <3>2, SetIndexIsSequence
  <2> QED  BY <2>2, <2>3 DEF Params
<1> QED  BY <1>1, <1>2, <1>3 DEF Keys!Path

LEMMA MergeProtects ==
  ASSUME NEW p \in Params, NEW edited \in Seq(AllowedEdit)
  PROVE  Keys!Merge(p, edited) \in Params
<1> DEFINE N == Len(edited)
           step == [n \in 1..N |-> [q \in Params |-> Keys!SetPath(q, edited[n])]]
           Body(f) == [n \in 0..N |-> IF n = 0 THEN p ELSE Keys!SetPath(f[n - 1], edited[n])]
           fold == CHOOSE f : f = Body(f)
<1>1. N \in Nat  BY LengthIsNat
<1>2. \A n \in 1..N, q \in Params : Keys!SetPath(q, edited[n]) \in Params
  <2>1. \A n \in 1..N : edited[n] \in AllowedEdit  BY ElementOf
  <2> QED  BY <2>1, SetPathProtects
<1>3. step \in [1..N -> [Params -> Params]]  BY <1>2
<1>4. \A n \in 1..N, q \in Params : step[n][q] = Keys!SetPath(q, edited[n])  OBVIOUS
<1> HIDE DEF step, N
<1>5. PICK f : IsFold(f, N, Params, p, step)  BY <1>1, <1>3, FoldExists
<1>6. f = Body(f)
  <2>1. \A n \in 1..N : n - 1 \in 0..N  BY <1>1
  <2>2. \A n \in 1..N : f[n] = Keys!SetPath(f[n - 1], edited[n])  BY <1>4, <1>5, <2>1 DEF IsFold
  <2>3. \A n \in 0..N : n = 0 \/ n \in 1..N  BY <1>1
  <2> QED  BY <1>5, <2>2, <2>3 DEF IsFold
<1>7. fold = Body(fold)
  <2> HIDE DEF Body
  <2> QED  BY <1>6
<1>8. Keys!Merge(p, edited) = fold[N]  BY DEF Keys!Merge, N
<1> HIDE DEF fold
<1>9. fold[0] \in Params /\ \A n \in 1..N : fold[n - 1] \in Params => fold[n] \in Params
  <2>1. \A n \in 1..N : n \in 0..N /\ n # 0  BY <1>1
  <2>2. 0 \in 0..N  BY <1>1
  <2>3. fold[0] = p  BY <1>7, <2>2
  <2>4. \A n \in 1..N : fold[n] = Keys!SetPath(fold[n - 1], edited[n])  BY <1>7, <2>1
  <2> QED  BY <1>2, <2>3, <2>4
<1> QED  BY <1>1, <1>8, <1>9, FoldStays

KeyRequest == [pc : {"idle", "mint", "has"}, key : Nat, clean : BOOLEAN]
Saving  == [pc : {"write"}, snap : Params, key : Nat, stale : BOOLEAN, edits : Seq(AllowedEdit)]
IdleSave    == [pc |-> "idle"]

KeyShape ==
  /\ key \in Nat /\ minted \in Nat
  /\ panel \in [Panel -> KeyRequest]
  /\ draft \in Params
  /\ save \in [Client -> {IdleSave} \cup Saving]

(* A key somebody holds undisturbed is the site's, and nobody who mints one *)
(* at the same time as another makes or holds one is undisturbed.           *)
HeldInv ==
  \A p \in Panel :
    /\ panel[p].pc = "has" => panel[p].key # 0
    /\ panel[p].pc = "has" /\ panel[p].clean => panel[p].key = key
    /\ panel[p].pc = "mint" =>
         \A q \in Panel \ {p} : panel[q].pc \in {"mint", "has"} => ~panel[q].clean

KeyInv == KeyShape /\ HeldInv /\ Keys!OldKeyIsDead

LEMMA MintInv ==
  ASSUME KeyInv, Keys!Mint,
         NEW p \in Panel, NEW clean \in BOOLEAN,
         panel' \in [Panel -> KeyRequest], panel'[p] = Keys!Holds(minted + 1, clean),
         \A q \in Panel \ {p} : /\ panel'[q].pc = panel[q].pc /\ panel'[q].key = panel[q].key
                                /\ panel'[q].pc \in {"mint", "has"} => ~panel'[q].clean
                                /\ panel[q].pc = "mint" => ~clean
  PROVE  KeyInv'
<1> USE DEF KeyInv
<1>1. /\ minted' = minted + 1 /\ key' = minted + 1 /\ draft' = draft
      /\ save' = [c \in Client |-> IF save[c].pc = "write" THEN [save[c] EXCEPT !.stale = TRUE] ELSE save[c]]
  BY DEF Keys!Mint, Keys!Outdate
<1>2. minted \in Nat /\ minted + 1 \in Nat /\ minted + 1 # 0  BY DEF KeyShape
<1>3. \A c \in Client : save'[c] \in {IdleSave} \cup Saving /\ (save'[c].pc = "write" => save'[c].stale)
  <2> SUFFICES ASSUME NEW c \in Client
               PROVE  save'[c] \in {IdleSave} \cup Saving /\ (save'[c].pc = "write" => save'[c].stale)
    OBVIOUS
  <2>1. CASE save[c] = IdleSave
    BY <1>1, <2>1 DEF IdleSave
  <2>2. CASE save[c] \in Saving
    BY <1>1, <2>2 DEF Saving
  <2> QED  BY <2>1, <2>2 DEF KeyShape
<1>4. KeyShape'
  <2>1. save' = [c \in Client |-> save'[c]]  BY <1>1
  <2> QED  BY <1>1, <1>2, <1>3, <2>1 DEF KeyShape
<1>5. panel'[p].pc = "has" /\ panel'[p].key = minted + 1 /\ panel'[p].clean = clean
  BY DEF Keys!Holds
<1>6. HeldInv'
  <2> SUFFICES ASSUME NEW q \in Panel
               PROVE  /\ panel'[q].pc = "has" => panel'[q].key # 0
                      /\ panel'[q].pc = "has" /\ panel'[q].clean => panel'[q].key = key'
                      /\ panel'[q].pc = "mint" =>
                           \A r \in Panel \ {q} : panel'[r].pc \in {"mint", "has"} => ~panel'[r].clean
    BY DEF HeldInv
  <2>1. CASE q = p
    BY <1>1, <1>2, <1>5, <2>1
  <2>2. CASE q # p
    <3>1. q \in Panel \ {p}  BY <2>2
    <3>2. panel'[q].pc = "has" => panel'[q].key # 0  BY <3>1 DEF HeldInv
    <3>3. panel'[q].pc = "mint" => ~clean  BY <3>1
    <3> QED  BY <1>5, <3>1, <3>2, <3>3
  <2> QED  BY <2>1, <2>2
<1>7. Keys!OldKeyIsDead'
  BY <1>3 DEF Keys!OldKeyIsDead
<1> QED  BY <1>4, <1>6, <1>7

LEMMA RequestInv ==
  ASSUME KeyInv, NEW p \in Panel,
         Keys!GenerateKey(p) \/ Keys!DisableKey(p) \/ Keys!EnsureKey(p) \/ Keys!EnsureMints(p)
  PROVE  KeyInv'
<1> USE DEF KeyInv
<1>1. \A q \in Panel : panel[q] \in KeyRequest /\ panel[q].clean \in BOOLEAN
  BY DEF KeyShape, KeyRequest
<1>2. ASSUME NEW who \in SUBSET Panel, NEW q \in Panel
      PROVE  /\ Keys!Disturb(who)[q] \in KeyRequest
             /\ Keys!Disturb(who)[q].pc = panel[q].pc /\ Keys!Disturb(who)[q].key = panel[q].key
             /\ q \in who => ~Keys!Disturb(who)[q].clean
             /\ q \notin who => Keys!Disturb(who)[q] = panel[q]
  <2>1. panel[q] \in KeyRequest  BY <1>1
  <2>2. Keys!Disturb(who)[q] = IF q \in who THEN [panel[q] EXCEPT !.clean = FALSE] ELSE panel[q]
    BY DEF Keys!Disturb
  <2> QED  BY <2>1, <2>2 DEF KeyRequest
<1>3. \A who : Keys!Disturb(who) = [q \in Panel |-> Keys!Disturb(who)[q]]
  BY DEF Keys!Disturb
<1>4. \A q \in Panel : q \in Keys!Minting <=> panel[q].pc = "mint"
  BY DEF Keys!Minting
<1>5. Keys!Minting \in SUBSET Panel /\ Keys!Alone(p) \in BOOLEAN
  BY DEF Keys!Minting, Keys!Alone
<1>6. \A q \in Panel \ {p} : panel[q].pc = "mint" => ~Keys!Alone(p)
  BY <1>4 DEF Keys!Alone
<1>7. minted + 1 \in Nat /\ key \in Nat  BY DEF KeyShape
<1>8. ASSUME Keys!GenerateKey(p) PROVE KeyInv'
  <2>1. Keys!Mint /\ panel' = [Keys!Disturb(Panel) EXCEPT ![p] = Keys!Holds(minted + 1, Keys!Alone(p))]
    BY <1>8 DEF Keys!GenerateKey
  <2>2. panel'[p] = Keys!Holds(minted + 1, Keys!Alone(p))  BY <1>3, <2>1
  <2>3. \A q \in Panel \ {p} : panel'[q] = Keys!Disturb(Panel)[q]  BY <1>3, <2>1
  <2>4. panel' = [q \in Panel |-> panel'[q]]  BY <1>3, <2>1
  <2>5. panel'[p] \in KeyRequest  BY <1>5, <1>7, <2>2 DEF Keys!Holds, KeyRequest
  <2>6. panel' \in [Panel -> KeyRequest]  BY <1>2, <2>3, <2>4, <2>5
  <2> QED  BY <1>2, <1>5, <1>6, <2>1, <2>2, <2>3, <2>6, MintInv
<1>9. ASSUME Keys!EnsureMints(p) PROVE KeyInv'
  <2>1. /\ Keys!Mint /\ panel[p].pc = "mint"
        /\ panel' = [panel EXCEPT ![p] = Keys!Holds(minted + 1, @.clean)]
    BY <1>9 DEF Keys!EnsureMints
  <2>2. panel'[p] = Keys!Holds(minted + 1, panel[p].clean)  BY <2>1 DEF KeyShape
  <2>3. \A q \in Panel \ {p} : panel'[q] = panel[q]  BY <2>1 DEF KeyShape
  <2>4. panel'[p] \in KeyRequest  BY <1>1, <1>7, <2>2 DEF Keys!Holds, KeyRequest
  <2>5. panel' \in [Panel -> KeyRequest]  BY <2>1, <2>2, <2>4 DEF KeyShape
  <2>6. \A q \in Panel \ {p} : /\ panel[q].pc \in {"mint", "has"} => ~panel[q].clean
                               /\ panel[q].pc = "mint" => ~panel[p].clean
    BY <2>1 DEF HeldInv
  <2> QED  BY <1>1, <2>1, <2>2, <2>3, <2>5, <2>6, MintInv
<1>10. ASSUME Keys!DisableKey(p) PROVE KeyInv'
  <2>1. /\ key' = 0 /\ minted' = minted /\ draft' = draft
        /\ save' = [c \in Client |-> IF save[c].pc = "write" THEN [save[c] EXCEPT !.stale = TRUE] ELSE save[c]]
        /\ panel' = [Keys!Disturb(Panel) EXCEPT ![p] = [pc |-> "idle", key |-> 0, clean |-> FALSE]]
    BY <1>10 DEF Keys!DisableKey, Keys!Outdate, Keys!NoKey
  <2>2. panel'[p] = [pc |-> "idle", key |-> 0, clean |-> FALSE]  BY <1>3, <2>1
  <2>3. \A q \in Panel \ {p} : panel'[q] = Keys!Disturb(Panel)[q]  BY <1>3, <2>1
  <2>4. panel' = [q \in Panel |-> panel'[q]]  BY <1>3, <2>1
  <2>5. panel'[p] \in KeyRequest  BY <2>2 DEF KeyRequest
  <2>6. panel' \in [Panel -> KeyRequest]  BY <1>2, <2>3, <2>4, <2>5
  <2>7. \A q \in Panel \ {p} : ~panel'[q].clean /\ panel'[q].pc = panel[q].pc /\ panel'[q].key = panel[q].key
    BY <1>2, <2>3
  <2>8. \A c \in Client : save'[c] \in {IdleSave} \cup Saving /\ (save'[c].pc = "write" => save'[c].stale)
    <3> SUFFICES ASSUME NEW c \in Client
                 PROVE  save'[c] \in {IdleSave} \cup Saving /\ (save'[c].pc = "write" => save'[c].stale)
      OBVIOUS
    <3>1. CASE save[c] = IdleSave
      BY <2>1, <3>1 DEF IdleSave
    <3>2. CASE save[c] \in Saving
      BY <2>1, <3>2 DEF Saving
    <3> QED  BY <3>1, <3>2 DEF KeyShape
  <2>9. KeyShape'
    <3>1. save' = [c \in Client |-> save'[c]]  BY <2>1
    <3> QED  BY <2>1, <2>6, <2>8, <3>1 DEF KeyShape
  <2>10. HeldInv'  BY <2>2, <2>7 DEF HeldInv
  <2>11. Keys!OldKeyIsDead'  BY <2>8 DEF Keys!OldKeyIsDead
  <2> QED  BY <2>9, <2>10, <2>11
<1>11. ASSUME Keys!EnsureKey(p) PROVE KeyInv'
  <2>1. UNCHANGED <<key, minted, draft, save>> /\ panel[p].pc # "mint"
    BY <1>11 DEF Keys!EnsureKey
  <2>2. ASSUME panel' \in [Panel -> KeyRequest], HeldInv' PROVE KeyInv'
    <3>1. KeyShape'  BY <2>1, <2>2 DEF KeyShape
    <3>2. Keys!OldKeyIsDead'  BY <2>1 DEF Keys!OldKeyIsDead
    <3> QED  BY <2>2, <3>1, <3>2
  <2>3. CASE key # 0
    <3>1. panel' = [panel EXCEPT ![p] = Keys!Holds(key, Keys!Alone(p))]
      BY <1>11, <2>3 DEF Keys!EnsureKey, Keys!NoKey
    <3>2. panel'[p] = [pc |-> "has", key |-> key, clean |-> Keys!Alone(p)]
      BY <3>1 DEF Keys!Holds, KeyShape
    <3>3. \A q \in Panel \ {p} : panel'[q] = panel[q]  BY <3>1 DEF KeyShape
    <3>4. panel' \in [Panel -> KeyRequest]  BY <1>5, <1>7, <3>1, <3>2 DEF KeyShape, KeyRequest, Keys!Holds
    <3>5. HeldInv'
      <4> SUFFICES ASSUME NEW q \in Panel
                   PROVE  /\ panel'[q].pc = "has" => panel'[q].key # 0
                          /\ panel'[q].pc = "has" /\ panel'[q].clean => panel'[q].key = key'
                          /\ panel'[q].pc = "mint" =>
                               \A r \in Panel \ {q} : panel'[r].pc \in {"mint", "has"} => ~panel'[r].clean
        BY DEF HeldInv
      <4>1. CASE q = p
        BY <2>1, <2>3, <3>2, <4>1
      <4>2. CASE q # p
        <5>1. panel'[q] = panel[q] /\ q \in Panel \ {p}  BY <3>3, <4>2
        <5>2. panel[q].pc = "mint" => ~Keys!Alone(p)  BY <1>6, <5>1
        <5> QED  BY <2>1, <3>2, <3>3, <5>1, <5>2 DEF HeldInv
      <4> QED  BY <4>1, <4>2
    <3> QED  BY <2>2, <3>4, <3>5
  <2>4. CASE key = 0
    <3>1. panel' = [Keys!Disturb(Keys!Minting) EXCEPT
                      ![p] = [pc |-> "mint", key |-> 0, clean |-> Keys!Alone(p)]]
      BY <1>11, <2>4 DEF Keys!EnsureKey, Keys!BeginMint, Keys!NoKey
    <3>2. panel'[p] = [pc |-> "mint", key |-> 0, clean |-> Keys!Alone(p)]  BY <1>3, <3>1
    <3>3. \A q \in Panel \ {p} : panel'[q] = Keys!Disturb(Keys!Minting)[q]  BY <1>3, <3>1
    <3>4. panel' = [q \in Panel |-> panel'[q]]  BY <1>3, <3>1
    <3>5. panel'[p] \in KeyRequest  BY <1>5, <3>2 DEF KeyRequest
    <3>6. panel' \in [Panel -> KeyRequest]  BY <1>2, <1>5, <3>3, <3>4, <3>5
    <3>7. \A q \in Panel \ {p} :
            /\ panel'[q].pc = panel[q].pc /\ panel'[q].key = panel[q].key
            /\ panel[q].pc = "mint" => ~panel'[q].clean
            /\ panel[q].pc # "mint" => panel'[q] = panel[q]
      BY <1>2, <1>4, <1>5, <3>3
    <3>8. \A q \in Panel \ {p} : panel[q].pc = "has" => ~panel[q].clean
      BY <2>4 DEF HeldInv
    <3>9. HeldInv'
      <4> SUFFICES ASSUME NEW q \in Panel
                   PROVE  /\ panel'[q].pc = "has" => panel'[q].key # 0
                          /\ panel'[q].pc = "has" /\ panel'[q].clean => panel'[q].key = key'
                          /\ panel'[q].pc = "mint" =>
                               \A r \in Panel \ {q} : panel'[r].pc \in {"mint", "has"} => ~panel'[r].clean
        BY DEF HeldInv
      <4>1. CASE q = p
        BY <3>2, <3>7, <3>8, <4>1
      <4>2. CASE q # p
        <5>1. q \in Panel \ {p}  BY <4>2
        <5>2. panel'[q].pc = "has" => panel'[q].key # 0 /\ ~panel'[q].clean
          BY <3>7, <3>8, <5>1 DEF HeldInv
        <5>3. ASSUME panel'[q].pc = "mint", NEW r \in Panel \ {q}, panel'[r].pc \in {"mint", "has"}
              PROVE  ~panel'[r].clean
          <6>1. panel[q].pc = "mint"  BY <3>7, <5>1, <5>3
          <6>2. CASE r = p
            BY <1>6, <3>2, <5>1, <6>1, <6>2
          <6>3. CASE r # p
            BY <3>7, <3>8, <5>3, <6>3
          <6> QED  BY <6>2, <6>3
        <5> QED  BY <5>2, <5>3
      <4> QED  BY <4>1, <4>2
    <3> QED  BY <2>2, <3>6, <3>9
  <2> QED  BY <2>3, <2>4
<1> QED  BY <1>8, <1>9, <1>10, <1>11

LEMMA SaveInv ==
  ASSUME KeyInv, NEW c \in Client,
         \/ \E k \in 1..minted, e, f \in Keys!Edit : Keys!ReadForSave(c, k, <<e, f>>)
         \/ Keys!WriteSave(c)
  PROVE  KeyInv'
<1> USE DEF KeyInv
<1>1. CASE Keys!WriteSave(c)
  <2>1. /\ save[c].pc = "write" /\ draft' = Keys!Merge(save[c].snap, save[c].edits)
        /\ save' = [save EXCEPT ![c] = IdleSave] /\ UNCHANGED <<key, minted, panel>>
    BY <1>1 DEF Keys!WriteSave, IdleSave
  <2>2. save[c] \in Saving
    <3>1. IdleSave.pc # "write"  BY DEF IdleSave
    <3> QED  BY <2>1, <3>1 DEF KeyShape
  <2>3. draft' \in Params
    <3>1. save[c].snap \in Params /\ save[c].edits \in Seq(AllowedEdit)  BY <2>2 DEF Saving
    <3> QED  BY <2>1, <3>1, MergeProtects
  <2>4. KeyShape'  BY <2>1, <2>3 DEF KeyShape
  <2>5. HeldInv'   BY <2>1 DEF HeldInv
  <2>6. Keys!OldKeyIsDead'  BY <2>1 DEF Keys!OldKeyIsDead, KeyShape, IdleSave
  <2> QED  BY <2>4, <2>5, <2>6
<1>2. ASSUME NEW k \in 1..minted, NEW e \in Keys!Edit, NEW f \in Keys!Edit,
             Keys!ReadForSave(c, k, <<e, f>>)
      PROVE  KeyInv'
  <2> DEFINE edits1 == Keys!Sanitized(<<e, f>>)
  <2>1. edits1 \in Seq(AllowedEdit)
    <3>1. <<e, f>> \in Seq(Keys!Edit)  BY <1>2
    <3> QED  BY <3>1, KeptAreAllowed
  <2>2. /\ k = key /\ UNCHANGED <<key, minted, panel, draft>>
        /\ save' = [save EXCEPT ![c] = [pc |-> "write", snap |-> draft, key |-> k, stale |-> FALSE,
                                        edits |-> edits1]]
    BY <1>2 DEF Keys!ReadForSave
  <2> HIDE DEF edits1
  <2>3. [pc |-> "write", snap |-> draft, key |-> k, stale |-> FALSE, edits |-> edits1] \in Saving
    BY <2>1, <2>2 DEF KeyShape, Saving
  <2>4. KeyShape'  BY <2>2, <2>3 DEF KeyShape
  <2>5. HeldInv'   BY <2>2 DEF HeldInv
  <2>6. Keys!OldKeyIsDead'  BY <2>2 DEF Keys!OldKeyIsDead, KeyShape
  <2> QED  BY <2>4, <2>5, <2>6
<1> QED  BY <1>1, <1>2

LEMMA KeyHolds == Keys!Spec => []KeyInv
<1>1. Keys!Init => KeyInv
  <2> SUFFICES ASSUME Keys!Init PROVE KeyInv  OBVIOUS
  <2>1. /\ key = 0 /\ minted = 0 /\ panel = [p \in Panel |-> [pc |-> "idle", key |-> 0, clean |-> FALSE]]
        /\ draft = [headline |-> "written", terms_md |-> "written", ad_claims |-> <<"written">>]
        /\ save = [c \in Client |-> IdleSave]
    BY DEF Keys!Init, Keys!NoKey, Keys!InitialParams, IdleSave
  <2>2. draft \in Params
    <3>1. "written" \in Shown  BY DEF Shown
    <3>2. <<"written">> \in Seq(Shown)  BY <3>1
    <3> QED  BY <2>1, <3>1, <3>2 DEF Params
  <2>3. KeyShape  BY <2>1, <2>2 DEF KeyShape, KeyRequest
  <2>4. HeldInv  BY <2>1 DEF HeldInv
  <2>5. Keys!OldKeyIsDead  BY <2>1 DEF Keys!OldKeyIsDead, IdleSave
  <2> QED  BY <2>3, <2>4, <2>5 DEF KeyInv
<1>2. KeyInv /\ [Keys!Next]_Keys!vars => KeyInv'
  <2> SUFFICES ASSUME KeyInv, [Keys!Next]_Keys!vars PROVE KeyInv'  OBVIOUS
  <2>1. CASE UNCHANGED Keys!vars
    <3>1. UNCHANGED <<key, minted, panel, draft, save>>  BY <2>1 DEF Keys!vars
    <3> QED  BY <3>1 DEF KeyInv, KeyShape, HeldInv, Keys!OldKeyIsDead
  <2> QED  BY <2>1, RequestInv, SaveInv DEF Keys!Next
<1> QED  BY <1>1, <1>2, PTL DEF Keys!Spec

(* The key alone decides who writes, and the whitelist what: a key that was *)
(* shared opens the editor until it is replaced on purpose, a replaced one  *)
(* lets nobody in any more, and no save touches what it may not edit.       *)
THEOREM EditorIsLocked == Keys!Spec => []EditorIsKeyed
<1>1. KeyInv => EditorIsKeyed
  <2> SUFFICES ASSUME KeyInv PROVE EditorIsKeyed  OBVIOUS
  <2>1. Keys!SharedKeyOpens  BY DEF KeyInv, HeldInv, Keys!SharedKeyOpens
  <2>2. Keys!ProtectedIsUntouched
    BY DEF KeyInv, KeyShape, Params, Keys!ProtectedIsUntouched, Keys!InitialParams
  <2> QED  BY <2>1, <2>2 DEF KeyInv, EditorIsKeyed, Keys!EditorIsKeyed
<1> QED  BY <1>1, KeyHolds, PTL

-----------------------------------------------------------------------------
(* The record page.                                                         *)

Filters == Campaign \cup {Record!AllTraffic}
TaskRecord ==
  [does : {"load", "act", "toggle", "rebuild", "delete link", "add link", "enable", "rotate", "disable"},
   at : {"idle", "sent", "written", "asked", "read"},
   filter : Filters, key : Nat, links : Nat, alone : BOOLEAN]
RecordPages ==
  [loaded : BOOLEAN, filter : Filters, shows : [filter : Filters, links : Nat],
   busy : BOOLEAN, editKey : Nat, keyGet : [at : {"sent", "read", "done"}, key : Nat, fresh : BOOLEAN],
   wrote : Nat, muddled : BOOLEAN, linkHolds : BOOLEAN]

RecordShape ==
  /\ links \in Nat /\ pageKey \in Nat /\ pageMinted \in Nat
  /\ page \in RecordPages /\ tasks \in [Task -> TaskRecord]

NoKeyIsDue == \A t \in Task : ~Record!KeyDue(tasks[t])
NoLinkIsDue == \A t \in Task : ~Record!LinkDue(tasks[t])

(* While the link holds one answer at most is due, and it brings the key;   *)
(* when none is, the page has it.                                           *)
LinkInv ==
  /\ page.linkHolds =>
       /\ \A t, u \in Task : Record!KeyDue(tasks[t]) /\ Record!KeyDue(tasks[u]) => t = u
       /\ \A t \in Task : Record!KeyDue(tasks[t]) => tasks[t].key = pageKey
       /\ NoKeyIsDue => page.editKey = pageKey
  /\ page.keyGet.fresh => page.keyGet.key = pageKey

(* A reload that is alone is; on a page that is not muddled every one is,   *)
(* for the filter chosen.                                                   *)
ReloadInv ==
  /\ \A t \in Record!Loading : tasks[t].alone => Record!Loading = {t}
  /\ ~page.muddled =>
       /\ \A t \in Record!Loading : tasks[t].alone /\ tasks[t].filter = page.filter
       /\ Record!Loading = {} => page.shows.filter = page.filter

(* A reload alone that was read, or else what is shown, has the page's      *)
(* changes, but for one whose answer brings another reload.                 *)
ChangeInv ==
  /\ page.wrote <= links
  /\ NoLinkIsDue =>
       /\ \A t \in Task : tasks[t].at = "read" /\ tasks[t].alone => page.wrote <= tasks[t].links
       /\ ~page.muddled /\ Record!Loading = {} => page.wrote <= page.shows.links

RecordInv == RecordShape /\ LinkInv /\ ReloadInv /\ ChangeInv

LEMMA FreeIsTask ==
  /\ Record!Free \in TaskRecord /\ Record!Free.at = "idle" /\ Record!Free.alone = FALSE
  /\ ~Record!KeyDue(Record!Free) /\ ~Record!LinkDue(Record!Free)
BY DEF Record!Free, TaskRecord, Filters, Record!KeyDue, Record!LinkDue, Record!NoKey

LEMMA AloneOnly ==
  ASSUME NEW r \in TaskRecord, NEW b \in BOOLEAN
  PROVE  LET s == [r EXCEPT !.alone = b] IN
           /\ s \in TaskRecord /\ s.at = r.at /\ s.does = r.does /\ s.key = r.key
           /\ s.links = r.links /\ s.filter = r.filter /\ s.alone = b
BY DEF TaskRecord

(* A reload that begins is alone only where none is under way.              *)
LEMMA AsksInv ==
  ASSUME RecordInv, NEW t \in Task, ~(t \in Record!Loading),
         NEW does \in {"load", "act"}, NEW filter \in Filters, Record!Asks(t, does, filter),
         UNCHANGED <<links, pageKey, pageMinted>>, page' \in RecordPages,
         page'.muddled <=> page.muddled \/ Record!Loading # {} \/ filter # page'.filter,
         page'.wrote = page.wrote
  PROVE  /\ RecordShape' /\ ReloadInv' /\ ChangeInv'
         /\ ~Record!KeyDue(tasks'[t])
         /\ \A u \in Task : u # t =>
              /\ Record!KeyDue(tasks'[u]) <=> Record!KeyDue(tasks[u])
              /\ tasks'[u].key = tasks[u].key
<1> USE DEF RecordInv
<1>1. tasks \in [Task -> TaskRecord] /\ page \in RecordPages  BY DEF RecordShape
<1> DEFINE r == [Record!Free EXCEPT !.does = does, !.at = "asked", !.filter = filter,
                                    !.alone = (Record!Loading = {})]
<1>2. /\ r \in TaskRecord /\ r.at = "asked" /\ r.filter = filter
      /\ r.alone <=> Record!Loading = {}
  BY DEF Record!Free, TaskRecord, Filters, Record!NoKey
<1>3. \A u \in Task : tasks'[u] = IF u = t THEN r ELSE [tasks[u] EXCEPT !.alone = FALSE]
  BY DEF Record!Asks
<1> HIDE DEF r
<1>4. tasks' \in [Task -> TaskRecord]
  <2>1. \A u \in Task : [tasks[u] EXCEPT !.alone = FALSE] \in TaskRecord
    <3> SUFFICES ASSUME NEW u \in Task PROVE [tasks[u] EXCEPT !.alone = FALSE] \in TaskRecord  OBVIOUS
    <3>1. tasks[u] \in TaskRecord  BY <1>1
    <3> QED  BY <3>1, AloneOnly
  <2>2. DOMAIN tasks' = Task /\ tasks' = [u \in Task |-> tasks'[u]]  BY DEF Record!Asks
  <2> QED  BY <1>2, <1>3, <2>1, <2>2
<1>5. \A u \in Task : u # t =>
        /\ tasks'[u].at = tasks[u].at /\ tasks'[u].does = tasks[u].does /\ tasks'[u].key = tasks[u].key
        /\ tasks'[u].links = tasks[u].links /\ tasks'[u].alone = FALSE
  <2> SUFFICES ASSUME NEW u \in Task, u # t
               PROVE  LET s == [tasks[u] EXCEPT !.alone = FALSE] IN
                        /\ s.at = tasks[u].at /\ s.does = tasks[u].does /\ s.key = tasks[u].key
                        /\ s.links = tasks[u].links /\ s.alone = FALSE
    BY <1>3
  <2>1. tasks[u] \in TaskRecord  BY <1>1
  <2> QED  BY <2>1, AloneOnly
<1>6. tasks'[t] = r  BY <1>3
<1>7. Record!Loading' = Record!Loading \cup {t}
  BY <1>2, <1>5, <1>6 DEF Record!Loading
<1>8. RecordShape'  BY <1>1, <1>4 DEF RecordShape
<1>9. ReloadInv'
  <2>1. \A u \in Record!Loading' : tasks'[u].alone => u = t /\ Record!Loading = {}
    BY <1>2, <1>5, <1>6, <1>7 DEF Record!Loading
  <2>2. ~page'.muddled => Record!Loading = {} /\ filter = page'.filter  OBVIOUS
  <2> QED  BY <1>2, <1>6, <1>7, <2>1, <2>2 DEF ReloadInv
<1>10. ChangeInv'
  <2>1. \A u \in Task : ~(tasks'[u].at = "read" /\ tasks'[u].alone)  BY <1>2, <1>5, <1>6
  <2> QED  BY <1>7, <2>1 DEF ChangeInv
<1>11. ~Record!KeyDue(tasks'[t])  BY <1>2, <1>6 DEF Record!KeyDue
<1> QED  BY <1>5, <1>8, <1>9, <1>10, <1>11 DEF Record!KeyDue

(* Requests come and go, no reload does. *)
LEMMA SameLoads ==
  ASSUME RecordInv, page' \in RecordPages, tasks' \in [Task -> TaskRecord],
         UNCHANGED <<page.muddled, page.filter, page.shows>>,
         links' \in Nat, page'.wrote <= links',
         page'.wrote = page.wrote \/ ~NoLinkIsDue',
         \A t \in Task : tasks'[t] = tasks[t] \/
                         (tasks[t].at \notin {"asked", "read"} /\ tasks'[t].at \notin {"asked", "read"}),
         NoLinkIsDue' => NoLinkIsDue
  PROVE  ReloadInv' /\ ChangeInv'
<1>1. Record!Loading' = Record!Loading /\ \A t \in Record!Loading : tasks'[t] = tasks[t]
  BY DEF Record!Loading
<1>2. \A t \in Task : tasks'[t].at = "read" => tasks'[t] = tasks[t]  OBVIOUS
<1>3. /\ page'.muddled = page.muddled /\ page'.filter = page.filter /\ page'.shows = page.shows
  OBVIOUS
<1>4. ReloadInv'  BY <1>1, <1>3 DEF RecordInv, ReloadInv
<1>5. ChangeInv'
  <2> SUFFICES ASSUME NoLinkIsDue'
               PROVE  /\ \A t \in Task : tasks'[t].at = "read" /\ tasks'[t].alone => page'.wrote <= tasks'[t].links
                      /\ ~page'.muddled /\ Record!Loading' = {} => page'.wrote <= page'.shows.links
    BY DEF ChangeInv
  <2>1. NoLinkIsDue /\ page'.wrote = page.wrote  OBVIOUS
  <2> QED  BY <1>1, <1>2, <1>3, <2>1 DEF RecordInv, ChangeInv
<1> QED  BY <1>4, <1>5

(* Another filter, and the answers after which the page is loaded again.    *)
LEMMA AnswerInv ==
  ASSUME RecordInv, NEW t \in Task,
         \/ \E c \in Campaign : Record!SetFilter(t, c)
         \/ Record!Answered(t) \/ Record!Added(t) \/ Record!Rebuilt(t)
  PROVE  RecordInv'
<1> USE DEF RecordInv
<1>1. /\ tasks \in [Task -> TaskRecord] /\ page \in RecordPages /\ tasks[t] \in TaskRecord
      /\ tasks[t].filter \in Filters
  BY DEF RecordShape, TaskRecord
<1>2. CASE \E c \in Campaign : Record!SetFilter(t, c)
  <2>1. PICK c \in Campaign : Record!SetFilter(t, c)  BY <1>2
  <2>2. /\ page' = [page EXCEPT !.filter = c, !.muddled = @ \/ Record!Loading # {}]
        /\ Record!Asks(t, "load", c) /\ tasks[t].at = "idle"
        /\ UNCHANGED <<links, pageKey, pageMinted>>
    BY <2>1 DEF Record!SetFilter, Record!IsFree
  <2>3. /\ page' \in RecordPages /\ page'.filter = c /\ page'.wrote = page.wrote
        /\ page'.muddled <=> page.muddled \/ Record!Loading # {}
        /\ page'.linkHolds = page.linkHolds /\ page'.editKey = page.editKey /\ page'.keyGet = page.keyGet
    BY <1>1, <2>2 DEF RecordPages, Filters
  <2>4. t \notin Record!Loading /\ c \in Filters  BY <2>2 DEF Record!Loading, Filters
  <2>5. /\ RecordShape' /\ ReloadInv' /\ ChangeInv'
        /\ ~Record!KeyDue(tasks'[t])
        /\ \A u \in Task : u # t =>
             /\ Record!KeyDue(tasks'[u]) <=> Record!KeyDue(tasks[u])
             /\ tasks'[u].key = tasks[u].key
    BY <2>2, <2>3, <2>4, AsksInv
  <2>6. ~Record!KeyDue(tasks[t])  BY <2>2 DEF Record!KeyDue
  <2>7. LinkInv'
    BY <2>2, <2>3, <2>5, <2>6 DEF LinkInv, NoKeyIsDue
  <2> QED  BY <2>5, <2>7
<1>3. CASE Record!Answered(t)
  <2>1. /\ page' = [page EXCEPT !.editKey = Record!KeyAfter(tasks[t]), !.muddled = Record!Muddled(tasks[t].filter)]
        /\ Record!Asks(t, "act", tasks[t].filter) /\ tasks[t].at \in {"sent", "written"}
        /\ UNCHANGED <<links, pageKey, pageMinted>>
        /\ tasks[t].at = "written" \/ tasks[t].does = "toggle"
    BY <1>3 DEF Record!Answered, Record!At, Record!Does
  <2>2. Record!Muddled(tasks[t].filter) \in BOOLEAN
    BY <1>1 DEF Record!Muddled, RecordPages
  <2>3. Record!KeyAfter(tasks[t]) = (IF Record!KeyDue(tasks[t]) THEN tasks[t].key ELSE page.editKey)
    BY <2>1 DEF Record!KeyAfter, Record!KeyDue, Record!KeyActions
  <2>4. Record!KeyAfter(tasks[t]) \in Nat
    BY <1>1, <2>3 DEF TaskRecord, RecordPages
  <2>5. /\ page' \in RecordPages /\ page'.filter = page.filter /\ page'.wrote = page.wrote
        /\ page'.muddled = Record!Muddled(tasks[t].filter)
        /\ page'.linkHolds = page.linkHolds /\ page'.keyGet = page.keyGet
        /\ page'.editKey = IF Record!KeyDue(tasks[t]) THEN tasks[t].key ELSE page.editKey
    BY <1>1, <2>1, <2>2, <2>3, <2>4 DEF RecordPages
  <2>6. t \notin Record!Loading  BY <2>1 DEF Record!Loading
  <2>7. page'.muddled <=> page.muddled \/ Record!Loading # {} \/ tasks[t].filter # page'.filter
    BY <2>5 DEF Record!Muddled
  <2>8. /\ RecordShape' /\ ReloadInv' /\ ChangeInv'
        /\ ~Record!KeyDue(tasks'[t])
        /\ \A u \in Task : u # t =>
             /\ Record!KeyDue(tasks'[u]) <=> Record!KeyDue(tasks[u])
             /\ tasks'[u].key = tasks[u].key
    BY <1>1, <2>1, <2>5, <2>6, <2>7, AsksInv
  <2>9. LinkInv'
    BY <2>1, <2>5, <2>8 DEF LinkInv, NoKeyIsDue
  <2> QED  BY <2>8, <2>9
<1>4. CASE Record!Added(t) \/ Record!Rebuilt(t)
  <2>1. /\ \/ page' = [page EXCEPT !.muddled = Record!Muddled(tasks[t].filter)]
           \/ page' = [page EXCEPT !.busy = FALSE, !.muddled = Record!Muddled(tasks[t].filter)]
        /\ Record!Asks(t, "load", tasks[t].filter) /\ tasks[t].at \in {"sent", "written"}
        /\ UNCHANGED <<links, pageKey, pageMinted>>
        /\ tasks[t].does \in {"add link", "rebuild"}
    BY <1>4 DEF Record!Added, Record!Rebuilt, Record!At, Record!Does
  <2>2. Record!Muddled(tasks[t].filter) \in BOOLEAN
    BY <1>1 DEF Record!Muddled, RecordPages
  <2>3. /\ page' \in RecordPages /\ page'.filter = page.filter /\ page'.wrote = page.wrote
        /\ page'.muddled = Record!Muddled(tasks[t].filter)
        /\ page'.linkHolds = page.linkHolds /\ page'.keyGet = page.keyGet /\ page'.editKey = page.editKey
    BY <1>1, <2>1, <2>2 DEF RecordPages
  <2>4. t \notin Record!Loading /\ ~Record!KeyDue(tasks[t])
    BY <2>1 DEF Record!Loading, Record!KeyDue, Record!KeyActions
  <2>5. page'.muddled <=> page.muddled \/ Record!Loading # {} \/ tasks[t].filter # page'.filter
    BY <2>3 DEF Record!Muddled
  <2>6. /\ RecordShape' /\ ReloadInv' /\ ChangeInv'
        /\ ~Record!KeyDue(tasks'[t])
        /\ \A u \in Task : u # t =>
             /\ Record!KeyDue(tasks'[u]) <=> Record!KeyDue(tasks[u])
             /\ tasks'[u].key = tasks[u].key
    BY <1>1, <2>1, <2>3, <2>4, <2>5, AsksInv
  <2>7. LinkInv'
    BY <2>1, <2>3, <2>4, <2>6 DEF LinkInv, NoKeyIsDue
  <2> QED  BY <2>6, <2>7
<1> QED  BY <1>2, <1>3, <1>4

(* The reloads *)
LEMMA ReloadStepInv ==
  ASSUME RecordInv, NEW t \in Task,
         Record!ReadRecord(t) \/ Record!ReloadArrives(t) \/ Record!ReloadFails(t)
  PROVE  RecordInv'
<1> USE DEF RecordInv
<1>1. tasks \in [Task -> TaskRecord] /\ page \in RecordPages /\ tasks[t] \in TaskRecord
  BY DEF RecordShape
<1>2. tasks[t].at \in {"asked", "read"} /\ t \in Record!Loading
  BY DEF Record!ReadRecord, Record!ReloadArrives, Record!ReloadFails, Record!At, Record!Loading
<1>3. CASE Record!ReadRecord(t)
  <2> DEFINE r == [tasks[t] EXCEPT !.at = "read", !.links = links]
  <2>1. /\ tasks[t].at = "asked" /\ tasks' = [tasks EXCEPT ![t] = r]
        /\ UNCHANGED <<links, pageKey, pageMinted, page>>
    BY <1>1, <1>3 DEF Record!ReadRecord, Record!At
  <2>2. /\ r \in TaskRecord /\ r.at = "read" /\ r.links = links /\ r.does = tasks[t].does
        /\ r.filter = tasks[t].filter /\ r.alone = tasks[t].alone
    BY <1>1 DEF TaskRecord, RecordShape
  <2> HIDE DEF r
  <2>3. tasks' \in [Task -> TaskRecord] /\ \A u \in Task : tasks'[u] = IF u = t THEN r ELSE tasks[u]
    BY <1>1, <2>1, <2>2
  <2>4. Record!Loading' = Record!Loading  BY <1>2, <2>2, <2>3 DEF Record!Loading
  <2>5. /\ \A u \in Task : Record!KeyDue(tasks'[u]) <=> Record!KeyDue(tasks[u])
        /\ \A u \in Task : Record!KeyDue(tasks[u]) => tasks'[u] = tasks[u]
        /\ \A u \in Task : Record!LinkDue(tasks'[u]) <=> Record!LinkDue(tasks[u])
    BY <2>1, <2>2, <2>3 DEF Record!KeyDue, Record!LinkDue
  <2>6. RecordShape'  BY <2>1, <2>3 DEF RecordShape
  <2>7. LinkInv'  BY <2>1, <2>5 DEF LinkInv, NoKeyIsDue
  <2>8. ReloadInv'  BY <2>1, <2>2, <2>3, <2>4 DEF ReloadInv
  <2>9. ChangeInv'
    BY <1>2, <2>1, <2>2, <2>3, <2>4, <2>5 DEF ChangeInv, NoLinkIsDue
  <2> QED  BY <2>6, <2>7, <2>8, <2>9
<1>4. ASSUME tasks' = [tasks EXCEPT ![t] = Record!Free], UNCHANGED <<links, pageKey, pageMinted>>
      PROVE  /\ tasks' \in [Task -> TaskRecord]
             /\ \A u \in Task : u # t => tasks'[u] = tasks[u]
             /\ tasks'[t].at = "idle"
             /\ Record!Loading' = Record!Loading \ {t}
             /\ NoLinkIsDue' <=> NoLinkIsDue
             /\ page'.linkHolds = page.linkHolds /\ page'.keyGet = page.keyGet
                  /\ page'.editKey = page.editKey => LinkInv'
  <2>1. /\ tasks' \in [Task -> TaskRecord]
        /\ \A u \in Task : tasks'[u] = IF u = t THEN Record!Free ELSE tasks[u]
    BY <1>1, <1>4, FreeIsTask
  <2>2. Record!Loading' = Record!Loading \ {t}  BY <2>1, FreeIsTask DEF Record!Loading
  <2>3. ~Record!KeyDue(tasks[t]) /\ ~Record!LinkDue(tasks[t])  BY <1>2 DEF Record!KeyDue, Record!LinkDue
  <2>4. NoLinkIsDue' <=> NoLinkIsDue
    BY <2>1, <2>3, FreeIsTask DEF NoLinkIsDue
  <2>5. \A u \in Task : /\ Record!KeyDue(tasks'[u]) <=> Record!KeyDue(tasks[u])
                        /\ Record!KeyDue(tasks[u]) => tasks'[u] = tasks[u]
    BY <2>1, <2>3, FreeIsTask
  <2>6. ASSUME page'.linkHolds = page.linkHolds, page'.keyGet = page.keyGet, page'.editKey = page.editKey
        PROVE  LinkInv'
    BY <1>4, <2>5, <2>6 DEF LinkInv, NoKeyIsDue
  <2> QED  BY <2>1, <2>2, <2>4, <2>6, FreeIsTask
<1>5. CASE Record!ReloadArrives(t)
  <2>1. /\ tasks[t].at = "read" /\ tasks' = [tasks EXCEPT ![t] = Record!Free]
        /\ UNCHANGED <<links, pageKey, pageMinted>>
        /\ page' = [page EXCEPT !.loaded = TRUE, !.busy = Record!Idles(t),
                                !.shows = [filter |-> tasks[t].filter, links |-> tasks[t].links],
                                !.muddled = @ /\ ~(tasks[t].alone /\ tasks[t].filter = page.filter)]
    BY <1>5 DEF Record!ReloadArrives, Record!At
  <2>2. Record!Idles(t) \in BOOLEAN /\ [filter |-> tasks[t].filter, links |-> tasks[t].links] \in [filter : Filters, links : Nat]
    BY <1>1 DEF Record!Idles, RecordPages, TaskRecord
  <2>3. /\ page' \in RecordPages /\ page'.filter = page.filter /\ page'.wrote = page.wrote
        /\ page'.linkHolds = page.linkHolds /\ page'.keyGet = page.keyGet /\ page'.editKey = page.editKey
        /\ page'.shows.filter = tasks[t].filter /\ page'.shows.links = tasks[t].links
        /\ page'.muddled <=> page.muddled /\ ~(tasks[t].alone /\ tasks[t].filter = page.filter)
    BY <1>1, <2>1, <2>2 DEF RecordPages
  <2>4. /\ tasks' \in [Task -> TaskRecord]
        /\ \A u \in Task : u # t => tasks'[u] = tasks[u]
        /\ tasks'[t].at = "idle"
        /\ Record!Loading' = Record!Loading \ {t}
        /\ NoLinkIsDue' <=> NoLinkIsDue
        /\ LinkInv'
    BY <1>4, <2>1, <2>3
  <2>5. RecordShape'  BY <2>1, <2>3, <2>4 DEF RecordShape
  <2>6. ~page'.muddled => tasks[t].alone /\ tasks[t].filter = page.filter /\ Record!Loading' = {}
    BY <1>2, <2>3, <2>4 DEF ReloadInv
  <2>7. \A u \in Record!Loading' : u \in Record!Loading /\ u # t /\ tasks'[u] = tasks[u] /\ ~tasks[u].alone
    BY <1>2, <2>4 DEF ReloadInv, Record!Loading
  <2>8. ReloadInv'
    BY <2>3, <2>6, <2>7 DEF ReloadInv
  <2>9. ChangeInv'
    <3>1. \A u \in Task : tasks'[u].at = "read" => u # t /\ tasks'[u] = tasks[u]  BY <2>4
    <3>2. NoLinkIsDue /\ tasks[t].alone => page.wrote <= tasks[t].links  BY <2>1 DEF ChangeInv
    <3> QED  BY <2>1, <2>3, <2>4, <2>6, <3>1, <3>2 DEF ChangeInv
  <2> QED  BY <2>4, <2>5, <2>8, <2>9
<1>6. CASE Record!ReloadFails(t)
  <2>1. /\ tasks' = [tasks EXCEPT ![t] = Record!Free]
        /\ UNCHANGED <<links, pageKey, pageMinted>>
        /\ page' = [page EXCEPT !.busy = Record!Idles(t), !.muddled = TRUE]
    BY <1>6 DEF Record!ReloadFails
  <2>2. Record!Idles(t) \in BOOLEAN  BY <1>1 DEF Record!Idles, RecordPages
  <2>3. /\ page' \in RecordPages /\ page'.wrote = page.wrote
        /\ page'.linkHolds = page.linkHolds /\ page'.keyGet = page.keyGet /\ page'.editKey = page.editKey
        /\ page'.muddled
    BY <1>1, <2>1, <2>2 DEF RecordPages
  <2>4. /\ tasks' \in [Task -> TaskRecord]
        /\ \A u \in Task : u # t => tasks'[u] = tasks[u]
        /\ tasks'[t].at = "idle"
        /\ Record!Loading' = Record!Loading \ {t}
        /\ NoLinkIsDue' <=> NoLinkIsDue
        /\ LinkInv'
    BY <1>4, <2>1, <2>3
  <2>5. RecordShape'  BY <2>1, <2>3, <2>4 DEF RecordShape
  <2>6. ReloadInv'
    <3>1. \A u \in Record!Loading' : u \in Record!Loading /\ u # t /\ tasks'[u] = tasks[u] /\ ~tasks[u].alone
      BY <1>2, <2>4 DEF ReloadInv, Record!Loading
    <3> QED  BY <2>3, <3>1 DEF ReloadInv
  <2>7. ChangeInv'
    <3>1. \A u \in Task : tasks'[u].at = "read" => u # t /\ tasks'[u] = tasks[u]  BY <2>4
    <3> QED  BY <2>1, <2>3, <2>4, <3>1 DEF ChangeInv
  <2> QED  BY <2>4, <2>5, <2>6, <2>7
<1> QED  BY <1>3, <1>5, <1>6

(* An action or a link to be added goes on its way. *)
LEMMA ActInv ==
  ASSUME RecordInv, NEW t \in Task,
         \/ \E does \in Record!KeyActions \cup Record!Ungated \cup {"rebuild"} : Record!Act(t, does)
         \/ Record!AddLink(t)
  PROVE  RecordInv'
<1> USE DEF RecordInv
<1>1. tasks \in [Task -> TaskRecord] /\ page \in RecordPages  BY DEF RecordShape
<1>2. PICK does \in Record!KeyActions \cup Record!Ungated \cup {"rebuild", "add link"} :
        /\ tasks' = [tasks EXCEPT ![t] = [Record!Free EXCEPT !.does = does, !.at = "sent", !.filter = page.filter]]
        /\ tasks[t].at = "idle"
        /\ page' = [page EXCEPT !.busy = TRUE] \/ page' = page
        /\ UNCHANGED <<links, pageKey, pageMinted>>
  BY DEF Record!Act, Record!AddLink, Record!IsFree
<1> DEFINE r == [Record!Free EXCEPT !.does = does, !.at = "sent", !.filter = page.filter]
<1>3. r \in TaskRecord /\ r.at = "sent"
  BY <1>1 DEF Record!Free, TaskRecord, RecordPages, Filters, Record!NoKey, Record!KeyActions, Record!Ungated
<1>4. tasks' \in [Task -> TaskRecord] /\ \A u \in Task : tasks'[u] = IF u = t THEN r ELSE tasks[u]
  BY <1>1, <1>2, <1>3
<1> HIDE DEF r
<1>5. /\ page' \in RecordPages /\ page'.wrote = page.wrote /\ page'.muddled = page.muddled
      /\ page'.filter = page.filter /\ page'.shows = page.shows
      /\ page'.linkHolds = page.linkHolds /\ page'.keyGet = page.keyGet /\ page'.editKey = page.editKey
  BY <1>1, <1>2 DEF RecordPages
<1>6. /\ ~Record!KeyDue(r) /\ ~Record!LinkDue(r) /\ ~Record!KeyDue(tasks[t]) /\ ~Record!LinkDue(tasks[t])
  BY <1>2, <1>3 DEF Record!KeyDue, Record!LinkDue
<1>7. RecordShape'  BY <1>2, <1>4, <1>5 DEF RecordShape
<1>8. LinkInv'  BY <1>2, <1>4, <1>5, <1>6 DEF LinkInv, NoKeyIsDue
<1>9. ReloadInv' /\ ChangeInv'
  <2>1. NoLinkIsDue' => NoLinkIsDue  BY <1>4, <1>6 DEF NoLinkIsDue
  <2>2. links' \in Nat /\ page'.wrote <= links'  BY <1>2, <1>5 DEF RecordShape, ChangeInv
  <2>3. \A u \in Task : tasks'[u] = tasks[u] \/
                        (tasks[u].at \notin {"asked", "read"} /\ tasks'[u].at \notin {"asked", "read"})
    BY <1>2, <1>3, <1>4
  <2> QED  BY <1>4, <1>5, <2>1, <2>2, <2>3, SameLoads
<1> QED  BY <1>7, <1>8, <1>9

(* The panel changes the key, or the links. *)
LEMMA WriteInv ==
  ASSUME RecordInv, NEW t \in Task, Record!WriteKey(t) \/ Record!WriteLink(t)
  PROVE  RecordInv'
<1> USE DEF RecordInv
<1>1. /\ tasks \in [Task -> TaskRecord] /\ page \in RecordPages /\ tasks[t] \in TaskRecord
      /\ links \in Nat /\ pageKey \in Nat /\ pageMinted \in Nat
  BY DEF RecordShape
<1>2. CASE Record!WriteKey(t)
  <2> DEFINE r == [tasks[t] EXCEPT !.at = "written", !.key = pageKey']
             holds == page.keyGet.at = "done" /\ NoKeyIsDue
  <2>1. /\ tasks[t].at = "sent" /\ tasks[t].does \in Record!KeyActions
        /\ tasks' = [tasks EXCEPT ![t] = r]
        /\ page' = [page EXCEPT !.linkHolds = holds, !.keyGet.fresh = FALSE]
    BY <1>1, <1>2 DEF Record!WriteKey, Record!At, Record!Does, NoKeyIsDue
  <2>2. pageKey' \in Nat /\ pageMinted' \in Nat /\ links' = links
    BY <1>1, <1>2 DEF Record!WriteKey, Record!NewKey, Record!NoKey
  <2>3. r \in TaskRecord /\ r.at = "written" /\ r.key = pageKey' /\ r.does = tasks[t].does
    BY <1>1, <2>2 DEF TaskRecord
  <2>4. tasks' \in [Task -> TaskRecord] /\ \A u \in Task : tasks'[u] = IF u = t THEN r ELSE tasks[u]
    BY <1>1, <2>1, <2>3
  <2>5. holds \in BOOLEAN  OBVIOUS
  <2>6. /\ page' \in RecordPages /\ page'.wrote = page.wrote /\ page'.muddled = page.muddled
        /\ page'.filter = page.filter /\ page'.shows = page.shows
        /\ page'.linkHolds = holds /\ page'.keyGet.fresh = FALSE
    BY <1>1, <2>1, <2>5 DEF RecordPages
  <2> HIDE DEF r, holds
  <2>7. RecordShape'  BY <1>1, <2>2, <2>4, <2>6 DEF RecordShape
  <2>8. LinkInv'
    <3>1. Record!KeyDue(tasks'[t])  BY <2>1, <2>3, <2>4 DEF Record!KeyDue
    <3>2. page'.linkHolds => \A u \in Task : Record!KeyDue(tasks'[u]) => u = t
      BY <2>4, <2>6 DEF holds, NoKeyIsDue
    <3> QED  BY <2>3, <2>4, <2>6, <3>1, <3>2 DEF LinkInv, NoKeyIsDue
  <2>9. ReloadInv' /\ ChangeInv'
    <3>1. NoLinkIsDue' => NoLinkIsDue
      BY <2>1, <2>4 DEF NoLinkIsDue, Record!LinkDue
    <3>2. links' \in Nat /\ page'.wrote <= links'  BY <1>1, <2>2, <2>6 DEF ChangeInv
    <3>3. \A u \in Task : tasks'[u] = tasks[u] \/
                          (tasks[u].at \notin {"asked", "read"} /\ tasks'[u].at \notin {"asked", "read"})
      BY <2>1, <2>3, <2>4
    <3> QED  BY <2>4, <2>6, <3>1, <3>2, <3>3, SameLoads
  <2> QED  BY <2>7, <2>8, <2>9
<1>3. CASE Record!WriteLink(t)
  <2> DEFINE r == [tasks[t] EXCEPT !.at = "written"]
  <2>1. /\ tasks[t].at = "sent" /\ tasks[t].does \in Record!LinkChanges
        /\ tasks' = [tasks EXCEPT ![t] = r]
        /\ page' = [page EXCEPT !.wrote = links + 1]
        /\ links' = links + 1 /\ UNCHANGED <<pageKey, pageMinted>>
    BY <1>1, <1>3 DEF Record!WriteLink, Record!ChangeLinks, Record!At, Record!Does
  <2>2. r \in TaskRecord /\ r.at = "written" /\ r.does = tasks[t].does
    BY <1>1 DEF TaskRecord
  <2>3. tasks' \in [Task -> TaskRecord] /\ \A u \in Task : tasks'[u] = IF u = t THEN r ELSE tasks[u]
    BY <1>1, <2>1, <2>2
  <2>4. /\ page' \in RecordPages /\ page'.wrote = links' /\ page'.muddled = page.muddled
        /\ page'.filter = page.filter /\ page'.shows = page.shows /\ links' \in Nat
        /\ page'.linkHolds = page.linkHolds /\ page'.keyGet = page.keyGet /\ page'.editKey = page.editKey
    BY <1>1, <2>1 DEF RecordPages
  <2> HIDE DEF r
  <2>5. RecordShape'  BY <1>1, <2>1, <2>3, <2>4 DEF RecordShape
  <2>6. \A u \in Task : /\ Record!KeyDue(tasks'[u]) <=> Record!KeyDue(tasks[u])
                        /\ Record!KeyDue(tasks[u]) => tasks'[u] = tasks[u]
    BY <2>1, <2>2, <2>3 DEF Record!KeyDue, Record!KeyActions, Record!LinkChanges
  <2>7. LinkInv'  BY <2>1, <2>4, <2>6 DEF LinkInv, NoKeyIsDue
  <2>8. ReloadInv' /\ ChangeInv'
    <3>1. ~NoLinkIsDue'
      BY <2>1, <2>2, <2>3 DEF NoLinkIsDue, Record!LinkDue
    <3>2. \A u \in Task : tasks'[u] = tasks[u] \/
                          (tasks[u].at \notin {"asked", "read"} /\ tasks'[u].at \notin {"asked", "read"})
      BY <2>1, <2>2, <2>3
    <3>3. page'.wrote <= links'  BY <2>4
    <3> QED  BY <2>3, <2>4, <3>1, <3>2, <3>3, SameLoads
  <2> QED  BY <2>5, <2>7, <2>8
<1> QED  BY <1>2, <1>3

(* A request fails. *)
LEMMA FailsInv ==
  ASSUME RecordInv, NEW t \in Task, Record!Fails(t)
  PROVE  RecordInv'
<1> USE DEF RecordInv
<1>1. tasks \in [Task -> TaskRecord] /\ page \in RecordPages /\ tasks[t] \in TaskRecord
  BY DEF RecordShape
<1> DEFINE gone == Record!LinkDue(tasks[t])
           due  == Record!KeyDue(tasks[t])
<1>2. /\ tasks[t].at \in {"sent", "written"} /\ UNCHANGED <<links, pageKey, pageMinted>>
      /\ page' = [page EXCEPT !.busy = @ /\ Record!Does(t) = "add link",
                              !.muddled = @ \/ gone, !.linkHolds = @ /\ ~due]
      /\ \A u \in Task : tasks'[u] = IF u = t THEN Record!Free ELSE [tasks[u] EXCEPT !.alone = @ /\ ~gone]
  BY DEF Record!Fails
<1>3. gone \in BOOLEAN /\ due \in BOOLEAN  BY DEF Record!LinkDue, Record!KeyDue
<1> HIDE DEF gone, due
<1>4. /\ page' \in RecordPages /\ page'.wrote = page.wrote /\ page'.filter = page.filter /\ page'.shows = page.shows
      /\ page'.muddled <=> page.muddled \/ gone
      /\ page'.linkHolds <=> page.linkHolds /\ ~due
      /\ page'.keyGet = page.keyGet /\ page'.editKey = page.editKey
  BY <1>1, <1>2, <1>3 DEF RecordPages
<1>5. \A u \in Task : u # t =>
        /\ tasks'[u] \in TaskRecord
        /\ tasks'[u].at = tasks[u].at /\ tasks'[u].does = tasks[u].does /\ tasks'[u].key = tasks[u].key
        /\ tasks'[u].links = tasks[u].links /\ tasks'[u].filter = tasks[u].filter
        /\ tasks'[u].alone <=> tasks[u].alone /\ ~gone
  <2> SUFFICES ASSUME NEW u \in Task, u # t
               PROVE  LET s == [tasks[u] EXCEPT !.alone = @ /\ ~gone] IN
                        /\ s \in TaskRecord /\ s.at = tasks[u].at /\ s.does = tasks[u].does
                        /\ s.key = tasks[u].key /\ s.links = tasks[u].links /\ s.filter = tasks[u].filter
                        /\ s.alone <=> tasks[u].alone /\ ~gone
    BY <1>2
  <2>1. tasks[u] \in TaskRecord /\ (tasks[u].alone /\ ~gone) \in BOOLEAN  BY <1>1, <1>3 DEF TaskRecord
  <2> QED  BY <2>1, AloneOnly
<1>6. tasks'[t] = Record!Free  BY <1>2
<1>7. tasks' \in [Task -> TaskRecord]
  <2>1. tasks' = [u \in Task |-> tasks'[u]]  BY DEF Record!Fails
  <2> QED  BY <1>5, <1>6, <2>1, FreeIsTask
<1>8. Record!Loading' = Record!Loading /\ t \notin Record!Loading
  BY <1>2, <1>5, <1>6, FreeIsTask DEF Record!Loading
<1>9. RecordShape'  BY <1>2, <1>4, <1>7 DEF RecordShape
<1>10. LinkInv'
  <2>1. \A u \in Task : Record!KeyDue(tasks'[u]) <=> u # t /\ Record!KeyDue(tasks[u])
    BY <1>5, <1>6, FreeIsTask DEF Record!KeyDue
  <2>2. ~due /\ NoKeyIsDue' => NoKeyIsDue  BY <2>1 DEF NoKeyIsDue, due
  <2> QED  BY <1>2, <1>4, <1>5, <2>1, <2>2 DEF LinkInv
<1>11. ReloadInv'
  BY <1>4, <1>5, <1>8 DEF ReloadInv, Record!Loading
<1>12. ChangeInv'
  <2>1. ~gone /\ NoLinkIsDue' => NoLinkIsDue
    BY <1>5, <1>6, FreeIsTask DEF NoLinkIsDue, Record!LinkDue, gone
  <2>2. \A u \in Task : tasks'[u].at = "read" /\ tasks'[u].alone =>
          /\ tasks[u].at = "read" /\ tasks[u].alone /\ ~gone /\ tasks'[u].links = tasks[u].links
    BY <1>5, <1>6, FreeIsTask
  <2> QED  BY <1>2, <1>4, <1>8, <2>1, <2>2 DEF ChangeInv
<1> QED  BY <1>9, <1>10, <1>11, <1>12

(* The key the page asked for once, and what others do. *)
LEMMA KeyGetInv ==
  ASSUME RecordInv, Record!ReadKey \/ Record!KeyArrives \/ Record!KeyFails
  PROVE  RecordInv'
<1> USE DEF RecordInv
<1>1. page \in RecordPages /\ pageKey \in Nat /\ tasks' = tasks
      /\ UNCHANGED <<links, pageKey, pageMinted>>
  BY DEF RecordShape, Record!ReadKey, Record!KeyArrives, Record!KeyFails
<1>2. page.keyGet \in [at : {"sent", "read", "done"}, key : Nat, fresh : BOOLEAN]  BY <1>1 DEF RecordPages
<1>3. Record!KeyGot \in [at : {"sent", "read", "done"}, key : Nat, fresh : BOOLEAN] /\ Record!KeyGot.fresh = FALSE
  BY DEF Record!KeyGot, Record!NoKey
<1>4. ASSUME page' \in RecordPages, page'.wrote = page.wrote, page'.filter = page.filter,
             page'.shows = page.shows, page'.muddled = page.muddled, LinkInv'
      PROVE  RecordInv'
  <2>1. RecordShape'  BY <1>1, <1>4 DEF RecordShape
  <2>2. Record!Loading' = Record!Loading  BY <1>1 DEF Record!Loading
  <2>3. ReloadInv' /\ ChangeInv'  BY <1>1, <1>4, <2>2 DEF ReloadInv, ChangeInv, NoLinkIsDue
  <2> QED  BY <1>4, <2>1, <2>3
<1>5. CASE Record!ReadKey
  <2> DEFINE g == [at |-> "read", key |-> pageKey, fresh |-> TRUE]
  <2>1. page' = [page EXCEPT !.keyGet = g] /\ g \in [at : {"sent", "read", "done"}, key : Nat, fresh : BOOLEAN]
    BY <1>1, <1>5 DEF Record!ReadKey
  <2>2. /\ page' \in RecordPages /\ page'.wrote = page.wrote /\ page'.filter = page.filter
        /\ page'.shows = page.shows /\ page'.muddled = page.muddled
        /\ page'.linkHolds = page.linkHolds /\ page'.editKey = page.editKey /\ page'.keyGet = g
    BY <1>1, <2>1 DEF RecordPages
  <2>3. LinkInv'  BY <1>1, <2>2 DEF LinkInv, NoKeyIsDue
  <2> QED  BY <1>4, <2>2, <2>3
<1>6. CASE Record!KeyArrives
  <2> DEFINE holds == page.keyGet.fresh /\ NoKeyIsDue
  <2>1. page' = [page EXCEPT !.keyGet = Record!KeyGot, !.editKey = page.keyGet.key, !.linkHolds = holds]
    BY <1>6 DEF Record!KeyArrives, NoKeyIsDue
  <2>2. holds \in BOOLEAN /\ (holds => page.keyGet.key = pageKey)  BY <1>2 DEF LinkInv
  <2> HIDE DEF holds
  <2>3. /\ page' \in RecordPages /\ page'.wrote = page.wrote /\ page'.filter = page.filter
        /\ page'.shows = page.shows /\ page'.muddled = page.muddled
        /\ page'.linkHolds = holds /\ page'.editKey = page.keyGet.key /\ page'.keyGet = Record!KeyGot
    BY <1>1, <1>2, <1>3, <2>1, <2>2 DEF RecordPages
  <2>4. holds => NoKeyIsDue  BY DEF holds
  <2>5. LinkInv'  BY <1>1, <1>3, <2>2, <2>3, <2>4 DEF LinkInv, NoKeyIsDue
  <2> QED  BY <1>4, <2>3, <2>5
<1>7. CASE Record!KeyFails
  <2>1. page' = [page EXCEPT !.keyGet = Record!KeyGot]  BY <1>7 DEF Record!KeyFails
  <2>2. /\ page' \in RecordPages /\ page'.wrote = page.wrote /\ page'.filter = page.filter
        /\ page'.shows = page.shows /\ page'.muddled = page.muddled
        /\ page'.linkHolds = page.linkHolds /\ page'.editKey = page.editKey /\ page'.keyGet = Record!KeyGot
    BY <1>1, <1>3, <2>1 DEF RecordPages
  <2>3. LinkInv'  BY <1>1, <1>3, <2>2 DEF LinkInv, NoKeyIsDue
  <2> QED  BY <1>4, <2>2, <2>3
<1> QED  BY <1>5, <1>6, <1>7

LEMMA ElsewhereInv ==
  ASSUME RecordInv, Record!Elsewhere
  PROVE  RecordInv'
<1> USE DEF RecordInv
<1>1. page \in RecordPages /\ links \in Nat /\ pageKey \in Nat /\ pageMinted \in Nat /\ tasks' = tasks
  BY DEF RecordShape, Record!Elsewhere
<1>2. page.keyGet \in [at : {"sent", "read", "done"}, key : Nat, fresh : BOOLEAN]  BY <1>1 DEF RecordPages
<1> DEFINE same == pageKey' = pageKey
<1>3. /\ page' = [page EXCEPT !.linkHolds = @ /\ same, !.keyGet.fresh = @ /\ same]
      /\ links' \in Nat /\ links <= links' /\ pageKey' \in Nat /\ pageMinted' \in Nat
  BY <1>1 DEF Record!Elsewhere, Record!NewKey, Record!ChangeLinks, Record!NoKey
<1>4. same \in BOOLEAN  OBVIOUS
<1>5. /\ page' \in RecordPages /\ page'.wrote = page.wrote /\ page'.filter = page.filter
      /\ page'.shows = page.shows /\ page'.muddled = page.muddled /\ page'.editKey = page.editKey
      /\ page'.linkHolds <=> page.linkHolds /\ same
      /\ page'.keyGet.fresh <=> page.keyGet.fresh /\ same
      /\ page'.keyGet.key = page.keyGet.key
  <2> HIDE DEF same
  <2> QED  BY <1>1, <1>2, <1>3, <1>4 DEF RecordPages
<1>6. RecordShape'  BY <1>1, <1>3, <1>5 DEF RecordShape
<1>7. LinkInv'  BY <1>1, <1>5 DEF LinkInv, NoKeyIsDue
<1>8. Record!Loading' = Record!Loading /\ (NoLinkIsDue' <=> NoLinkIsDue)
  BY <1>1 DEF Record!Loading, NoLinkIsDue
<1>9. ReloadInv'  BY <1>1, <1>5, <1>8 DEF ReloadInv
<1>10. page'.wrote <= links'  BY <1>1, <1>3, <1>5 DEF ChangeInv, RecordPages
<1>11. ChangeInv'  BY <1>1, <1>5, <1>8, <1>10 DEF ChangeInv
<1> QED  BY <1>6, <1>7, <1>9, <1>11

LEMMA RecordHolds == Record!Spec => []RecordInv
<1>1. Record!Init => RecordInv
  <2> SUFFICES ASSUME Record!Init PROVE RecordInv  OBVIOUS
  <2>1. /\ links = 0 /\ pageKey = 0 /\ pageMinted = 0
        /\ page = [loaded |-> FALSE, filter |-> Record!AllTraffic,
                   shows |-> [filter |-> Record!AllTraffic, links |-> 0],
                   busy |-> FALSE, editKey |-> 0,
                   keyGet |-> [at |-> "sent", key |-> 0, fresh |-> FALSE],
                   wrote |-> 0, muddled |-> FALSE, linkHolds |-> FALSE]
    BY DEF Record!Init, Record!NoKey
  <2> DEFINE r == [Record!Free EXCEPT !.at = "asked", !.alone = TRUE]
  <2>2. PICK t \in Task : tasks = [u \in Task |-> IF u = t THEN r ELSE Record!Free]
    BY DEF Record!Init
  <2>3. /\ r \in TaskRecord /\ r.at = "asked" /\ r.filter = Record!AllTraffic /\ r.alone
    BY DEF Record!Free, TaskRecord, Filters, Record!NoKey
  <2> HIDE DEF r
  <2>4. /\ tasks \in [Task -> TaskRecord] /\ tasks[t] = r
        /\ \A u \in Task : u # t => tasks[u] = Record!Free
    BY <2>2, <2>3, FreeIsTask
  <2>5. Record!Loading = {t}  BY <2>3, <2>4, FreeIsTask DEF Record!Loading
  <2>6. Record!AllTraffic \in Filters  BY DEF Filters
  <2>7. RecordShape
    <3>1. page \in RecordPages  BY <2>1, <2>6 DEF RecordPages
    <3> QED  BY <2>1, <2>4, <3>1 DEF RecordShape
  <2>8. LinkInv  BY <2>1 DEF LinkInv
  <2>9. ReloadInv  BY <2>1, <2>3, <2>4, <2>5 DEF ReloadInv
  <2>10. ChangeInv  BY <2>1, <2>3, <2>4, <2>5, FreeIsTask DEF ChangeInv
  <2> QED  BY <2>7, <2>8, <2>9, <2>10 DEF RecordInv
<1>2. RecordInv /\ [Record!Next]_Record!vars => RecordInv'
  <2> SUFFICES ASSUME RecordInv, [Record!Next]_Record!vars PROVE RecordInv'  OBVIOUS
  <2>1. CASE UNCHANGED Record!vars
    <3>1. UNCHANGED <<links, pageKey, pageMinted, page, tasks>>  BY <2>1 DEF Record!vars
    <3>2. Record!Loading' = Record!Loading  BY <3>1 DEF Record!Loading
    <3> QED  BY <3>1, <3>2 DEF RecordInv, RecordShape, LinkInv, ReloadInv, ChangeInv, NoKeyIsDue, NoLinkIsDue
  <2> QED  BY <2>1, ReloadStepInv, ActInv, WriteInv, AnswerInv, FailsInv, KeyGetInv, ElsewhereInv
              DEF Record!Next, Record!TaskStep
<1> QED  BY <1>1, <1>2, PTL DEF Record!Spec

(* What stands on the page is what the operator chose and did, in whatever  *)
(* order actions and reloads overlap: after reloads that did, or one that   *)
(* was lost, from when one has come that was alone.                         *)
THEOREM PageIsTrue == Record!Spec => []PageIsCurrent
<1>1. RecordInv => PageIsCurrent
  <2> SUFFICES ASSUME RecordInv
               PROVE  /\ Record!Loading = {} /\ ~page.muddled => page.shows.filter = page.filter
                      /\ (\A t \in Task : Record!IsFree(t)) /\ ~page.muddled =>
                           page.shows.links >= page.wrote
    BY DEF PageIsCurrent, Record!PageIsCurrent, Record!FunnelIsChosen, Record!OwnChangeIsShown
  <2>1. Record!Loading = {} /\ ~page.muddled => page.shows.filter = page.filter  BY DEF RecordInv, ReloadInv
  <2>2. ASSUME \A t \in Task : Record!IsFree(t), ~page.muddled PROVE page.shows.links >= page.wrote
    <3>1. NoLinkIsDue /\ Record!Loading = {}
      BY <2>2 DEF NoLinkIsDue, Record!LinkDue, Record!Loading, Record!IsFree
    <3>2. page.wrote <= page.shows.links  BY <2>2, <3>1 DEF RecordInv, ChangeInv
    <3> QED  BY <3>2 DEF RecordInv, RecordShape, RecordPages
  <2> QED  BY <2>1, <2>2
<1> QED  BY <1>1, RecordHolds, PTL

(* The link shown opens the editor until somebody else changes the key, the *)
(* answer of an action is lost or two actions on the key overlap.           *)
THEOREM LinkOpens == Record!Spec => []ShownLinkOpens
<1>1. RecordInv => ShownLinkOpens
  BY DEF RecordInv, LinkInv, NoKeyIsDue, ShownLinkOpens, Record!ShownLinkOpens
<1> QED  BY <1>1, RecordHolds, PTL

-----------------------------------------------------------------------------
(* The wizard.                                                              *)

Hosts == Store \cup {Form!NoStore}
Form0 == Form!EmptyForm
Tags == {"", "tag"}
Doc ==
  [template : Template \cup {Form!NoTemplate}, named : BOOLEAN,
   legal : {"unset", "default", "typed", "empty"}, offers : SUBSET Hosts, hosts : SUBSET Hosts,
   destination : Hosts, tag : Tags]
Reads == [of : {"site"}, read : {Form!NoSite} \cup Doc]
Fetches == {Form!ListRequest} \cup [of : {"template"}, template : Template \cup {Form!NoTemplate}]
WizardPages ==
  [step : 0..5, site : BOOLEAN, listed : BOOLEAN, schemas : SUBSET Template,
   save : {"none", "sent", "written", "validating"}, body : Doc,
   preflight : {"none", "ok", "errors"}, confirmed : BOOLEAN, installing : BOOLEAN,
   log : {"none", "failed"}, handmade : BOOLEAN, edited : BOOLEAN]

WizardShape ==
  /\ row \in {Form!NoSite} \cup Doc /\ form \in Doc
  /\ wizard \in WizardPages /\ requests \in SUBSET (Reads \cup Fetches)

(* There is a site to be patched; behind the second step, and in whatever   *)
(* was saved, the form's names are filled in, and without them it has no    *)
(* offers.                                                                  *)
NamedInv ==
  /\ wizard.site \/ wizard.save \in {"written", "validating"} => row # Form!NoSite
  /\ wizard.step >= 2 \/ wizard.save # "none" => form.named
  /\ wizard.save = "sent" => wizard.body.named
  /\ row # Form!NoSite => row.named
  /\ \A r \in requests \cap Reads : r.read # Form!NoSite => r.read.named
  /\ ~form.named => form.offers = {}

(* Wherever a document of the page is. *)
Sells(doc) == doc.offers \subseteq doc.hosts \cup {doc.destination}
ImportInv ==
  ~wizard.handmade =>
    /\ Sells(form) /\ Sells(wizard.body)
    /\ row # Form!NoSite => Sells(row)
    /\ \A r \in requests \cap Reads : r.read # Form!NoSite => Sells(r.read)

(* While a save is under way nothing counts as checked. *)
VettedInv ==
  /\ wizard.preflight = "ok" => Form!Valid(row)
  /\ wizard.save # "none" => wizard.preflight = "none"

WizardInv == WizardShape /\ NamedInv /\ ImportInv /\ VettedInv

LEMMA KindsOfRequest ==
  /\ Form!NoSite \notin Doc /\ Reads \cap Fetches = {}
  /\ Form!SiteRequest \in Reads /\ Form!SiteRequest.read = Form!NoSite
  /\ \A r \in Reads \cup Fetches : r.of = "site" => r \in Reads
  /\ \A r \in Reads : r.read = Form!NoSite => r = Form!SiteRequest
  /\ \A r \in Reads : r # Form!SiteRequest => r.read \in Doc
<1>1. Form!NoSite \notin Doc
  <2>1. "named" \notin DOMAIN Form!NoSite  BY DEF Form!NoSite
  <2>2. \A d \in Doc : "named" \in DOMAIN d  BY DEF Doc
  <2> QED  BY <2>1, <2>2
<1>2. \A r \in Reads : r.of = "site" /\ r = [of |-> "site", read |-> r.read]  BY DEF Reads
<1>3. \A r \in Fetches : r.of # "site"  BY DEF Fetches, Form!ListRequest
<1>4. Form!SiteRequest = [of |-> "site", read |-> Form!NoSite]  BY DEF Form!SiteRequest
<1>5. Form!SiteRequest \in Reads /\ Form!SiteRequest.read = Form!NoSite  BY <1>4 DEF Reads
<1>6. \A r \in Reads : r.read \in {Form!NoSite} \cup Doc  BY DEF Reads
<1> QED  BY <1>1, <1>2, <1>3, <1>4, <1>5, <1>6

LEMMA EmptyFormIsDoc == Form0 \in Doc /\ ~Form0.named /\ Form0.offers = {} /\ Sells(Form0)
BY DEF Form0, Form!EmptyForm, Doc, Hosts, Tags, Sells

(* Steps that leave the row, the form and the requests alone. *)
LEMMA PageStep ==
  ASSUME WizardInv, UNCHANGED <<row, form, requests>>, wizard' \in WizardPages,
         wizard'.site = wizard.site, wizard'.handmade = wizard.handmade,
         wizard'.body = wizard.body \/ wizard'.body = Form0 \/ wizard'.body = form,
         wizard'.save \in {"written", "validating"} => row # Form!NoSite,
         wizard'.step >= 2 \/ wizard'.save # "none" => form.named,
         wizard'.save = "sent" => wizard'.body.named,
         wizard'.preflight = "ok" => Form!Valid(row),
         wizard'.save # "none" => wizard'.preflight = "none"
  PROVE  WizardInv'
<1> USE DEF WizardInv
<1>1. WizardShape'  BY DEF WizardShape
<1>2. NamedInv'  BY DEF NamedInv
<1>3. ImportInv'
  <2>1. ~wizard'.handmade => Sells(wizard'.body)  BY EmptyFormIsDoc DEF ImportInv
  <2>2. Sells(form)' <=> Sells(form)  BY DEF Sells
  <2>3. Sells(row)' <=> Sells(row)  BY DEF Sells
  <2>4. Sells(wizard.body)' <=> Sells(wizard'.body)  BY DEF Sells
  <2> QED  BY <2>1, <2>2, <2>3, <2>4 DEF ImportInv, Sells
<1>4. VettedInv'
  <2>1. Form!Valid(row)' <=> Form!Valid(row)  BY DEF Form!Valid
  <2> QED  BY <2>1 DEF VettedInv
<1> QED  BY <1>1, <1>2, <1>3, <1>4

(* Changes of the form, and requests for lists and templates. *)
LEMMA FormStep ==
  ASSUME WizardInv, row' = row, form' \in Doc, wizard' \in WizardPages,
         requests' \in SUBSET (Reads \cup Fetches), requests' \cap Reads = requests \cap Reads,
         form.named => form'.named, ~form'.named => form'.offers = {},
         wizard'.handmade \/ (~wizard.handmade /\ Sells(form')),
         wizard'.site = wizard.site, wizard'.step = wizard.step, wizard'.save = wizard.save,
         wizard'.body = wizard.body, wizard'.preflight = wizard.preflight
  PROVE  WizardInv'
<1> USE DEF WizardInv
<1>2. WizardShape'  BY DEF WizardShape
<1>3. NamedInv'  BY DEF NamedInv
<1>4. ImportInv'
  <2> SUFFICES ASSUME ~wizard'.handmade
               PROVE  /\ Sells(form') /\ Sells(wizard'.body)
                      /\ row # Form!NoSite => Sells(row)
                      /\ \A r \in requests' \cap Reads : r.read # Form!NoSite => Sells(r.read)
    BY DEF ImportInv, Sells
  <2> QED  BY DEF ImportInv
<1>5. VettedInv'
  <2>1. Form!Valid(row)' <=> Form!Valid(row)  BY DEF Form!Valid
  <2> QED  BY <2>1 DEF VettedInv
<1> QED  BY <1>2, <1>3, <1>4, <1>5

LEMMA AskedRequests ==
  ASSUME WizardShape, NEW asked \in SUBSET Fetches, NEW answered \in SUBSET Fetches
  PROVE  /\ (requests \ answered) \cup asked \in SUBSET (Reads \cup Fetches)
         /\ ((requests \ answered) \cup asked) \cap Reads = requests \cap Reads
BY KindsOfRequest DEF WizardShape

LEMMA FetchingFetches ==
  ASSUME WizardShape, NEW t \in Template \cup {Form!NoTemplate}
  PROVE  Form!Fetching(t) \in SUBSET Fetches
BY DEF Form!Fetching, Form!TemplateRequest, Fetches

(* The answers to the GETs. *)
LEMMA ListsStep == ASSUME WizardInv, Form!ListsArrive PROVE WizardInv'
<1>1. /\ row' = row /\ form' = form /\ requests' = requests \ {Form!ListRequest}
      /\ wizard' = [wizard EXCEPT !.listed = TRUE, !.schemas = {}]
  BY DEF Form!ListsArrive
<1>2. WizardShape  BY DEF WizardInv
<1>3. wizard \in WizardPages /\ form \in Doc  BY <1>2 DEF WizardShape
<1>4. wizard' \in WizardPages  BY <1>1, <1>3 DEF WizardPages
<1>5. /\ wizard'.handmade = wizard.handmade /\ wizard'.site = wizard.site
      /\ wizard'.step = wizard.step /\ wizard'.save = wizard.save
      /\ wizard'.body = wizard.body /\ wizard'.preflight = wizard.preflight
  BY <1>1, <1>3 DEF WizardPages
<1>6. {} \in SUBSET Fetches /\ {Form!ListRequest} \in SUBSET Fetches  BY DEF Fetches
<1>7. requests' \in SUBSET (Reads \cup Fetches) /\ requests' \cap Reads = requests \cap Reads
  BY <1>1, <1>2, <1>6, AskedRequests
<1>8. (~wizard.handmade => Sells(form)) /\ (~form.named => form.offers = {})
  BY DEF WizardInv, ImportInv, NamedInv
<1>9. wizard.handmade \in BOOLEAN  BY <1>3 DEF WizardPages
<1>10. wizard'.handmade \/ (~wizard.handmade /\ Sells(form'))  BY <1>1, <1>5, <1>8, <1>9
<1> QED  BY <1>1, <1>3, <1>4, <1>5, <1>7, <1>8, <1>10, FormStep

LEMMA TemplateStep ==
  ASSUME WizardInv, NEW t \in Template, Form!TemplateArrives(t) PROVE WizardInv'
<1>1. /\ row' = row /\ requests' = requests \ {Form!TemplateRequest(t)}
      /\ form' = [form EXCEPT !.legal = IF form.legal = "unset" THEN "default" ELSE form.legal]
      /\ wizard' = [wizard EXCEPT !.schemas = IF wizard.listed THEN wizard.schemas \cup {t}
                                                              ELSE wizard.schemas]
  BY DEF Form!TemplateArrives, Form!FillDefaults
<1>2. WizardShape  BY DEF WizardInv
<1>3. wizard \in WizardPages /\ form \in Doc  BY <1>2 DEF WizardShape
<1>4. wizard' \in WizardPages  BY <1>1, <1>3 DEF WizardPages
<1>5. /\ wizard'.handmade = wizard.handmade /\ wizard'.site = wizard.site
      /\ wizard'.step = wizard.step /\ wizard'.save = wizard.save
      /\ wizard'.body = wizard.body /\ wizard'.preflight = wizard.preflight
  BY <1>1, <1>3 DEF WizardPages
<1>6. {} \in SUBSET Fetches /\ {Form!TemplateRequest(t)} \in SUBSET Fetches
  BY DEF Fetches, Form!TemplateRequest
<1>7. requests' \in SUBSET (Reads \cup Fetches) /\ requests' \cap Reads = requests \cap Reads
  BY <1>1, <1>2, <1>6, AskedRequests
<1>. DEFINE filled == IF form.legal = "unset" THEN "default" ELSE form.legal
<1>13. filled \in {"unset", "default", "typed", "empty"}  BY <1>3 DEF Doc
<1>14. form' = [form EXCEPT !.legal = filled]  BY <1>1
<1>. HIDE DEF filled
<1>8. form' \in Doc  BY <1>3, <1>13, <1>14 DEF Doc
<1>9. /\ form'.named = form.named /\ form'.offers = form.offers /\ form'.hosts = form.hosts
      /\ form'.destination = form.destination
  BY <1>3, <1>14 DEF Doc
<1>10. (~wizard.handmade => Sells(form)) /\ (~form.named => form.offers = {})
  BY DEF WizardInv, ImportInv, NamedInv
<1>11. wizard.handmade \in BOOLEAN  BY <1>3 DEF WizardPages
<1>12. wizard'.handmade \/ (~wizard.handmade /\ Sells(form'))
  BY <1>5, <1>9, <1>10, <1>11 DEF Sells
<1> QED  BY <1>1, <1>4, <1>5, <1>7, <1>8, <1>9, <1>10, <1>12, FormStep

(* The operator's changes. *)
LEMMA ChangeStep ==
  ASSUME WizardInv, row' = row, form' \in Doc,
         wizard' = wizard \/ wizard' = [wizard EXCEPT !.edited = TRUE],
         NEW asked \in SUBSET Fetches, requests' = requests \cup asked,
         form.named => form'.named, ~form'.named => form'.offers = {},
         ~wizard.handmade => Sells(form')
  PROVE  WizardInv'
<1>1. WizardShape  BY DEF WizardInv
<1>2. wizard \in WizardPages  BY <1>1 DEF WizardShape
<1>3. wizard' \in WizardPages  BY <1>2 DEF WizardPages
<1>4. /\ wizard'.handmade = wizard.handmade /\ wizard'.site = wizard.site
      /\ wizard'.step = wizard.step /\ wizard'.save = wizard.save
      /\ wizard'.body = wizard.body /\ wizard'.preflight = wizard.preflight
  BY <1>2 DEF WizardPages
<1>5. requests' = (requests \ {}) \cup asked  OBVIOUS
<1>6. requests' \in SUBSET (Reads \cup Fetches) /\ requests' \cap Reads = requests \cap Reads
  BY <1>1, <1>5, AskedRequests
<1>7. wizard.handmade \in BOOLEAN  BY <1>2 DEF WizardPages
<1>8. wizard'.handmade \/ (~wizard.handmade /\ Sells(form'))  BY <1>4, <1>7
<1> QED  BY <1>3, <1>4, <1>6, <1>8, FormStep

LEMMA FormFacts ==
  ASSUME WizardInv
  PROVE  /\ form \in Doc /\ wizard \in WizardPages /\ WizardShape
         /\ ~wizard.handmade => Sells(form)
         /\ ~form.named => form.offers = {}
BY DEF WizardInv, WizardShape, ImportInv, NamedInv

LEMMA PickTemplateStep ==
  ASSUME WizardInv, NEW t \in Template, Form!PickTemplate(t) PROVE WizardInv'
<1>1. /\ row' = row /\ form' = [form EXCEPT !.template = t]
      /\ wizard' = [wizard EXCEPT !.edited = TRUE]
      /\ requests' = requests \cup Form!Fetching(t)
  BY DEF Form!PickTemplate
<1>2. form \in Doc /\ WizardShape  BY FormFacts
<1>3. form' \in Doc  BY <1>1, <1>2 DEF Doc
<1>4. /\ form'.named = form.named /\ form'.offers = form.offers /\ form'.hosts = form.hosts
      /\ form'.destination = form.destination
  BY <1>1, <1>2 DEF Doc
<1>5. Sells(form) => Sells(form')  BY <1>4 DEF Sells
<1>6. Form!Fetching(t) \in SUBSET Fetches  BY <1>2, FetchingFetches
<1> QED  BY <1>1, <1>3, <1>4, <1>5, <1>6, FormFacts, ChangeStep

LEMMA FillInStep ==
  ASSUME WizardInv, NEW store \in Store, Form!FillIn(store) PROVE WizardInv'
<1>1. /\ row' = row /\ form' = [form EXCEPT !.named = TRUE, !.destination = store]
      /\ wizard' = [wizard EXCEPT !.edited = TRUE] /\ requests' = requests \cup {}
      /\ ~form.named
  BY DEF Form!FillIn
<1>2. form \in Doc  BY FormFacts
<1>3. store \in Hosts  BY DEF Hosts
<1>4. form' \in Doc  BY <1>1, <1>2, <1>3 DEF Doc
<1>5. form'.named /\ form'.offers = form.offers  BY <1>1, <1>2 DEF Doc
<1>6. Sells(form')  BY <1>1, <1>5, FormFacts DEF Sells
<1>7. {} \in SUBSET Fetches  OBVIOUS
<1> QED  BY <1>1, <1>4, <1>5, <1>6, <1>7, FormFacts, ChangeStep

LEMMA AddClientStep == ASSUME WizardInv, Form!AddClient PROVE WizardInv'
<1>1. /\ row' = row /\ form' = form /\ wizard' = wizard
      /\ requests' = requests \cup {Form!ListRequest}
  BY DEF Form!AddClient, Form!Edit
<1>2. {Form!ListRequest} \in SUBSET Fetches  BY DEF Fetches
<1> QED  BY <1>1, <1>2, FormFacts, ChangeStep

LEMMA SetStoresStep ==
  ASSUME WizardInv, NEW store \in Store, NEW hosts \in HostList, HostList \subseteq SUBSET Store,
         Form!SetStores(store, hosts)
  PROVE  WizardInv'
<1>. DEFINE byHand == form.offers # {} \/ (row # Form!NoSite /\ row.offers # {})
<1>1. /\ row' = row /\ form' = [form EXCEPT !.destination = store, !.hosts = hosts]
      /\ wizard' = [wizard EXCEPT !.edited = TRUE, !.handmade = wizard.handmade \/ byHand]
      /\ requests' = requests
  BY DEF Form!SetStores, Form!Edit
<1>2. form \in Doc /\ wizard \in WizardPages /\ WizardShape  BY FormFacts
<1>3. store \in Hosts /\ hosts \in SUBSET Hosts  BY DEF Hosts
<1>4. form' \in Doc  BY <1>1, <1>2, <1>3 DEF Doc
<1>5. form'.named = form.named /\ form'.offers = form.offers  BY <1>1, <1>2 DEF Doc
<1>6. byHand \in BOOLEAN /\ wizard.handmade \in BOOLEAN  BY <1>2 DEF WizardPages
<1>7. form.offers = {} \/ byHand  OBVIOUS
<1>. HIDE DEF byHand
<1>8. (wizard.handmade \/ byHand) \in BOOLEAN  BY <1>6
<1>9. wizard' \in WizardPages  BY <1>1, <1>2, <1>8 DEF WizardPages
<1>10. /\ wizard'.handmade = (wizard.handmade \/ byHand) /\ wizard'.site = wizard.site
       /\ wizard'.step = wizard.step /\ wizard'.save = wizard.save
       /\ wizard'.body = wizard.body /\ wizard'.preflight = wizard.preflight
  BY <1>1, <1>2 DEF WizardPages
<1>11. form.offers = {} => Sells(form')  BY <1>5 DEF Sells
<1>12. wizard'.handmade \/ (~wizard.handmade /\ Sells(form'))
  BY <1>7, <1>10, <1>11
<1>13. requests' \in SUBSET (Reads \cup Fetches) /\ requests' \cap Reads = requests \cap Reads
  BY <1>1, <1>2 DEF WizardShape
<1> QED  BY <1>1, <1>4, <1>5, <1>9, <1>10, <1>12, <1>13, FormFacts, FormStep

LEMMA SetLegalStep ==
  ASSUME WizardInv, NEW text \in {"typed", "empty"}, Form!SetLegal(text) PROVE WizardInv'
<1>1. /\ row' = row /\ form' = [form EXCEPT !.legal = text]
      /\ wizard' = [wizard EXCEPT !.edited = TRUE] /\ requests' = requests \cup {}
  BY DEF Form!SetLegal, Form!Edit
<1>2. form \in Doc  BY FormFacts
<1>3. form' \in Doc  BY <1>1, <1>2 DEF Doc
<1>4. /\ form'.named = form.named /\ form'.offers = form.offers /\ form'.hosts = form.hosts
      /\ form'.destination = form.destination
  BY <1>1, <1>2 DEF Doc
<1>5. Sells(form) => Sells(form')  BY <1>4 DEF Sells
<1>6. {} \in SUBSET Fetches  OBVIOUS
<1> QED  BY <1>1, <1>3, <1>4, <1>5, <1>6, FormFacts, ChangeStep

LEMMA SetTagStep ==
  ASSUME WizardInv, NEW tag \in Tags, Form!SetTag(tag) PROVE WizardInv'
<1>1. /\ row' = row /\ form' = [form EXCEPT !.tag = tag]
      /\ wizard' = [wizard EXCEPT !.edited = TRUE] /\ requests' = requests \cup {}
  BY DEF Form!SetTag, Form!Edit
<1>2. form \in Doc  BY FormFacts
<1>3. form' \in Doc  BY <1>1, <1>2 DEF Doc
<1>4. /\ form'.named = form.named /\ form'.offers = form.offers /\ form'.hosts = form.hosts
      /\ form'.destination = form.destination
  BY <1>1, <1>2 DEF Doc
<1>5. Sells(form) => Sells(form')  BY <1>4 DEF Sells
<1>6. {} \in SUBSET Fetches  OBVIOUS
<1> QED  BY <1>1, <1>3, <1>4, <1>5, <1>6, FormFacts, ChangeStep

(* An import is of an offer, so the form is named: the parameters are shown *)
(* in the third step only.                                                  *)
LEMMA ImportStep ==
  ASSUME WizardInv, NEW host \in Store, Form!ImportOffer(host) PROVE WizardInv'
<1>. DEFINE allowed == Form!AddAllowedHost(form, host)
<1>1. /\ row' = row
      /\ form' = [form EXCEPT !.offers = form.offers \cup {host}, !.hosts = allowed]
      /\ wizard' = [wizard EXCEPT !.edited = TRUE] /\ requests' = requests \cup {}
      /\ wizard.step = 3
  BY DEF Form!ImportOffer, Form!Edit, Form!Parameters, Form!At
<1>2. form \in Doc  BY FormFacts
<1>3. form.named  BY <1>1 DEF WizardInv, NamedInv
<1>4. host \in Hosts /\ form.hosts \in SUBSET Hosts /\ form.offers \in SUBSET Hosts
  BY <1>2 DEF Hosts, Doc
<1>5. allowed \in SUBSET Hosts /\ form.offers \cup {host} \in SUBSET Hosts
  BY <1>4 DEF Form!AddAllowedHost
<1>6. form.hosts \cup {host} \subseteq allowed \cup {form.destination}
  BY DEF Form!AddAllowedHost
<1>. HIDE DEF allowed
<1>7. form' \in Doc  BY <1>1, <1>2, <1>5 DEF Doc
<1>8. /\ form'.named = form.named /\ form'.offers = form.offers \cup {host}
      /\ form'.hosts = allowed /\ form'.destination = form.destination
  BY <1>1, <1>2 DEF Doc
<1>9. Sells(form) => Sells(form')  BY <1>6, <1>8 DEF Sells
<1> QED  BY <1>1, <1>3, <1>7, <1>8, <1>9, FormFacts, ChangeStep

LEMMA RemoveStep ==
  ASSUME WizardInv, NEW host \in Store, Form!RemoveOffer(host) PROVE WizardInv'
<1>1. /\ row' = row /\ form' = [form EXCEPT !.offers = form.offers \ {host}]
      /\ wizard' = [wizard EXCEPT !.edited = TRUE] /\ requests' = requests \cup {}
  BY DEF Form!RemoveOffer, Form!Edit
<1>2. form \in Doc  BY FormFacts
<1>3. form' \in Doc  BY <1>1, <1>2 DEF Doc
<1>4. /\ form'.named = form.named /\ form'.offers = form.offers \ {host}
      /\ form'.hosts = form.hosts /\ form'.destination = form.destination
  BY <1>1, <1>2 DEF Doc
<1>5. Sells(form) => Sells(form')  BY <1>4 DEF Sells
<1>6. {} \in SUBSET Fetches  OBVIOUS
<1> QED  BY <1>1, <1>3, <1>4, <1>5, <1>6, FormFacts, ChangeStep

(* The page's buttons, and the answers to its validation and its install.   *)
LEMMA PageFacts ==
  ASSUME WizardInv
  PROVE  /\ wizard \in WizardPages /\ form \in Doc /\ Form0 \in Doc /\ wizard.step \in 0..5
         /\ wizard.site => row # Form!NoSite
         /\ wizard.save \in {"written", "validating"} => row # Form!NoSite
         /\ wizard.step >= 2 => form.named
         /\ wizard.save # "none" => form.named /\ wizard.preflight = "none"
         /\ wizard.save = "sent" => wizard.body.named
         /\ wizard.preflight = "ok" => Form!Valid(row)
<1>1. wizard \in WizardPages /\ form \in Doc  BY DEF WizardInv, WizardShape
<1>2. wizard.step \in 0..5  BY <1>1 DEF WizardPages
<1> QED  BY <1>1, <1>2, EmptyFormIsDoc DEF WizardInv, NamedInv, VettedInv

LEMMA ForwardStep == ASSUME WizardInv, Form!Forward PROVE WizardInv'
<1>1. /\ UNCHANGED <<row, form, requests>> /\ wizard' = [wizard EXCEPT !.step = wizard.step + 1]
  BY DEF Form!Forward
<1>2. wizard.step + 1 \in 0..5 /\ (wizard.step + 1 >= 2 => form.named)
  <2>1. wizard.step \in {2, 3} \/ wizard.step = 0 \/ (wizard.step = 1 /\ form.named)
    BY DEF Form!Forward, Form!CanNext, Form!At
  <2> QED  BY <2>1, PageFacts
<1>3. wizard \in WizardPages  BY PageFacts
<1>4. wizard' \in WizardPages  BY <1>1, <1>2, <1>3 DEF WizardPages
<1>5. /\ wizard'.step = wizard.step + 1 /\ wizard'.site = wizard.site
      /\ wizard'.handmade = wizard.handmade /\ wizard'.body = wizard.body
      /\ wizard'.save = wizard.save /\ wizard'.preflight = wizard.preflight
  BY <1>1, <1>3 DEF WizardPages
<1> QED  BY <1>1, <1>2, <1>4, <1>5, PageFacts, PageStep

LEMMA BackStep == ASSUME WizardInv, Form!Back PROVE WizardInv'
<1>1. /\ UNCHANGED <<row, form, requests>> /\ wizard' = [wizard EXCEPT !.step = wizard.step - 1]
      /\ wizard.step > 0
  BY DEF Form!Back
<1>2. wizard.step - 1 \in 0..5 /\ (wizard.step - 1 >= 2 => form.named)
  BY <1>1, PageFacts
<1>3. wizard \in WizardPages  BY PageFacts
<1>4. wizard' \in WizardPages  BY <1>1, <1>2, <1>3 DEF WizardPages
<1>5. /\ wizard'.step = wizard.step - 1 /\ wizard'.site = wizard.site
      /\ wizard'.handmade = wizard.handmade /\ wizard'.body = wizard.body
      /\ wizard'.save = wizard.save /\ wizard'.preflight = wizard.preflight
  BY <1>1, <1>3 DEF WizardPages
<1> QED  BY <1>1, <1>2, <1>4, <1>5, PageFacts, PageStep

LEMMA SaveStep == ASSUME WizardInv, Form!Save PROVE WizardInv'
<1>1. /\ UNCHANGED <<row, form, requests>> /\ wizard.step \in {4, 5}
      /\ wizard' = [wizard EXCEPT !.save = "sent", !.body = form, !.edited = FALSE,
                                  !.preflight = "none"]
  BY DEF Form!Save
<1>2. wizard \in WizardPages /\ form \in Doc /\ form.named  BY <1>1, PageFacts
<1>3. wizard' \in WizardPages  BY <1>1, <1>2 DEF WizardPages
<1>4. /\ wizard'.step = wizard.step /\ wizard'.site = wizard.site
      /\ wizard'.handmade = wizard.handmade /\ wizard'.body = form
      /\ wizard'.save = "sent" /\ wizard'.preflight = "none"
  BY <1>1, <1>2 DEF WizardPages
<1> QED  BY <1>1, <1>2, <1>3, <1>4, PageStep

LEMMA ValidateStep == ASSUME WizardInv, Form!Validate PROVE WizardInv'
<1>. DEFINE found == IF Form!Valid(row) THEN "ok" ELSE "errors"
<1>1. /\ UNCHANGED <<row, form, requests>> /\ wizard.save = "validating"
      /\ wizard' = [wizard EXCEPT !.save = "none", !.step = 5, !.preflight = found]
  BY DEF Form!Validate
<1>2. found \in {"none", "ok", "errors"}  OBVIOUS
<1>6. found = "ok" => Form!Valid(row)  OBVIOUS
<1>7. 5 \in 0..5  OBVIOUS
<1>. HIDE DEF found
<1>3. wizard \in WizardPages /\ form.named  BY <1>1, PageFacts
<1>4. wizard' \in WizardPages  BY <1>1, <1>2, <1>3, <1>7 DEF WizardPages
<1>5. /\ wizard'.step = 5 /\ wizard'.site = wizard.site
      /\ wizard'.handmade = wizard.handmade /\ wizard'.body = wizard.body
      /\ wizard'.save = "none" /\ wizard'.preflight = found
  BY <1>1, <1>3 DEF WizardPages
<1> QED  BY <1>1, <1>3, <1>4, <1>5, <1>6, PageStep

LEMMA SaveFailsStep == ASSUME WizardInv, Form!SaveFails PROVE WizardInv'
<1>1. /\ UNCHANGED <<row, form, requests>>
      /\ wizard' = [wizard EXCEPT !.save = "none", !.body = Form0]
  BY DEF Form!SaveFails, Form0
<1>2. wizard \in WizardPages /\ Form0 \in Doc  BY PageFacts
<1>3. wizard' \in WizardPages  BY <1>1, <1>2 DEF WizardPages
<1>4. /\ wizard'.step = wizard.step /\ wizard'.site = wizard.site
      /\ wizard'.handmade = wizard.handmade /\ wizard'.body = Form0
      /\ wizard'.save = "none" /\ wizard'.preflight = wizard.preflight
  BY <1>1, <1>2 DEF WizardPages
<1> QED  BY <1>1, <1>3, <1>4, PageFacts, PageStep

(* The confirmation, the install and its end leave all but themselves.      *)
LEMMA InstallStep ==
  ASSUME WizardInv, Form!Confirm \/ Form!Install \/ Form!Retry \/ Form!InstallEnds
  PROVE  WizardInv'
<1>1. /\ UNCHANGED <<row, form, requests>>
      /\ \/ wizard' = [wizard EXCEPT !.confirmed = ~wizard.confirmed]
         \/ wizard' = [wizard EXCEPT !.installing = TRUE, !.log = "none"]
         \/ wizard' = [wizard EXCEPT !.installing = FALSE]
         \/ wizard' = [wizard EXCEPT !.installing = FALSE, !.log = "failed"]
  BY DEF Form!Confirm, Form!Install, Form!Retry, Form!InstallEnds
<1>2. wizard \in WizardPages  BY PageFacts
<1>3. (~wizard.confirmed) \in BOOLEAN  OBVIOUS
<1>4. wizard' \in WizardPages  BY <1>1, <1>2, <1>3 DEF WizardPages
<1>5. /\ wizard'.step = wizard.step /\ wizard'.site = wizard.site
      /\ wizard'.handmade = wizard.handmade /\ wizard'.body = wizard.body
      /\ wizard'.save = wizard.save /\ wizard'.preflight = wizard.preflight
  BY <1>1, <1>2 DEF WizardPages
<1> QED  BY <1>1, <1>4, <1>5, PageFacts, PageStep

(* The site itself: read, answered, created, patched, loaded again.         *)
LEMMA ReadSiteStep ==
  ASSUME WizardInv, NEW r \in requests, Form!ReadSite(r) PROVE WizardInv'
<1>. DEFINE answer == [of |-> "site", read |-> row]
<1>1. /\ r = Form!SiteRequest /\ UNCHANGED <<row, form, wizard>>
      /\ requests' = (requests \ {r}) \cup {answer}
  BY DEF Form!ReadSite, Form!SiteRequest
<1>2. WizardShape /\ NamedInv /\ ImportInv /\ VettedInv  BY DEF WizardInv
<1>3. answer \in Reads /\ answer.read = row  BY <1>2 DEF WizardShape, Reads
<1>. HIDE DEF answer
<1>4. WizardShape'  BY <1>1, <1>2, <1>3 DEF WizardShape
<1>5. requests' \cap Reads \subseteq (requests \cap Reads) \cup {answer}  BY <1>1
<1>6. NamedInv'
  <2>1. \A q \in requests' \cap Reads : q.read # Form!NoSite => q.read.named
    BY <1>2, <1>3, <1>5 DEF NamedInv
  <2> QED  BY <1>1, <1>2, <2>1 DEF NamedInv
<1>7. ImportInv'
  <2>1. /\ Sells(form)' <=> Sells(form)
        /\ Sells(row)' <=> Sells(row)
        /\ Sells(wizard.body)' <=> Sells(wizard.body)
    BY <1>1 DEF Sells
  <2>2. ~wizard.handmade => \A q \in requests' \cap Reads : q.read # Form!NoSite => Sells(q.read)
    BY <1>2, <1>3, <1>5 DEF ImportInv
  <2> QED  BY <1>1, <1>2, <2>1, <2>2 DEF ImportInv, Sells
<1>8. VettedInv'  BY <1>1, <1>2 DEF VettedInv, Form!Valid
<1> QED  BY <1>4, <1>6, <1>7, <1>8 DEF WizardInv

LEMMA SiteArrivesStep ==
  ASSUME WizardInv, NEW r \in requests, Form!SiteArrives(r) PROVE WizardInv'
<1>. DEFINE asked == Form!Fetching(r.read.template)
<1>1. /\ r.of = "site" /\ r # Form!SiteRequest /\ UNCHANGED <<row, wizard>>
      /\ form' = r.read /\ requests' = (requests \ {r}) \cup asked
  BY DEF Form!SiteArrives
<1>2. WizardShape /\ NamedInv /\ ImportInv /\ VettedInv  BY DEF WizardInv
<1>3. r \in Reads /\ r.read \in Doc /\ r.read # Form!NoSite
  BY <1>1, <1>2, KindsOfRequest DEF WizardShape
<1>4. asked \in SUBSET Fetches
  <2>1. r.read.template \in Template \cup {Form!NoTemplate}  BY <1>3 DEF Doc
  <2> QED  BY <1>2, <2>1, FetchingFetches
<1>. HIDE DEF asked
<1>5. requests' \cap Reads \subseteq requests \cap Reads  BY <1>1, <1>4, KindsOfRequest
<1>6. WizardShape'  BY <1>1, <1>2, <1>3, <1>4 DEF WizardShape
<1>7. form'.named  BY <1>1, <1>2, <1>3 DEF NamedInv
<1>8. NamedInv'  BY <1>1, <1>2, <1>5, <1>7 DEF NamedInv
<1>9. ImportInv'
  <2>1. /\ Sells(row)' <=> Sells(row)
        /\ Sells(wizard.body)' <=> Sells(wizard.body)
    BY <1>1 DEF Sells
  <2>2. ~wizard.handmade => Sells(form')  BY <1>1, <1>2, <1>3 DEF ImportInv
  <2> QED  BY <1>1, <1>2, <1>5, <2>1, <2>2 DEF ImportInv, Sells
<1>10. VettedInv'  BY <1>1, <1>2 DEF VettedInv, Form!Valid
<1> QED  BY <1>6, <1>8, <1>9, <1>10 DEF WizardInv

(* What was sent becomes the row. *)
LEMMA RowStep ==
  ASSUME WizardInv, UNCHANGED <<form, requests>>, row' \in Doc, row'.named,
         wizard.save = "sent",
         wizard' = [wizard EXCEPT !.save = "written", !.body = Form0],
         ~wizard.handmade => Sells(row')
  PROVE  WizardInv'
<1>1. WizardShape /\ NamedInv /\ ImportInv /\ VettedInv  BY DEF WizardInv
<1>2. wizard \in WizardPages /\ Form0 \in Doc /\ wizard.preflight = "none" /\ form.named
  BY PageFacts
<1>3. wizard' \in WizardPages  BY <1>2 DEF WizardPages
<1>4. /\ wizard'.step = wizard.step /\ wizard'.site = wizard.site
      /\ wizard'.handmade = wizard.handmade /\ wizard'.body = Form0
      /\ wizard'.save = "written" /\ wizard'.preflight = "none"
  BY <1>2 DEF WizardPages
<1>5. row' # Form!NoSite  BY KindsOfRequest
<1>6. WizardShape'  BY <1>1, <1>3 DEF WizardShape
<1>7. NamedInv'  BY <1>1, <1>2, <1>4, <1>5 DEF NamedInv
<1>8. ImportInv'
  <2>1. Sells(form)' <=> Sells(form)  BY DEF Sells
  <2>2. Sells(wizard'.body)  BY <1>4, EmptyFormIsDoc
  <2> QED  BY <1>1, <1>4, <2>1, <2>2 DEF ImportInv, Sells
<1>9. VettedInv'  BY <1>4 DEF VettedInv
<1> QED  BY <1>6, <1>7, <1>8, <1>9 DEF WizardInv

LEMMA CreateStep == ASSUME WizardInv, Form!Create PROVE WizardInv'
<1>1. /\ UNCHANGED <<form, requests>> /\ wizard.save = "sent" /\ row' = wizard.body
      /\ wizard' = [wizard EXCEPT !.save = "written", !.body = Form0]
  BY DEF Form!Create, Form0
<1>2. wizard \in WizardPages /\ wizard.body.named  BY <1>1, PageFacts
<1>3. wizard.body \in Doc  BY <1>2 DEF WizardPages
<1>4. ~wizard.handmade => Sells(wizard.body)  BY DEF WizardInv, ImportInv
<1> QED  BY <1>1, <1>2, <1>3, <1>4, RowStep

LEMMA PatchStep == ASSUME WizardInv, Form!Patch PROVE WizardInv'
<1>. DEFINE body == wizard.body
            tag  == IF body.tag = "" THEN row.tag ELSE body.tag
<1>1. /\ UNCHANGED <<form, requests>> /\ wizard.save = "sent" /\ wizard.site
      /\ row' = [body EXCEPT !.tag = tag]
      /\ wizard' = [wizard EXCEPT !.save = "written", !.body = Form0]
  BY DEF Form!Patch, Form!Patched, Form0
<1>2. wizard \in WizardPages /\ body.named /\ row # Form!NoSite  BY <1>1, PageFacts
<1>3. row \in Doc  BY <1>2 DEF WizardInv, WizardShape
<1>4. body \in Doc  BY <1>2 DEF WizardPages
<1>5. row.tag \in Tags /\ body.tag \in Tags  BY <1>3, <1>4 DEF Doc
<1>6. tag \in Tags  BY <1>5
<1>7. ~wizard.handmade => Sells(body)  BY DEF WizardInv, ImportInv
<1>. HIDE DEF body, tag
<1>8. row' \in Doc  BY <1>1, <1>4, <1>6 DEF Doc
<1>9. /\ row'.named = body.named /\ row'.offers = body.offers /\ row'.hosts = body.hosts
      /\ row'.destination = body.destination
  BY <1>1, <1>4 DEF Doc
<1>10. ~wizard.handmade => Sells(row')  BY <1>7, <1>9 DEF Sells
<1> QED  BY <1>1, <1>2, <1>8, <1>9, <1>10, RowStep

LEMMA WrittenStep == ASSUME WizardInv, Form!Written PROVE WizardInv'
<1>. DEFINE asked == IF wizard.site THEN {} ELSE {Form!SiteRequest}
<1>1. /\ UNCHANGED <<row, form>> /\ wizard.save = "written"
      /\ wizard' = [wizard EXCEPT !.save = "validating", !.site = TRUE]
      /\ requests' = requests \cup asked
  BY DEF Form!Written
<1>2. asked \subseteq {Form!SiteRequest}  OBVIOUS
<1>. HIDE DEF asked
<1>3. WizardShape /\ NamedInv /\ ImportInv /\ VettedInv  BY DEF WizardInv
<1>4. wizard \in WizardPages /\ wizard.preflight = "none" /\ form.named /\ row # Form!NoSite
  BY <1>1, PageFacts
<1>5. wizard' \in WizardPages  BY <1>1, <1>4 DEF WizardPages
<1>6. /\ wizard'.step = wizard.step /\ wizard'.site
      /\ wizard'.handmade = wizard.handmade /\ wizard'.body = wizard.body
      /\ wizard'.save = "validating" /\ wizard'.preflight = "none"
  BY <1>1, <1>4 DEF WizardPages
<1>7. \A q \in requests' \cap Reads : q \in requests \cap Reads \/ q.read = Form!NoSite
  BY <1>1, <1>2, KindsOfRequest
<1>8. WizardShape'  BY <1>1, <1>2, <1>3, <1>5, KindsOfRequest DEF WizardShape
<1>9. NamedInv'  BY <1>1, <1>3, <1>4, <1>6, <1>7 DEF NamedInv
<1>10. ImportInv'
  <2>1. /\ Sells(form)' <=> Sells(form)
        /\ Sells(row)' <=> Sells(row)
        /\ Sells(wizard.body)' <=> Sells(wizard.body)
    BY <1>1, <1>6 DEF Sells
  <2>2. ~wizard.handmade => \A q \in requests' \cap Reads : q.read # Form!NoSite => Sells(q.read)
    BY <1>3, <1>7 DEF ImportInv
  <2> QED  BY <1>1, <1>3, <1>6, <2>1, <2>2 DEF ImportInv, Sells
<1>11. VettedInv'  BY <1>6 DEF VettedInv
<1> QED  BY <1>8, <1>9, <1>10, <1>11 DEF WizardInv

LEMMA WizardStarts == ASSUME Form!Init PROVE WizardInv
<1>1. Form!Page(FALSE) \in WizardPages /\ Form!Page(TRUE) \in WizardPages
  BY EmptyFormIsDoc DEF Form!Page, WizardPages, Form0
<1>2. \A b \in BOOLEAN : /\ ~Form!Page(b).handmade /\ Form!Page(b).site = b
                         /\ Form!Page(b).save = "none" /\ Form!Page(b).step = 0
                         /\ Form!Page(b).preflight = "none" /\ Form!Page(b).body = Form0
  BY DEF Form!Page, Form0
<1>3. wizard \in WizardPages /\ ~wizard.handmade /\ wizard.save = "none" /\ wizard.step = 0
      /\ wizard.preflight = "none" /\ wizard.body = Form0 /\ form = Form0
  BY <1>1, <1>2 DEF Form!Init, Form0
<1>4. Form!ListRequest \in Fetches  BY DEF Fetches
<1>5. requests \in SUBSET (Reads \cup Fetches)  BY <1>4, KindsOfRequest DEF Form!Init
<1>6. \A r \in requests \cap Reads : r.read = Form!NoSite
  BY <1>4, KindsOfRequest DEF Form!Init
<1>. DEFINE t == CHOOSE x \in Template : TRUE
            s == CHOOSE x \in Store : TRUE
<1>7. t \in Template /\ s \in Hosts  BY FormAssumption DEF Hosts
<1>8. Form!Stored = [Form0 EXCEPT !.template = t, !.named = TRUE, !.legal = "default",
                                  !.destination = s, !.tag = "tag"]
  BY DEF Form!Stored, Form0
<1>. HIDE DEF t, s
<1>9. "tag" \in Tags  BY DEF Tags
<1>10. Form!Stored \in Doc  BY <1>7, <1>8, <1>9, EmptyFormIsDoc DEF Doc
<1>11. Form!Stored.named /\ Form!Stored.offers = {}  BY <1>8, EmptyFormIsDoc DEF Doc
<1>12. \/ row = Form!NoSite /\ wizard = Form!Page(FALSE)
       \/ row = Form!Stored /\ wizard = Form!Page(TRUE)
  BY DEF Form!Init
<1>13. row \in {Form!NoSite} \cup Doc /\ (row # Form!NoSite => row.named /\ row.offers = {})
  BY <1>10, <1>11, <1>12
<1>14. wizard.site => row # Form!NoSite  BY <1>2, <1>10, <1>12, KindsOfRequest
<1>15. WizardShape  BY <1>3, <1>5, <1>13, EmptyFormIsDoc DEF WizardShape
<1>16. NamedInv  BY <1>3, <1>6, <1>13, <1>14, EmptyFormIsDoc DEF NamedInv
<1>17. ImportInv
  <2>1. row # Form!NoSite => Sells(row)  BY <1>13 DEF Sells
  <2> QED  BY <1>3, <1>6, <2>1, EmptyFormIsDoc DEF ImportInv
<1>18. VettedInv  BY <1>3 DEF VettedInv
<1> QED  BY <1>15, <1>16, <1>17, <1>18 DEF WizardInv

LEMMA WizardSteps == ASSUME WizardInv, Form!Next PROVE WizardInv'
<1>1. CASE Form!ListsArrive \/ \E t \in Template : Form!TemplateArrives(t)
  BY <1>1, ListsStep, TemplateStep
<1>2. CASE \E r \in requests : Form!ReadSite(r) \/ Form!SiteArrives(r)
  BY <1>2, ReadSiteStep, SiteArrivesStep
<1>3. CASE Form!Change
  <2>1. CASE Form!AddClient \/ \E t \in Template : Form!PickTemplate(t)
    BY <2>1, AddClientStep, PickTemplateStep
  <2>2. CASE \E s \in Store : Form!FillIn(s) \/ Form!ImportOffer(s) \/ Form!RemoveOffer(s)
    BY <2>2, FillInStep, ImportStep, RemoveStep
  <2>3. CASE \E s \in Store, hosts \in HostList : Form!SetStores(s, hosts)
    BY <2>3, SetStoresStep, FormAssumption
  <2>4. CASE \E text \in {"typed", "empty"} : Form!SetLegal(text)  BY <2>4, SetLegalStep
  <2>5. CASE \E tag \in Tags : Form!SetTag(tag)  BY <2>5, SetTagStep
  <2> QED  BY <1>3, <2>1, <2>2, <2>3, <2>4, <2>5 DEF Form!Change, Tags
<1>4. CASE Form!Forward \/ Form!Back \/ Form!Save \/ Form!Validate \/ Form!SaveFails
  BY <1>4, ForwardStep, BackStep, SaveStep, ValidateStep, SaveFailsStep
<1>5. CASE Form!Create \/ Form!Patch \/ Form!Written
  BY <1>5, CreateStep, PatchStep, WrittenStep
<1>6. CASE Form!Confirm \/ Form!Install \/ Form!Retry \/ Form!InstallEnds
  BY <1>6, InstallStep
<1> QED  BY <1>1, <1>2, <1>3, <1>4, <1>5, <1>6 DEF Form!Next

LEMMA WizardHolds == Form!Spec => []WizardInv
<1>1. Form!Init => WizardInv  BY WizardStarts
<1>2. WizardInv /\ [Form!Next]_Form!vars => WizardInv'
  <2> SUFFICES ASSUME WizardInv, [Form!Next]_Form!vars PROVE WizardInv'  OBVIOUS
  <2>1. CASE Form!Next  BY <2>1, WizardSteps
  <2>2. CASE UNCHANGED Form!vars
    <3>1. UNCHANGED <<row, form, wizard, requests>>  BY <2>2 DEF Form!vars
    <3>2. WizardShape' /\ NamedInv'  BY <3>1 DEF WizardInv, WizardShape, NamedInv
    <3>3. ImportInv'  BY <3>1 DEF WizardInv, ImportInv, Sells
    <3>4. VettedInv'  BY <3>1 DEF WizardInv, VettedInv, Form!Valid
    <3> QED  BY <3>2, <3>3, <3>4 DEF WizardInv
  <2> QED  BY <2>1, <2>2
<1> QED  BY <1>1, <1>2, PTL DEF Form!Spec

(* What the product finder imported stands in the form, and in the row once *)
(* it is saved, with its store as the destination or an allowed host, in    *)
(* whichever order the page's answers, its saves and their losses come,     *)
(* unless the operator changed the stores by hand (addAllowedHost and       *)
(* saveAndValidate of NewSitePage).                                         *)
THEOREM ImportsPass == Form!Spec => []ImportedAreAllowed
<1>1. WizardInv => ImportedAreAllowed
  <2> SUFFICES ASSUME WizardInv, ~wizard.handmade, NEW doc \in {form, row} \ {Form!NoSite}
               PROVE  doc.offers \subseteq doc.hosts \cup {doc.destination}
    BY DEF ImportedAreAllowed, Form!ImportedAreAllowed
  <2> QED  BY DEF WizardInv, ImportInv, Sells
<1> QED  BY <1>1, WizardHolds, PTL

(* Install and Retry ask for a row that passes the checks, though the form  *)
(* may be changed and saved again meanwhile: a save forgets the last check  *)
(* before the row changes (saveAndValidate's setPreflight(null)).           *)
THEOREM InstallsAreVetted == Form!Spec => InstallIsVetted
<1>1. ASSUME WizardInv, [Form!Next]_Form!vars
      PROVE  [wizard'.installing /\ ~wizard.installing => Form!Valid(row)]_Form!vars
  <2> SUFFICES ASSUME Form!Next, wizard'.installing, ~wizard.installing PROVE Form!Valid(row)
    BY <1>1
  <2>1. wizard \in WizardPages  BY <1>1, PageFacts
  <2>2. CASE Form!Install \/ Form!Retry
    BY <1>1, <2>2, PageFacts DEF Form!Install, Form!Retry, Form!Passed
  <2>3. CASE Form!Change
    <3>1. wizard'.installing = wizard.installing
      BY <2>1, <2>3 DEF Form!Change, Form!AddClient, Form!PickTemplate, Form!FillIn, Form!SetStores,
         Form!SetLegal, Form!SetTag, Form!ImportOffer, Form!RemoveOffer, WizardPages
    <3> QED  BY <3>1
  <2>4. CASE Form!ListsArrive \/ (\E t \in Template : Form!TemplateArrives(t))
             \/ \E r \in requests : Form!ReadSite(r) \/ Form!SiteArrives(r)
    <3>1. wizard'.installing = wizard.installing
      BY <2>1, <2>4 DEF Form!ListsArrive, Form!TemplateArrives, Form!ReadSite, Form!SiteArrives,
         WizardPages
    <3> QED  BY <3>1
  <2>5. CASE Form!Forward \/ Form!Back \/ Form!Save \/ Form!Validate \/ Form!SaveFails
    <3>1. wizard'.installing = wizard.installing
      BY <2>1, <2>5 DEF Form!Forward, Form!Back, Form!Save, Form!Validate, Form!SaveFails, WizardPages
    <3> QED  BY <3>1
  <2>6. CASE Form!Create \/ Form!Patch \/ Form!Written \/ Form!Confirm
    <3>1. wizard'.installing = wizard.installing
      BY <2>1, <2>6 DEF Form!Create, Form!Patch, Form!Written, Form!Confirm, WizardPages
    <3> QED  BY <3>1
  <2>7. CASE Form!InstallEnds
    <3>1. ~wizard'.installing  BY <2>1, <2>7 DEF Form!InstallEnds, WizardPages
    <3> QED  BY <3>1
  <2> QED  BY <2>2, <2>3, <2>4, <2>5, <2>6, <2>7 DEF Form!Next
<1> QED  BY <1>1, WizardHolds, PTL DEF Form!Spec, InstallIsVetted, Form!InstallIsVetted

-----------------------------------------------------------------------------
(* The catalog.  First its loops: what is picked of a sequence stands there *)
(* at the places to be picked, in their order; what is joined has what each *)
(* part has; and the first so many are all when there are not more.        *)

LEMMA PickedLoop ==
  ASSUME NEW T, NEW seq \in Seq(T), NEW places
  PROVE  \E f : /\ f[0] = << >> /\ Shop!Picked(seq, places) = f[Len(seq)]
                /\ \A n \in 1..Len(seq) :
                     f[n] = IF n \in places THEN Append(f[n - 1], seq[n]) ELSE f[n - 1]
<1> DEFINE N == Len(seq)
           S == Seq(T)
           Next1(q, n) == IF n \in places THEN Append(q, seq[n]) ELSE q
           step == [n \in 1..N |-> [q \in S |-> Next1(q, n)]]
           Body(f) == [n \in 0..N |-> IF n = 0 THEN << >>
                                      ELSE IF n \in places THEN Append(f[n - 1], seq[n]) ELSE f[n - 1]]
           kept == CHOOSE f : f = Body(f)
<1>1. N \in Nat /\ << >> \in S  BY LengthIsNat
<1>2. ASSUME NEW n \in 1..N, NEW q \in S PROVE Next1(q, n) \in S
  <2>1. seq[n] \in T  BY <1>2, ElementOf
  <2> QED  BY <1>2, <2>1
<1> HIDE DEF Next1, S
<1>3. step \in [1..N -> [S -> S]]  BY <1>2
<1>4. \A n \in 1..N, q \in S : step[n][q] = Next1(q, n)  OBVIOUS
<1> HIDE DEF step, N
<1>5. PICK f : IsFold(f, N, S, << >>, step)  BY <1>1, <1>3, FoldExists
<1>6. \A n \in 1..N : n - 1 \in 0..N /\ f[n] = Next1(f[n - 1], n)
  <2>1. \A n \in 1..N : n - 1 \in 0..N  BY <1>1
  <2> QED  BY <1>4, <1>5, <2>1 DEF IsFold
<1>7. f = Body(f)
  <2>1. \A n \in 0..N : n = 0 \/ n \in 1..N  BY <1>1
  <2> QED  BY <1>5, <1>6, <2>1 DEF Next1, IsFold
<1>8. kept = Body(kept)
  <2> HIDE DEF Body
  <2> QED  BY <1>7
<1>9. Shop!Picked(seq, places) = kept[N]  BY DEF Shop!Picked, N
<1> HIDE DEF kept
<1>10. kept[0] = << >>
  <2>1. 0 \in 0..N  BY <1>1
  <2> QED  BY <1>8, <2>1
<1>11. \A n \in 1..N : kept[n] = IF n \in places THEN Append(kept[n - 1], seq[n]) ELSE kept[n - 1]
  <2>1. \A n \in 1..N : n \in 0..N /\ n # 0  BY <1>1
  <2> QED  BY <1>8, <2>1
<1> QED  BY <1>9, <1>10, <1>11 DEF N

(* What has been picked of the first n. *)
PickedOf(p, seq, places, T, n) ==
  /\ p \in Seq(T)
  /\ \A k \in 1..Len(p) : \E i \in 1..n : i \in places /\ p[k] = seq[i]
  /\ \A i \in 1..n : i \in places => \E k \in 1..Len(p) : p[k] = seq[i]
  /\ \A k, l \in 1..Len(p) :
       k < l => \E i, j \in 1..n : i < j /\ j \in places /\ p[k] = seq[i] /\ p[l] = seq[j]

LEMMA PickedIs ==
  ASSUME NEW T, NEW seq \in Seq(T), NEW places
  PROVE  PickedOf(Shop!Picked(seq, places), seq, places, T, Len(seq))
<1>1. PICK f : /\ f[0] = << >> /\ Shop!Picked(seq, places) = f[Len(seq)]
               /\ \A n \in 1..Len(seq) :
                    f[n] = IF n \in places THEN Append(f[n - 1], seq[n]) ELSE f[n - 1]
  BY PickedLoop
<1> DEFINE N == Len(seq)
           Ns == {n \in Nat : n <= N => PickedOf(f[n], seq, places, T, n)}
<1>2. N \in Nat  BY LengthIsNat
<1>3. 0 \in Ns
  <2>1. << >> \in Seq(T) /\ 1..Len(<< >>) = {} /\ 1..0 = {}  OBVIOUS
  <2>2. PickedOf(<< >>, seq, places, T, 0)  BY <2>1 DEF PickedOf
  <2> QED  BY <1>1, <2>2
<1>4. ASSUME NEW n \in Ns PROVE n + 1 \in Ns
  <2>1. n + 1 \in Nat /\ n \in Nat  BY <1>4
  <2>2. ASSUME n + 1 <= N PROVE PickedOf(f[n + 1], seq, places, T, n + 1)
    <3>1. n + 1 \in 1..N /\ (n + 1) - 1 = n /\ n <= N  BY <1>2, <2>1, <2>2
    <3> DEFINE p == f[n]
               x == seq[n + 1]
    <3>2. PickedOf(p, seq, places, T, n) /\ x \in T  BY <1>4, <3>1, ElementOf
    <3>3. f[n + 1] = IF n + 1 \in places THEN Append(p, x) ELSE p  BY <1>1, <3>1
    <3>4. \A i \in 1..n : i \in 1..(n + 1) /\ i < n + 1  BY <2>1
    <3>5. \A i \in 1..(n + 1) : i \in 1..n \/ i = n + 1  BY <2>1
    <3>6. n + 1 \in 1..(n + 1)  BY <2>1
    <3> HIDE DEF p, x
    <3>7. CASE n + 1 \notin places
      <4>1. \A k \in 1..Len(p) : \E i \in 1..(n + 1) : i \in places /\ p[k] = seq[i]
        BY <3>2, <3>4 DEF PickedOf
      <4>2. \A i \in 1..(n + 1) : i \in places => \E k \in 1..Len(p) : p[k] = seq[i]
        BY <3>2, <3>5, <3>7 DEF PickedOf
      <4>3. \A k, l \in 1..Len(p) :
              k < l => \E i, j \in 1..(n + 1) : i < j /\ j \in places /\ p[k] = seq[i] /\ p[l] = seq[j]
        <5>1. \A k, l \in 1..Len(p) :
                k < l => \E i, j \in 1..n : i < j /\ j \in places /\ p[k] = seq[i] /\ p[l] = seq[j]
          BY <3>2 DEF PickedOf
        <5> QED  BY <3>4, <5>1
      <4>4. PickedOf(p, seq, places, T, n + 1)  BY <3>2, <4>1, <4>2, <4>3 DEF PickedOf
      <4> QED  BY <3>3, <3>7, <4>4
    <3>8. CASE n + 1 \in places
      <4> DEFINE q == Append(p, x)
                 L == Len(p)
      <4>1. p \in Seq(T) /\ L \in Nat  BY <3>2, LengthIsNat DEF PickedOf
      <4>2. /\ q \in Seq(T) /\ Len(q) = L + 1 /\ q[L + 1] = x
            /\ \A k \in 1..L : q[k] = p[k]
        BY <3>2, <4>1
      <4>3. \A k \in 1..Len(q) : k \in 1..L \/ k = L + 1  BY <4>1, <4>2
      <4>4. L + 1 \in 1..Len(q) /\ \A k \in 1..L : k \in 1..Len(q)  BY <4>1, <4>2
      <4>5. \A k, l \in 1..Len(q) : k < l => k \in 1..L  BY <4>1, <4>2
      <4>6. x = seq[n + 1]  BY DEF x
      <4> HIDE DEF q, L
      <4>7. \A k \in 1..Len(q) : \E i \in 1..(n + 1) : i \in places /\ q[k] = seq[i]
        <5>1. \A k \in 1..L : \E i \in 1..n : i \in places /\ p[k] = seq[i]
          BY <3>2 DEF PickedOf, L
        <5> QED  BY <3>4, <3>6, <3>8, <4>2, <4>3, <4>6, <5>1
      <4>8. \A i \in 1..(n + 1) : i \in places => \E k \in 1..Len(q) : q[k] = seq[i]
        <5>1. \A i \in 1..n : i \in places => \E k \in 1..L : p[k] = seq[i]
          BY <3>2 DEF PickedOf, L
        <5> QED  BY <3>5, <4>2, <4>4, <4>6, <5>1
      <4>9. ASSUME NEW k \in 1..Len(q), NEW l \in 1..Len(q), k < l
            PROVE  \E i, j \in 1..(n + 1) : i < j /\ j \in places /\ q[k] = seq[i] /\ q[l] = seq[j]
        <5>1. k \in 1..L  BY <4>5, <4>9
        <5>2. CASE l \in 1..L
          <6>1. \E i, j \in 1..n : i < j /\ j \in places /\ p[k] = seq[i] /\ p[l] = seq[j]
            BY <3>2, <4>9, <5>1, <5>2 DEF PickedOf, L
          <6> QED  BY <3>4, <4>2, <5>1, <5>2, <6>1
        <5>3. CASE l = L + 1
          <6>1. \E i \in 1..n : p[k] = seq[i]  BY <3>2, <5>1 DEF PickedOf, L
          <6> QED  BY <3>4, <3>6, <3>8, <4>2, <4>6, <5>1, <5>3, <6>1
        <5> QED  BY <4>3, <5>2, <5>3
      <4>10. PickedOf(q, seq, places, T, n + 1)
        BY <4>2, <4>7, <4>8, <4>9 DEF PickedOf
      <4> QED  BY <3>3, <3>8, <4>10 DEF q
    <3> QED  BY <3>7, <3>8
  <2> QED  BY <2>1, <2>2
<1> HIDE DEF Ns
<1>5. N \in Ns
  <2>1. Ns \in SUBSET Nat  BY DEF Ns
  <2> QED  BY <1>2, <1>3, <1>4, <2>1, EveryNumber
<1> QED  BY <1>1, <1>2, <1>5 DEF Ns

LEMMA JoinedLoop ==
  ASSUME NEW T, NEW seqs \in Seq(Seq(T)), seqs # << >>
  PROVE  \E f : /\ f[0] = << >> /\ Shop!FlattenSeq(seqs) = f[Len(seqs)]
                /\ \A n \in 1..Len(seqs) : f[n - 1] \in Seq(T) => f[n] = f[n - 1] \o seqs[n]
<1> DEFINE N == Len(seqs)
           S == Seq(T)
           step == [n \in 1..N |-> [q \in S |-> q \o seqs[n]]]
           Body(f) == [n \in 1..N |-> IF n = 1 THEN seqs[n] ELSE f[n - 1] \o seqs[n]]
           flat == CHOOSE f : f = Body(f)
<1>1. N \in Nat /\ N # 0 /\ << >> \in S  BY LengthIsNat
<1>2. \A n \in 1..N : seqs[n] \in S
  <2>1. \A n \in 1..N : seqs[n] \in Seq(T)  BY ElementOf
  <2> QED  BY <2>1
<1>3. \A q, r \in S : q \o r \in S  OBVIOUS
<1>4. \A r \in S : << >> \o r = r  OBVIOUS
<1> HIDE DEF S
<1>5. step \in [1..N -> [S -> S]]  BY <1>2, <1>3
<1>6. \A n \in 1..N, q \in S : step[n][q] = q \o seqs[n]  OBVIOUS
<1> HIDE DEF step, N
<1>7. PICK g : IsFold(g, N, S, << >>, step)  BY <1>1, <1>5, FoldExists
<1>8. \A n \in 1..N : n - 1 \in 0..N /\ n \in 0..N /\ (n # 1 => n - 1 \in 1..N)  BY <1>1
<1>9. g[0] = << >> /\ \A n \in 1..N : g[n] = g[n - 1] \o seqs[n]
  <2>1. \A n \in 0..N : g[n] \in S  BY <1>7 DEF IsFold
  <2> QED  BY <1>6, <1>7, <1>8, <2>1 DEF IsFold
<1> DEFINE f == [n \in 1..N |-> g[n]]
<1>10. f = Body(f)
  <2>1. \A n \in 1..N : n # 1 => g[n] = f[n - 1] \o seqs[n]  BY <1>8, <1>9
  <2>2. 1 \in 1..N /\ g[1] = seqs[1]
    <3>1. 1 \in 1..N /\ 1 - 1 = 0  BY <1>1
    <3>2. g[1] = g[1 - 1] \o seqs[1] /\ seqs[1] \in S  BY <1>2, <1>9, <3>1
    <3>3. g[1] = << >> \o seqs[1]  BY <1>9, <3>1, <3>2
    <3> QED  BY <1>4, <3>1, <3>2, <3>3
  <2> QED  BY <2>1, <2>2
<1>11. flat = Body(flat)
  <2> HIDE DEF Body, f
  <2> QED  BY <1>10
<1>12. Shop!FlattenSeq(seqs) = flat[N]  BY <1>1 DEF Shop!FlattenSeq, N
<1> HIDE DEF flat
<1> DEFINE h == [n \in 0..N |-> IF n = 0 THEN << >> ELSE flat[n]]
<1>13. h[0] = << >> /\ (\A n \in 1..N : h[n] = flat[n])
  <2>1. 0 \in 0..N /\ \A n \in 1..N : n \in 0..N /\ n # 0  BY <1>1
  <2> QED  BY <2>1
<1>14. N \in 1..N  BY <1>1
<1>15. ASSUME NEW n \in 1..N PROVE h[n] = h[n - 1] \o seqs[n]
  <2>1. CASE n = 1
    <3>1. flat[n] = seqs[n] /\ n - 1 = 0  BY <1>11, <2>1
    <3> QED  BY <1>2, <1>4, <1>13, <3>1
  <2>2. CASE n # 1
    <3>1. flat[n] = flat[n - 1] \o seqs[n]  BY <1>11, <2>2
    <3> QED  BY <1>8, <1>13, <2>2, <3>1
  <2> QED  BY <2>1, <2>2
<1> HIDE DEF h
<1> QED  BY <1>12, <1>13, <1>14, <1>15 DEF N, S

JoinedOf(p, seqs, T, n) ==
  /\ p \in Seq(T)
  /\ \A k \in 1..Len(p) : \E i \in 1..n : \E l \in 1..Len(seqs[i]) : p[k] = seqs[i][l]
  /\ \A i \in 1..n : \A l \in 1..Len(seqs[i]) : \E k \in 1..Len(p) : p[k] = seqs[i][l]

LEMMA JoinedIs ==
  ASSUME NEW T, NEW seqs \in Seq(Seq(T))
  PROVE  JoinedOf(Shop!FlattenSeq(seqs), seqs, T, Len(seqs))
<1>1. CASE seqs = << >>
  <2>1. Len(seqs) = 0 /\ << >> \in Seq(T) /\ 1..Len(<< >>) = {} /\ 1..0 = {}  BY <1>1
  <2>2. Shop!FlattenSeq(seqs) = << >>  BY <1>1, <2>1 DEF Shop!FlattenSeq
  <2> QED  BY <2>1, <2>2 DEF JoinedOf
<1>2. CASE seqs # << >>
  <2>1. PICK f : /\ f[0] = << >> /\ Shop!FlattenSeq(seqs) = f[Len(seqs)]
                 /\ \A n \in 1..Len(seqs) : f[n - 1] \in Seq(T) => f[n] = f[n - 1] \o seqs[n]
    BY <1>2, JoinedLoop
  <2> DEFINE N == Len(seqs)
             Ns == {n \in Nat : n <= N => JoinedOf(f[n], seqs, T, n)}
  <2>2. N \in Nat  BY LengthIsNat
  <2>3. 0 \in Ns
    <3>1. << >> \in Seq(T) /\ 1..Len(<< >>) = {} /\ 1..0 = {}  OBVIOUS
    <3>2. JoinedOf(<< >>, seqs, T, 0)  BY <3>1 DEF JoinedOf
    <3> QED  BY <2>1, <3>2
  <2>4. ASSUME NEW n \in Ns PROVE n + 1 \in Ns
    <3>1. n + 1 \in Nat /\ n \in Nat  BY <2>4
    <3>2. ASSUME n + 1 <= N PROVE JoinedOf(f[n + 1], seqs, T, n + 1)
      <4>1. n + 1 \in 1..N /\ (n + 1) - 1 = n /\ n <= N  BY <2>2, <3>1, <3>2
      <4> DEFINE p == f[n]
                 r == seqs[n + 1]
                 q == p \o r
                 L == Len(p)
                 M == Len(r)
      <4>2. JoinedOf(p, seqs, T, n)  BY <2>4, <4>1
      <4>3. p \in Seq(T)  BY <4>2 DEF JoinedOf
      <4>4. r \in Seq(T)  BY <4>1, ElementOf
      <4>5. f[n + 1] = q  BY <2>1, <4>1, <4>3
      <4>6. L \in Nat /\ M \in Nat  BY <4>3, <4>4, LengthIsNat
      <4>7. /\ q \in Seq(T) /\ Len(q) = L + M
            /\ \A k \in 1..L : q[k] = p[k]
            /\ \A k \in 1..M : q[L + k] = r[k]
        <5>1. q \in Seq(T) /\ Len(q) = L + M  BY <4>3, <4>4
        <5>2. \A k \in 1..(L + M) : q[k] = IF k <= L THEN p[k] ELSE r[k - L]  BY <4>3, <4>4
        <5> HIDE DEF q, L, M, p, r
        <5>3. \A k \in 1..L : k \in 1..(L + M) /\ k <= L  BY <4>6
        <5>4. \A k \in 1..M : L + k \in 1..(L + M) /\ ~(L + k <= L) /\ (L + k) - L = k  BY <4>6
        <5> QED  BY <5>1, <5>2, <5>3, <5>4
      <4>8. \A i \in 1..(n + 1) : i \in 1..n \/ i = n + 1  BY <3>1
      <4>9. n + 1 \in 1..(n + 1) /\ \A i \in 1..n : i \in 1..(n + 1)  BY <3>1
      <4> HIDE DEF q, p, L, M, r
      <4>10. \A k \in 1..Len(q) : k \in 1..L \/ \E l \in 1..M : k = L + l
        <5> SUFFICES ASSUME NEW k \in 1..Len(q), k \notin 1..L PROVE k - L \in 1..M /\ k = L + (k - L)
          OBVIOUS
        <5> QED  BY <4>6, <4>7
      <4>11. (\A k \in 1..L : k \in 1..Len(q)) /\ (\A k \in 1..M : L + k \in 1..Len(q))
        BY <4>6, <4>7
      <4>12. M = Len(seqs[n + 1]) /\ r = seqs[n + 1] /\ L = Len(p)  BY DEF M, r, L
      <4>13. \A k \in 1..Len(q) : \E i \in 1..(n + 1) : \E l \in 1..Len(seqs[i]) : q[k] = seqs[i][l]
        <5>1. \A k \in 1..L : \E i \in 1..n : \E l \in 1..Len(seqs[i]) : p[k] = seqs[i][l]
          BY <4>2, <4>12 DEF JoinedOf
        <5>2. ASSUME NEW k \in 1..L
              PROVE  \E i \in 1..(n + 1) : \E l \in 1..Len(seqs[i]) : q[k] = seqs[i][l]
          BY <4>7, <4>9, <5>1, <5>2
        <5>3. ASSUME NEW l \in 1..M
              PROVE  \E i \in 1..(n + 1) : \E m \in 1..Len(seqs[i]) : q[L + l] = seqs[i][m]
          BY <4>7, <4>9, <4>12, <5>3
        <5> QED  BY <4>10, <5>2, <5>3
      <4>14. ASSUME NEW i \in 1..(n + 1), NEW l \in 1..Len(seqs[i])
             PROVE  \E k \in 1..Len(q) : q[k] = seqs[i][l]
        <5>1. CASE i \in 1..n
          <6>1. \E k \in 1..L : p[k] = seqs[i][l]  BY <4>2, <4>12, <4>14, <5>1 DEF JoinedOf
          <6> QED  BY <4>7, <4>11, <6>1
        <5>2. CASE i = n + 1
          <6>1. l \in 1..M /\ q[L + l] = seqs[i][l]  BY <4>7, <4>12, <4>14, <5>2
          <6> QED  BY <4>11, <6>1
        <5> QED  BY <4>8, <5>1, <5>2
      <4>15. JoinedOf(q, seqs, T, n + 1)  BY <4>7, <4>13, <4>14 DEF JoinedOf
      <4> QED  BY <4>5, <4>15
    <3> QED  BY <3>1, <3>2
  <2> HIDE DEF Ns
  <2>5. N \in Ns
    <3>1. Ns \in SUBSET Nat  BY DEF Ns
    <3> QED  BY <2>2, <2>3, <2>4, <3>1, EveryNumber
  <2> QED  BY <2>1, <2>2, <2>5 DEF Ns
<1> QED  BY <1>1, <1>2

LEMMA TakeIs ==
  ASSUME NEW T, NEW seq \in Seq(T), NEW n \in Nat
  PROVE  LET p == Shop!Take(seq, n)
         IN  /\ p \in Seq(T) /\ Len(p) <= Len(seq)
             /\ \A i \in 1..Len(p) : p[i] = seq[i]
             /\ Len(p) < n => Len(p) = Len(seq)
<1>1. Len(seq) \in Nat  BY LengthIsNat
<1> DEFINE m == IF Len(seq) < n THEN Len(seq) ELSE n
           p == SubSeq(seq, 1, m)
<1>2. m \in Nat /\ m <= Len(seq) /\ m <= n /\ (m < n => m = Len(seq))  BY <1>1
<1>3. Shop!Take(seq, n) = p  BY DEF Shop!Take
<1> HIDE DEF m
<1>4. p \in Seq(T) /\ Len(p) = m /\ \A i \in 1..m : p[i] = seq[i]
  BY <1>1, <1>2
<1> HIDE DEF p
<1> QED  BY <1>1, <1>2, <1>3, <1>4

LEMMA RangeIs ==
  ASSUME NEW T, NEW seq \in Seq(T)
  PROVE  /\ Shop!Range(seq) = {seq[i] : i \in 1..Len(seq)} /\ Shop!Range(seq) \subseteq T
         /\ DOMAIN seq = 1..Len(seq) /\ Len(seq) \in Nat
<1>1. DOMAIN seq = 1..Len(seq) /\ Len(seq) \in Nat  BY LengthIsNat
<1>2. \A i \in 1..Len(seq) : seq[i] \in T  BY ElementOf
<1> QED  BY <1>1, <1>2 DEF Shop!Range

LEMMA BothRanges ==
  ASSUME NEW T, NEW s \in Seq(T), NEW t \in Seq(T)
  PROVE  s \o t \in Seq(T) /\ Shop!Range(s \o t) = Shop!Range(s) \cup Shop!Range(t)
<1> DEFINE L == Len(s)
           M == Len(t)
           q == s \o t
<1>1. L \in Nat /\ M \in Nat  BY LengthIsNat
<1>2. q \in Seq(T) /\ Len(q) = L + M  OBVIOUS
<1>3. \A k \in 1..(L + M) : q[k] = IF k <= L THEN s[k] ELSE t[k - L]  OBVIOUS
<1>4. /\ Shop!Range(q) = {q[k] : k \in 1..(L + M)}
      /\ Shop!Range(s) = {s[k] : k \in 1..L} /\ Shop!Range(t) = {t[k] : k \in 1..M}
  BY <1>2, RangeIs
<1> HIDE DEF L, M, q
<1>5. \A k \in 1..L : k \in 1..(L + M) /\ k <= L  BY <1>1
<1>6. \A k \in 1..M : L + k \in 1..(L + M) /\ ~(L + k <= L) /\ (L + k) - L = k  BY <1>1
<1>7. \A k \in 1..(L + M) : (k <= L => k \in 1..L) /\ (~(k <= L) => k - L \in 1..M)  BY <1>1
<1>8. Shop!Range(q) \subseteq Shop!Range(s) \cup Shop!Range(t)  BY <1>3, <1>4, <1>7
<1>9. Shop!Range(s) \subseteq Shop!Range(q)  BY <1>3, <1>4, <1>5
<1>10. Shop!Range(t) \subseteq Shop!Range(q)
  <2>1. \A k \in 1..M : q[L + k] = t[k]  BY <1>3, <1>6
  <2> QED  BY <1>4, <1>6, <2>1
<1> QED  BY <1>2, <1>8, <1>9, <1>10 DEF q

LEMMA AmongIs ==
  ASSUME NEW T, NEW seq \in Seq(T), NEW wanted
  PROVE  /\ Shop!Among(seq, wanted) \in Seq(T)
         /\ Shop!Range(Shop!Among(seq, wanted)) = Shop!Range(seq) \cap wanted
<1> DEFINE places == {i \in DOMAIN seq : seq[i] \in wanted}
           p == Shop!Picked(seq, places)
<1>1. PickedOf(p, seq, places, T, Len(seq))  BY PickedIs
<1>2. p = Shop!Among(seq, wanted)  BY DEF Shop!Among
<1>3. p \in Seq(T)  BY <1>1 DEF PickedOf
<1>4. /\ Shop!Range(p) = {p[k] : k \in 1..Len(p)}
      /\ Shop!Range(seq) = {seq[k] : k \in 1..Len(seq)} /\ DOMAIN seq = 1..Len(seq)
  BY <1>3, RangeIs
<1>5. \A i \in 1..Len(seq) : i \in places <=> seq[i] \in wanted  BY <1>4
<1> HIDE DEF places, p
<1>6. \A k \in 1..Len(p) : \E i \in 1..Len(seq) : i \in places /\ p[k] = seq[i]  BY <1>1 DEF PickedOf
<1>7. \A i \in 1..Len(seq) : i \in places => \E k \in 1..Len(p) : p[k] = seq[i]  BY <1>1 DEF PickedOf
<1>8. Shop!Range(p) \subseteq Shop!Range(seq) \cap wanted  BY <1>4, <1>5, <1>6
<1>9. Shop!Range(seq) \cap wanted \subseteq Shop!Range(p)  BY <1>4, <1>5, <1>7
<1> QED  BY <1>2, <1>3, <1>8, <1>9

(* What comes first of its kind is among the places where nothing before    *)
(* it is of that kind.                                                      *)
IsFirst(j, kind, N, i) ==
  j \in 1..N /\ kind[j] = kind[i] /\ \A k \in 1..(j - 1) : kind[k] # kind[j]

LEMMA FirstOf ==
  ASSUME NEW N \in Nat, NEW kind, NEW i \in 1..N
  PROVE  \E j : IsFirst(j, kind, N, i)
<1> DEFINE same == {j \in 1..N : kind[j] = kind[i]}
<1>1. same \in SUBSET Nat /\ i \in same  OBVIOUS
<1>2. PICK j \in same : \A k \in same : j <= k  BY <1>1, LeastNumber
<1>3. j \in 1..N /\ kind[j] = kind[i]  BY <1>2
<1>4. ASSUME NEW k \in 1..(j - 1) PROVE kind[k] # kind[j]
  <2>1. k \in 1..N /\ ~(j <= k)  BY <1>3, <1>4
  <2>2. k \notin same  BY <1>2, <2>1
  <2> QED  BY <1>3, <2>1, <2>2
<1> QED  BY <1>3, <1>4 DEF IsFirst

LEMMA DedupedIs ==
  ASSUME NEW T, NEW seq \in Seq(T)
  PROVE  Shop!Deduped(seq) \in Seq(T) /\ Shop!Range(Shop!Deduped(seq)) = Shop!Range(seq)
<1> DEFINE places == {i \in DOMAIN seq : \A j \in 1..(i - 1) : seq[j] # seq[i]}
           p == Shop!Picked(seq, places)
<1>1. PickedOf(p, seq, places, T, Len(seq))  BY PickedIs
<1>2. p = Shop!Deduped(seq)  BY DEF Shop!Deduped
<1>3. p \in Seq(T)  BY <1>1 DEF PickedOf
<1>4. /\ Shop!Range(p) = {p[k] : k \in 1..Len(p)}
      /\ Shop!Range(seq) = {seq[k] : k \in 1..Len(seq)} /\ DOMAIN seq = 1..Len(seq)
      /\ Len(seq) \in Nat
  BY <1>3, RangeIs
<1> HIDE DEF places, p
<1>5. ASSUME NEW i \in 1..Len(seq)
      PROVE  \E j \in 1..Len(seq) : j \in places /\ seq[j] = seq[i]
  <2> DEFINE N == Len(seq)
             kind == seq
  <2>1. N \in Nat /\ i \in 1..N  BY <1>4, <1>5
  <2> HIDE DEF N, kind
  <2>2. PICK j : IsFirst(j, kind, N, i)  BY <2>1, FirstOf
  <2> QED  BY <1>4, <2>2 DEF N, kind, places, IsFirst
<1>6. \A k \in 1..Len(p) : \E i \in 1..Len(seq) : p[k] = seq[i]  BY <1>1 DEF PickedOf
<1>7. \A i \in 1..Len(seq) : i \in places => \E k \in 1..Len(p) : p[k] = seq[i]  BY <1>1 DEF PickedOf
<1>8. Shop!Range(p) \subseteq Shop!Range(seq)  BY <1>4, <1>6
<1>9. Shop!Range(seq) \subseteq Shop!Range(p)  BY <1>4, <1>5, <1>7
<1> QED  BY <1>2, <1>3, <1>8, <1>9

LEMMA TakeRange ==
  ASSUME NEW T, NEW seq \in Seq(T), NEW n \in Nat
  PROVE  /\ Shop!Range(Shop!Take(seq, n)) \subseteq Shop!Range(seq)
         /\ Len(Shop!Take(seq, n)) < n => Shop!Range(Shop!Take(seq, n)) = Shop!Range(seq)
<1> DEFINE p == Shop!Take(seq, n)
<1>1. /\ p \in Seq(T) /\ Len(p) <= Len(seq) /\ \A i \in 1..Len(p) : p[i] = seq[i]
      /\ Len(p) < n => Len(p) = Len(seq)
  BY TakeIs
<1> HIDE DEF p
<1>2. Len(p) \in Nat /\ Len(seq) \in Nat  BY <1>1, LengthIsNat
<1>3. Shop!Range(p) = {p[k] : k \in 1..Len(p)} /\ Shop!Range(seq) = {seq[k] : k \in 1..Len(seq)}
  BY <1>1, RangeIs
<1>4. \A k \in 1..Len(p) : k \in 1..Len(seq)  BY <1>1, <1>2
<1> QED  BY <1>1, <1>3, <1>4 DEF p

Row      == [query : Query, products : Seq(Product)]
Page     == [slug : {Shop!Slugify(q) : q \in Query}, products : Seq({Shop!ProductSlug(p) : p \in Product})]
StoreRow == [slug : STRING, category : [slug : STRING, wording : Nat]]

ShopInv == rows \in Seq(Row) /\ \A s \in DOMAIN overrides : overrides[s] \in Category

LEMMA ShopNumbers ==
  /\ PerCat \in Nat /\ LimitCats \in Nat /\ Featured \in Nat /\ Related \in Nat /\ MaxRows \in Nat
BY CatalogAssumption

LEMMA ShopHolds == Shop!Spec => []ShopInv
<1>1. Shop!Init => ShopInv  BY DEF Shop!Init, ShopInv
<1>2. ShopInv /\ [Shop!Next]_Shop!vars => ShopInv'
  <2> SUFFICES ASSUME ShopInv, [Shop!Next]_Shop!vars PROVE ShopInv'  OBVIOUS
  <2>1. ASSUME NEW q \in Query, NEW products \in Shop!SeqOf(Product, MaxFound),
               Shop!Search(q, products)
        PROVE  ShopInv'
    <3>1. products \in Seq(Product)  BY <2>1 DEF Shop!SeqOf
    <3> DEFINE row1 == [query |-> q, products |-> products]
    <3>2. row1 \in Row  BY <2>1, <3>1 DEF Row
    <3>3. rows' = Shop!Take(<<row1>> \o rows, MaxRows) /\ overrides' = overrides
      BY <2>1 DEF Shop!Search
    <3> HIDE DEF row1
    <3>4. <<row1>> \o rows \in Seq(Row)  BY <3>2 DEF ShopInv
    <3>5. rows' \in Seq(Row)  BY <3>3, <3>4, ShopNumbers, TakeIs
    <3> QED  BY <3>3, <3>5 DEF ShopInv
  <2>2. CASE Shop!Expire
    <3>1. rows # << >> /\ rows' = SubSeq(rows, 1, Len(rows) - 1) /\ overrides' = overrides
      BY <2>2 DEF Shop!Expire, Shop!Front
    <3>2. Len(rows) \in Nat /\ Len(rows) # 0  BY <3>1, LengthIsNat DEF ShopInv
    <3>3. rows' \in Seq(Row)  BY <3>1, <3>2 DEF ShopInv
    <3> QED  BY <3>1, <3>3 DEF ShopInv
  <2>3. ASSUME NEW s \in Shop!Range(Curated), NEW c \in Category, Shop!SetCategory(s, c)
        PROVE  ShopInv'
    BY <2>3 DEF Shop!SetCategory, ShopInv
  <2>4. CASE UNCHANGED Shop!vars  BY <2>4 DEF Shop!vars, ShopInv
  <2> QED  BY <2>1, <2>2, <2>3, <2>4 DEF Shop!Next
<1> QED  BY <1>1, <1>2, PTL DEF Shop!Spec

(* What a build stages: each category is a query's newest search. *)
LEMMA CategoriesAre ==
  ASSUME ShopInv
  PROVE  /\ Shop!Categories(rows) \in Seq(Row)
         /\ \A k \in 1..Len(Shop!Categories(rows)) : \E i \in Shop!Newest(rows) :
              /\ Shop!Categories(rows)[k].query = rows[i].query
              /\ Shop!Categories(rows)[k].products = Shop!Take(rows[i].products, PerCat)
<1> DEFINE places == {i \in Shop!Newest(rows) : rows[i].products # << >>}
           shown == Shop!Picked(rows, places)
           cut(r) == [query |-> r.query, products |-> Shop!Take(r.products, PerCat)]
           all == [i \in DOMAIN shown |-> cut(shown[i])]
<1>1. rows \in Seq(Row)  BY DEF ShopInv
<1>2. PickedOf(shown, rows, places, Row, Len(rows))  BY <1>1, PickedIs
<1>3. Shop!Categories(rows) = Shop!Take(all, LimitCats)  BY DEF Shop!Categories
<1>4. places \subseteq Shop!Newest(rows)  OBVIOUS
<1>5. ASSUME NEW r \in Row
      PROVE  cut(r) \in Row /\ cut(r).query = r.query /\ cut(r).products = Shop!Take(r.products, PerCat)
  <2>1. r.query \in Query /\ r.products \in Seq(Product)  BY <1>5 DEF Row
  <2>2. Shop!Take(r.products, PerCat) \in Seq(Product)  BY <2>1, ShopNumbers, TakeIs
  <2> QED  BY <2>1, <2>2 DEF Row
<1> HIDE DEF places, shown, cut
<1>6. shown \in Seq(Row) /\ DOMAIN shown = 1..Len(shown) /\ Len(shown) \in Nat
  BY <1>2, RangeIs DEF PickedOf
<1>7. \A k \in 1..Len(shown) : shown[k] \in Row  BY <1>6, ElementOf
<1>8. all \in Seq(Row) /\ Len(all) = Len(shown)  BY <1>5, <1>6, <1>7
<1>9. \A k \in 1..Len(shown) : all[k] = cut(shown[k])  BY <1>6
<1> HIDE DEF all
<1>10. /\ Shop!Take(all, LimitCats) \in Seq(Row) /\ Len(Shop!Take(all, LimitCats)) <= Len(all)
       /\ \A k \in 1..Len(Shop!Take(all, LimitCats)) : Shop!Take(all, LimitCats)[k] = all[k]
  BY <1>8, ShopNumbers, TakeIs
<1>11. ASSUME NEW k \in 1..Len(Shop!Categories(rows))
       PROVE  \E i \in Shop!Newest(rows) :
                /\ Shop!Categories(rows)[k].query = rows[i].query
                /\ Shop!Categories(rows)[k].products = Shop!Take(rows[i].products, PerCat)
  <2>1. Len(Shop!Categories(rows)) \in Nat  BY <1>3, <1>10, LengthIsNat
  <2>2. k \in 1..Len(shown)  BY <1>3, <1>6, <1>8, <1>10, <1>11, <2>1
  <2>3. Shop!Categories(rows)[k] = cut(shown[k])  BY <1>3, <1>9, <1>10, <1>11, <2>2
  <2>4. PICK i \in 1..Len(rows) : i \in places /\ shown[k] = rows[i]
    BY <1>2, <2>2 DEF PickedOf
  <2>5. shown[k] \in Row  BY <1>7, <2>2
  <2> QED  BY <1>4, <1>5, <2>3, <2>4, <2>5
<1> QED  BY <1>3, <1>10, <1>11

LEMMA SlugsAre ==
  ASSUME NEW products \in Seq(Product)
  PROVE  Shop!Slugs(products) \in Seq({Shop!ProductSlug(p) : p \in Product})
<1>1. DOMAIN products = 1..Len(products) /\ Len(products) \in Nat  BY RangeIs
<1>2. \A i \in 1..Len(products) : products[i] \in Product  BY ElementOf
<1> QED  BY <1>1, <1>2 DEF Shop!Slugs

LEMMA PagesAre ==
  ASSUME ShopInv
  PROVE  /\ Shop!BuiltCatalog \in Seq(Page)
         /\ Len(Shop!BuiltCatalog) = Len(Shop!Categories(rows))
         /\ \A k \in 1..Len(Shop!BuiltCatalog) :
              /\ Shop!BuiltCatalog[k].slug = Shop!Slugify(Shop!Categories(rows)[k].query)
              /\ Shop!BuiltCatalog[k].products = Shop!Slugs(Shop!Categories(rows)[k].products)
<1> DEFINE C == Shop!Categories(rows)
           pageOf(c) == [slug |-> Shop!Slugify(c.query), products |-> Shop!Slugs(c.products)]
           B == [k \in DOMAIN C |-> pageOf(C[k])]
<1>1. Shop!BuiltCatalog = B  BY DEF Shop!BuiltCatalog, Shop!Catalog
<1>2. C \in Seq(Row)  BY CategoriesAre
<1> HIDE DEF C
<1>3. DOMAIN C = 1..Len(C) /\ Len(C) \in Nat  BY <1>2, RangeIs
<1>4. ASSUME NEW k \in 1..Len(C)
      PROVE  /\ pageOf(C[k]) \in Page /\ pageOf(C[k]).slug = Shop!Slugify(C[k].query)
             /\ pageOf(C[k]).products = Shop!Slugs(C[k].products)
  <2>1. C[k] \in Row  BY <1>2, <1>4, ElementOf
  <2>2. C[k].query \in Query /\ C[k].products \in Seq(Product)  BY <2>1 DEF Row
  <2>3. Shop!Slugs(C[k].products) \in Seq({Shop!ProductSlug(p) : p \in Product})  BY <2>2, SlugsAre
  <2> QED  BY <2>2, <2>3 DEF Page
<1> HIDE DEF pageOf
<1>5. B \in Seq(Page) /\ Len(B) = Len(C)  BY <1>3, <1>4
<1>6. \A k \in 1..Len(C) : B[k] = pageOf(C[k])  BY <1>3
<1> HIDE DEF B
<1> QED  BY <1>1, <1>4, <1>5, <1>6 DEF C


Slugged == {Shop!ProductSlug(p) : p \in Product}

LEMMA PageIsOne ==
  ASSUME NEW B \in Seq(Page), NEW k \in 1..Len(B)
  PROVE  /\ B[k].products \in Seq(Slugged)
         /\ Shop!Range(B[k].products) \subseteq Slugged
<1>1. B[k] \in Page  BY ElementOf
<1>2. B[k].products \in Seq(Slugged)  BY <1>1 DEF Page, Slugged
<1> QED  BY <1>2, RangeIs

(* The page of a slug is that of a category of the slug. *)
LEMMA PageOf ==
  ASSUME NEW B \in Seq(Page), NEW k \in 1..Len(B)
  PROVE  \E j \in 1..Len(B) : Shop!CategoryBySlug(B, B[k].slug) = B[j] /\ B[j].slug = B[k].slug
<1> DEFINE slug == B[k].slug
           same == {j \in 1..Len(B) : B[j].slug = slug}
           First(j) == B[j].slug = slug /\ \A i \in 1..(j - 1) : B[i].slug # slug
<1>1. DOMAIN B = 1..Len(B) /\ Len(B) \in Nat  BY RangeIs
<1>2. same \in SUBSET Nat /\ k \in same  OBVIOUS
<1>3. PICK j \in same : \A i \in same : j <= i  BY <1>2, LeastNumber
<1>4. j \in 1..Len(B) /\ B[j].slug = slug  BY <1>3
<1>5. ASSUME NEW i \in 1..(j - 1) PROVE B[i].slug # slug
  <2>1. i \in 1..Len(B) /\ ~(j <= i)  BY <1>1, <1>4, <1>5
  <2>2. i \notin same  BY <1>3, <2>1
  <2> QED  BY <2>1, <2>2
<1>6. First(j)  BY <1>4, <1>5
<1>7. Shop!CategoryBySlug(B, slug) = B[CHOOSE i \in DOMAIN B : First(i)]
  BY DEF Shop!CategoryBySlug
<1> HIDE DEF First
<1> DEFINE c == CHOOSE i \in DOMAIN B : First(i)
<1>8. c \in DOMAIN B /\ First(c)  BY <1>1, <1>4, <1>6
<1> QED  BY <1>1, <1>7, <1>8 DEF First

(* A product's page leads back to a category that has the product. *)
LEMMA HomeOf ==
  ASSUME NEW B \in Seq(Page), NEW k \in 1..Len(B), NEW p \in Shop!Range(B[k].products)
  PROVE  \E j \in 1..Len(B) : /\ Shop!CategorySlugOf(B, p) = B[j].slug
                              /\ p \in Shop!Range(B[j].products)
<1> DEFINE Has(j) == Shop!Contains(B[j].products, p)
           having == {j \in 1..Len(B) : Has(j)}
           First(j) == Has(j) /\ \A i \in 1..(j - 1) : ~Has(i)
<1>1. DOMAIN B = 1..Len(B) /\ Len(B) \in Nat  BY RangeIs
<1>2. ASSUME NEW j \in 1..Len(B) PROVE Has(j) <=> p \in Shop!Range(B[j].products)
  <2>1. B[j].products \in Seq(Slugged)  BY <1>2, PageIsOne
  <2>2. Shop!Range(B[j].products) = {B[j].products[i] : i \in 1..Len(B[j].products)}  BY <2>1, RangeIs
  <2> QED  BY <2>2 DEF Shop!Contains
<1> HIDE DEF Has
<1>3. having \in SUBSET Nat /\ k \in having  BY <1>2
<1>4. PICK j \in having : \A i \in having : j <= i  BY <1>3, LeastNumber
<1>5. j \in 1..Len(B) /\ Has(j)  BY <1>4
<1>6. ASSUME NEW i \in 1..(j - 1) PROVE ~Has(i)
  <2>1. i \in 1..Len(B) /\ ~(j <= i)  BY <1>1, <1>5, <1>6
  <2>2. i \notin having  BY <1>4, <2>1
  <2> QED  BY <2>1, <2>2
<1>7. First(j)  BY <1>5, <1>6
<1>8. Shop!CategorySlugOf(B, p) = B[CHOOSE i \in DOMAIN B : First(i)].slug
  BY DEF Shop!CategorySlugOf, Has
<1> DEFINE c == CHOOSE i \in DOMAIN B : First(i)
<1>9. c \in DOMAIN B /\ First(c)
  <2> HIDE DEF First
  <2> QED  BY <1>1, <1>5, <1>7
<1>10. c \in 1..Len(B) /\ Has(c)  BY <1>1, <1>9
<1> HIDE DEF c
<1> QED  BY <1>2, <1>8, <1>10 DEF c

(* The products of a catalog are those of its categories. *)
LEMMA ProductsAre ==
  ASSUME NEW B \in Seq(Page)
  PROVE  /\ Shop!CatalogProducts(B) \in Seq(Slugged)
         /\ \A p \in Shop!Range(Shop!CatalogProducts(B)) :
              \E k \in 1..Len(B) : p \in Shop!Range(B[k].products)
         /\ \A k \in 1..Len(B) :
              Shop!Range(B[k].products) \subseteq Shop!Range(Shop!CatalogProducts(B))
<1> DEFINE parts == [i \in DOMAIN B |-> B[i].products]
           flat == Shop!FlattenSeq(parts)
<1>1. DOMAIN B = 1..Len(B) /\ Len(B) \in Nat  BY RangeIs
<1>2. \A i \in 1..Len(B) : B[i].products \in Seq(Slugged)  BY PageIsOne
<1>3. parts \in Seq(Seq(Slugged)) /\ Len(parts) = Len(B)  BY <1>1, <1>2
<1>4. \A i \in 1..Len(B) : parts[i] = B[i].products  BY <1>1
<1>5. Shop!CatalogProducts(B) = Shop!Deduped(flat)  BY DEF Shop!CatalogProducts
<1> HIDE DEF parts
<1>6. JoinedOf(flat, parts, Slugged, Len(B))  BY <1>3, JoinedIs
<1> HIDE DEF flat
<1>7. flat \in Seq(Slugged)  BY <1>6 DEF JoinedOf
<1>8. Shop!Deduped(flat) \in Seq(Slugged) /\ Shop!Range(Shop!Deduped(flat)) = Shop!Range(flat)
  BY <1>7, DedupedIs
<1>9. Shop!Range(flat) = {flat[i] : i \in 1..Len(flat)}  BY <1>7, RangeIs
<1>10. \A k \in 1..Len(B) : Shop!Range(parts[k]) = {parts[k][l] : l \in 1..Len(parts[k])}
  BY <1>2, <1>4, RangeIs
<1>11. ASSUME NEW p \in Shop!Range(flat)
       PROVE  \E k \in 1..Len(B) : p \in Shop!Range(B[k].products)
  <2>1. PICK i \in 1..Len(flat) : p = flat[i]  BY <1>9, <1>11
  <2>2. PICK k \in 1..Len(B) : \E l \in 1..Len(parts[k]) : flat[i] = parts[k][l]
    BY <1>6 DEF JoinedOf
  <2>3. p \in Shop!Range(parts[k])  BY <1>10, <2>1, <2>2
  <2> QED  BY <1>4, <2>3
<1>12. ASSUME NEW k \in 1..Len(B) PROVE Shop!Range(B[k].products) \subseteq Shop!Range(flat)
  <2>1. ASSUME NEW l \in 1..Len(parts[k]) PROVE parts[k][l] \in Shop!Range(flat)
    <3>1. PICK i \in 1..Len(flat) : flat[i] = parts[k][l]  BY <1>6, <2>1 DEF JoinedOf
    <3> QED  BY <1>9, <3>1
  <2>2. parts[k] = B[k].products /\ Shop!Range(parts[k]) = {parts[k][l] : l \in 1..Len(parts[k])}
    BY <1>4, <1>10, <1>12
  <2> HIDE DEF flat
  <2>3. Shop!Range(parts[k]) \subseteq Shop!Range(flat)  BY <2>1, <2>2
  <2> QED  BY <2>2, <2>3
<1> QED  BY <1>5, <1>8, <1>11, <1>12

LEMMA FeaturedHolds == ASSUME ShopInv PROVE Shop!FeaturedAreDistinct
<1> DEFINE parts == [i \in DOMAIN rows |-> rows[i].products]
           found == Shop!Found(rows)
           places == {i \in DOMAIN found : \A j \in 1..(i - 1) : found[j].title # found[i].title}
           p == Shop!Picked(found, places)
           shown == Shop!Take(p, Featured)
<1>1. rows \in Seq(Row) /\ DOMAIN rows = 1..Len(rows) /\ Len(rows) \in Nat  BY RangeIs DEF ShopInv
<1>2. ASSUME NEW i \in 1..Len(rows) PROVE rows[i].products \in Seq(Product)
  <2>1. rows[i] \in Row  BY <1>1, <1>2, ElementOf
  <2> QED  BY <2>1 DEF Row
<1>3. parts \in Seq(Seq(Product))  BY <1>1, <1>2
<1>4. found = Shop!FlattenSeq(parts)  BY DEF Shop!Found
<1> HIDE DEF parts
<1>5. found \in Seq(Product)
  <2>1. JoinedOf(Shop!FlattenSeq(parts), parts, Product, Len(parts))  BY <1>3, JoinedIs
  <2> QED  BY <1>4, <2>1 DEF JoinedOf
<1>6. Shop!FeaturedOf(Shop!Found(rows)) = shown  BY DEF Shop!FeaturedOf
<1> HIDE DEF found
<1>7. DOMAIN found = 1..Len(found) /\ Len(found) \in Nat
      /\ Shop!Range(found) = {found[i] : i \in 1..Len(found)}
  BY <1>5, RangeIs
<1>8. PickedOf(p, found, places, Product, Len(found))  BY <1>5, PickedIs
<1>9. p \in Seq(Product)  BY <1>8 DEF PickedOf
<1>10. \A j \in places : \A i \in 1..(j - 1) : found[i].title # found[j].title  OBVIOUS
<1>11. ASSUME NEW n \in 1..Len(found)
       PROVE  \E j \in 1..Len(found) : j \in places /\ found[j].title = found[n].title
  <2> DEFINE N == Len(found)
             kind == [i \in 1..N |-> found[i].title]
  <2>1. N \in Nat /\ n \in 1..N  BY <1>7, <1>11
  <2> HIDE DEF N, kind
  <2>2. PICK j : IsFirst(j, kind, N, n)  BY <2>1, FirstOf
  <2>3. j \in 1..N /\ kind[j] = kind[n] /\ \A k \in 1..(j - 1) : kind[k] # kind[j]
    BY <2>2 DEF IsFirst
  <2>4. \A k \in 1..(j - 1) : k \in 1..N  BY <2>1, <2>3
  <2>5. \A k \in 1..N : kind[k] = found[k].title  BY DEF kind
  <2> HIDE DEF places
  <2>6. found[j].title = found[n].title /\ \A k \in 1..(j - 1) : found[k].title # found[j].title
    BY <2>1, <2>3, <2>4, <2>5
  <2> QED  BY <1>7, <2>3, <2>6 DEF N, places
<1> HIDE DEF p, places
<1>12. /\ shown \in Seq(Product) /\ Len(shown) <= Len(p)
       /\ \A k \in 1..Len(shown) : shown[k] = p[k]
       /\ Len(shown) < Featured => Len(shown) = Len(p)
  BY <1>9, ShopNumbers, TakeIs
<1> HIDE DEF shown
<1>13. DOMAIN shown = 1..Len(shown) /\ Len(shown) \in Nat /\ Len(p) \in Nat
  BY <1>9, <1>12, RangeIs
<1>14. \A k \in 1..Len(shown) : k \in 1..Len(p)  BY <1>12, <1>13
<1>15. ASSUME NEW k \in 1..Len(shown), NEW l \in 1..Len(shown), k < l
       PROVE  shown[k].title # shown[l].title
  <2>1. PICK i \in 1..Len(found), j \in 1..Len(found) :
          i < j /\ j \in places /\ p[k] = found[i] /\ p[l] = found[j]
    BY <1>8, <1>14, <1>15 DEF PickedOf
  <2>2. i \in 1..(j - 1)  BY <2>1
  <2>3. found[i].title # found[j].title  BY <1>10, <2>1, <2>2
  <2> QED  BY <1>12, <1>15, <2>1, <2>3
<1>16. ASSUME NEW k \in 1..Len(shown), NEW l \in 1..Len(shown), shown[k].title = shown[l].title
       PROVE  k = l
  <2>1. ~(k < l) /\ ~(l < k)  BY <1>15, <1>16
  <2> QED  BY <2>1
<1>17. ASSUME Len(shown) < Featured, NEW q \in Shop!Range(found)
       PROVE  \E k \in 1..Len(shown) : shown[k].title = q.title
  <2>1. PICK n \in 1..Len(found) : q = found[n]  BY <1>7, <1>17
  <2>2. PICK j \in 1..Len(found) : j \in places /\ found[j].title = found[n].title  BY <1>11
  <2>3. PICK k \in 1..Len(p) : p[k] = found[j]  BY <1>8, <2>2 DEF PickedOf
  <2>4. k \in 1..Len(shown) /\ shown[k] = p[k]  BY <1>12, <1>17
  <2> QED  BY <2>1, <2>2, <2>3, <2>4
<1>18. Shop!Found(rows) = found  BY DEF found
<1> QED  BY <1>6, <1>13, <1>16, <1>17, <1>18 DEF Shop!FeaturedAreDistinct

Alone(slug) == \A i, j \in 1..Len(Shop!BuiltCatalog) :
  Shop!BuiltCatalog[i].slug = slug /\ Shop!BuiltCatalog[j].slug = slug => i = j

(* A category page lists the newest search of its query. *)
LEMMA NewestIsListed ==
  ASSUME ShopInv, NEW k \in 1..Len(Shop!Categories(rows)),
         NEW i \in Shop!Newest(rows), rows[i].query = Shop!Categories(rows)[k].query,
         Alone(Shop!Slugify(Shop!Categories(rows)[k].query))
  PROVE  Shop!CategoryBySlug(Shop!BuiltCatalog, Shop!Slugify(Shop!Categories(rows)[k].query)).products
           = Shop!Slugs(Shop!Take(rows[i].products, PerCat))
<1> DEFINE B == Shop!BuiltCatalog
           c == Shop!Categories(rows)[k]
<1>1. /\ B \in Seq(Page) /\ k \in 1..Len(B)
      /\ B[k].slug = Shop!Slugify(c.query) /\ B[k].products = Shop!Slugs(c.products)
  BY PagesAre
<1>2. PICK h \in Shop!Newest(rows) : c.query = rows[h].query /\ c.products = Shop!Take(rows[h].products, PerCat)
  BY CategoriesAre
<1>3. DOMAIN rows = 1..Len(rows) /\ Len(rows) \in Nat  BY RangeIs DEF ShopInv
<1>4. h = i
  <2>1. h \in 1..Len(rows) /\ i \in 1..Len(rows)  BY <1>3 DEF Shop!Newest
  <2>2. (\A j \in 1..(h - 1) : rows[j].query # rows[h].query)
        /\ (\A j \in 1..(i - 1) : rows[j].query # rows[i].query)
    BY DEF Shop!Newest
  <2>3. rows[h].query = rows[i].query  BY <1>2
  <2>4. i \notin 1..(h - 1) /\ h \notin 1..(i - 1)  BY <2>2, <2>3
  <2> QED  BY <1>3, <2>1, <2>4
<1>5. Alone(B[k].slug)  BY <1>1
<1> HIDE DEF B, c
<1>6. PICK j \in 1..Len(B) : Shop!CategoryBySlug(B, B[k].slug) = B[j] /\ B[j].slug = B[k].slug
  BY <1>1, PageOf
<1>7. j = k  BY <1>1, <1>5, <1>6 DEF Alone, B
<1> QED  BY <1>1, <1>2, <1>4, <1>6, <1>7 DEF B, c

LEMMA CategoriesHold == ASSUME ShopInv PROVE Shop!CategoriesAreFull
<1> DEFINE B == Shop!BuiltCatalog
           C == Shop!Categories(rows)
           listed(slug) == Shop!Range(Shop!CategoryBySlug(B, slug).products)
<1>1. DOMAIN B = 1..Len(B) /\ B \in Seq(Page)  BY PagesAre, RangeIs
<1>2. DOMAIN C = 1..Len(C) /\ Shop!Range(C) = {C[k] : k \in 1..Len(C)}  BY CategoriesAre, RangeIs
<1>3. ASSUME NEW c \in Shop!Range(C), NEW i \in DOMAIN rows, rows[i].query = c.query,
             \A j \in 1..(i - 1) : rows[j].query # rows[i].query, Alone(Shop!Slugify(c.query))
      PROVE  listed(Shop!Slugify(c.query)) = Shop!Range(Shop!Slugs(Shop!Take(rows[i].products, PerCat)))
  <2>1. PICK k \in 1..Len(C) : c = C[k]  BY <1>2, <1>3
  <2>2. i \in Shop!Newest(rows)  BY <1>3 DEF Shop!Newest
  <2>3. Shop!CategoryBySlug(B, Shop!Slugify(c.query)).products = Shop!Slugs(Shop!Take(rows[i].products, PerCat))
    BY <1>3, <2>1, <2>2, NewestIsListed
  <2> QED  BY <2>3
<1>4. ASSUME NEW p \in Shop!Range(Shop!CatalogProducts(B)), Alone(Shop!CategorySlugOf(B, p))
      PROVE  p \in listed(Shop!CategorySlugOf(B, p))
  <2> HIDE DEF B
  <2>1. PICK h \in 1..Len(B) : p \in Shop!Range(B[h].products)  BY <1>1, <1>4, ProductsAre
  <2>2. PICK k \in 1..Len(B) : Shop!CategorySlugOf(B, p) = B[k].slug /\ p \in Shop!Range(B[k].products)
    BY <1>1, <2>1, HomeOf
  <2>3. PICK j \in 1..Len(B) : Shop!CategoryBySlug(B, B[k].slug) = B[j] /\ B[j].slug = B[k].slug
    BY <1>1, PageOf
  <2>4. j = k  BY <1>4, <2>2, <2>3 DEF Alone, B
  <2> QED  BY <2>2, <2>3, <2>4
<1>5. \A slug : Alone(slug) <=> \A i, j \in DOMAIN B : B[i].slug = slug /\ B[j].slug = slug => i = j
  BY <1>1 DEF Alone
<1> HIDE DEF Alone
<1> QED  BY <1>3, <1>4, <1>5 DEF Shop!CategoriesAreFull

LEMMA PagesHold == ASSUME ShopInv PROVE Shop!PagesLeadOn
<1> DEFINE B == Shop!BuiltCatalog
           all == Shop!CatalogProducts(B)
<1>1. B \in Seq(Page)  BY PagesAre
<1> HIDE DEF B
<1>2. ASSUME NEW p \in Shop!Range(all)
      PROVE  /\ p \notin Shop!Range(Shop!RelatedTo(B, p))
             /\ Len(Shop!RelatedTo(B, p)) < Related => Shop!Range(Shop!RelatedTo(B, p)) = Shop!Range(all) \ {p}
  <2> DEFINE listed == Shop!CategoryBySlug(B, Shop!CategorySlugOf(B, p)).products
             same == Shop!Among(listed, Shop!Range(listed) \ {p})
             extra == Shop!Among(all, Shop!Range(all) \ ({p} \cup Shop!Range(same)))
             both == same \o extra
             next == Shop!Take(both, Related)
  <2>1. all \in Seq(Slugged)  BY <1>1, ProductsAre
  <2>2. PICK h \in 1..Len(B) : p \in Shop!Range(B[h].products)  BY <1>1, <1>2, ProductsAre
  <2>3. PICK k \in 1..Len(B) : Shop!CategorySlugOf(B, p) = B[k].slug  BY <1>1, <2>2, HomeOf
  <2>4. PICK j \in 1..Len(B) : Shop!CategoryBySlug(B, B[k].slug) = B[j]  BY <1>1, PageOf
  <2>5. listed = B[j].products  BY <2>3, <2>4
  <2>6. listed \in Seq(Slugged) /\ Shop!Range(listed) \subseteq Shop!Range(all)
    BY <1>1, <2>5, PageIsOne, ProductsAre
  <2>7. Shop!RelatedTo(B, p) = next  BY DEF Shop!RelatedTo
  <2> HIDE DEF listed, all
  <2>8. same \in Seq(Slugged) /\ Shop!Range(same) = Shop!Range(listed) \cap (Shop!Range(listed) \ {p})
    BY <2>6, AmongIs
  <2> HIDE DEF same
  <2>9. /\ extra \in Seq(Slugged)
        /\ Shop!Range(extra) = Shop!Range(all) \cap (Shop!Range(all) \ ({p} \cup Shop!Range(same)))
    BY <2>1, AmongIs
  <2> HIDE DEF extra
  <2>10. both \in Seq(Slugged) /\ Shop!Range(both) = Shop!Range(same) \cup Shop!Range(extra)
    BY <2>8, <2>9, BothRanges
  <2> HIDE DEF both
  <2>11. Shop!Range(both) = Shop!Range(all) \ {p}  BY <2>6, <2>8, <2>9, <2>10
  <2>12. /\ Shop!Range(next) \subseteq Shop!Range(both)
         /\ Len(next) < Related => Shop!Range(next) = Shop!Range(both)
    BY <2>10, ShopNumbers, TakeRange
  <2> HIDE DEF next
  <2> QED  BY <2>7, <2>11, <2>12
<1> QED  BY <1>2 DEF Shop!PagesLeadOn, B

LEMMA StoresAre == ASSUME ShopInv PROVE Shop!BuiltStores \in Seq(StoreRow)
<1> DEFINE S == Shop!BuiltStores
           of(s) == IF s.slug \in DOMAIN overrides THEN [s EXCEPT !.category = overrides[s.slug]] ELSE s
<1>1. Curated \in Seq(StoreRow)  BY CatalogAssumption DEF StoreRow
<1>2. DOMAIN Curated = 1..Len(Curated) /\ Len(Curated) \in Nat  BY <1>1, RangeIs
<1>3. ASSUME NEW s \in StoreRow PROVE of(s) \in StoreRow
  <2>1. ASSUME s.slug \in DOMAIN overrides
        PROVE  overrides[s.slug] \in [slug : STRING, wording : Nat]
    <3>1. overrides[s.slug] \in Category  BY <2>1 DEF ShopInv
    <3> QED  BY <3>1, CatalogAssumption
  <2> QED  BY <1>3, <2>1 DEF StoreRow
<1>4. \A i \in 1..Len(Curated) : Curated[i] \in StoreRow  BY <1>1, ElementOf
<1>5. S = [i \in 1..Len(Curated) |-> of(Curated[i])]
  BY <1>2 DEF Shop!BuiltStores, Shop!Stores
<1> HIDE DEF of, S
<1>6. S \in Seq(StoreRow)  BY <1>2, <1>3, <1>4, <1>5
<1> QED  BY <1>6 DEF S

LEMMA StoresHold == ASSUME ShopInv PROVE Shop!StoresLeadOn
<1> DEFINE S == Shop!BuiltStores
<1>1. S \in Seq(StoreRow)  BY StoresAre
<1> HIDE DEF S
<1>2. Shop!Range(S) \subseteq StoreRow  BY <1>1, RangeIs
<1>3. ASSUME NEW r \in Shop!Range(S)
      PROVE  /\ \A s \in Shop!Range(Shop!RelatedRetailers(S, r)) : s.slug # r.slug
             /\ Shop!Named(S, Shop!Slugify(r.category)) = {r.category}
                  => r \in Shop!Range(Shop!ShopPage(S, Shop!Slugify(r.category)))
  <2> DEFINE others == {s \in Shop!Range(S) : s.slug # r.slug}
             near == {s \in others : s.category = r.category}
             far == {s \in others : s.category # r.category}
             a == Shop!Among(S, near)
             b == Shop!Among(S, far)
             both == a \o b
  <2>1. Shop!RelatedRetailers(S, r) = Shop!Take(both, Related)  BY DEF Shop!RelatedRetailers
  <2>2. near \subseteq others /\ far \subseteq others  OBVIOUS
  <2>3. \A s \in others : s.slug # r.slug  OBVIOUS
  <2> HIDE DEF others, near, far
  <2>4. /\ a \in Seq(StoreRow) /\ Shop!Range(a) = Shop!Range(S) \cap near
        /\ b \in Seq(StoreRow) /\ Shop!Range(b) = Shop!Range(S) \cap far
    BY <1>1, AmongIs
  <2> HIDE DEF a, b
  <2>5. both \in Seq(StoreRow) /\ Shop!Range(both) = Shop!Range(a) \cup Shop!Range(b)
    BY <2>4, BothRanges
  <2> HIDE DEF both
  <2>6. Shop!Range(Shop!Take(both, Related)) \subseteq Shop!Range(both)
    BY <2>5, ShopNumbers, TakeRange
  <2>7. \A s \in Shop!Range(Shop!RelatedRetailers(S, r)) : s.slug # r.slug
    BY <2>1, <2>2, <2>3, <2>4, <2>5, <2>6
  <2>8. ASSUME Shop!Named(S, Shop!Slugify(r.category)) = {r.category}
        PROVE  r \in Shop!Range(Shop!ShopPage(S, Shop!Slugify(r.category)))
    <3> DEFINE named == Shop!Named(S, Shop!Slugify(r.category))
               least == CHOOSE c \in named : \A d \in named : c.wording <= d.wording
               wanted == {s \in Shop!Range(S) : s.category = least}
    <3>1. Shop!ShopPage(S, Shop!Slugify(r.category)) = Shop!Among(S, wanted)  BY DEF Shop!ShopPage
    <3>2. r \in StoreRow  BY <1>2, <1>3
    <3>3. r.category.wording \in Nat  BY <3>2 DEF StoreRow
    <3>4. r.category \in named /\ \A d \in named : r.category.wording <= d.wording
      BY <2>8, <3>3
    <3>5. least \in named
      <4> HIDE DEF named
      <4> QED  BY <3>4
    <3>6. least = r.category  BY <2>8, <3>5
    <3>7. r \in wanted  BY <1>3, <3>6
    <3> HIDE DEF wanted
    <3>8. Shop!Range(Shop!Among(S, wanted)) = Shop!Range(S) \cap wanted  BY <1>1, AmongIs
    <3> QED  BY <1>3, <3>1, <3>7, <3>8
  <2> QED  BY <2>7, <2>8
<1> QED  BY <1>3 DEF Shop!StoresLeadOn, S

(* The catalog of a site is sound after any searches and changes of store   *)
(* categories: the home page repeats no title (featured), a category page   *)
(* lists the newest search of its query and a product's page leads back to  *)
(* a category that has it (categories, catalog.js), related products and    *)
(* stores never offer the page itself (relatedTo, relatedRetailers).        *)
THEOREM CatalogHolds == Shop!Spec => []CatalogIsSound
<1>1. ASSUME ShopInv PROVE CatalogIsSound
  <2>1. Shop!FeaturedAreDistinct  BY <1>1, FeaturedHolds
  <2>2. Shop!CategoriesAreFull  BY <1>1, CategoriesHold
  <2>3. Shop!PagesLeadOn  BY <1>1, PagesHold
  <2>4. Shop!StoresLeadOn  BY <1>1, StoresHold
  <2> QED  BY <2>1, <2>2, <2>3, <2>4 DEF CatalogIsSound, Shop!CatalogIsSound
<1> QED  BY <1>1, ShopHolds, PTL
=============================================================================
