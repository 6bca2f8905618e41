---------------------------- MODULE ContentEdits ----------------------------
(***************************************************************************)
(* Client self-service editing of one site: ContentService.saveEdits, the  *)
(* operator's site update, and what becomes of the saved parameters.  A    *)
(* save reads the whole of sites.params, merges its edits in memory and    *)
(* writes the whole back, then asks rebuildFiles to republish without      *)
(* waiting for it; an update writes and does not.  The site's pipeline     *)
(* (Installer) appears as jobs under the one lock of an inline panel: each *)
(* reads the parameters when it starts, builds and deploys what it read.   *)
(* A rollback takes no lock and deploys what was built before.             *)
(***************************************************************************)
EXTENDS Naturals

CONSTANTS
  Field,    \* the paths that may be edited
  Editor,   \* slots for saves and updates alive at one time
  Job,      \* slots for rebuilds and installs
  MaxEdits  \* bound: edits in one behaviour

ASSUME EditAssumption == MaxEdits \in Nat /\ Field # {}

VARIABLES
  params,   \* sites.params: for each path the number of the edit it is from
  version,  \* how often params has been written (history)
  live,     \* sites.install_status = 'live'
  served,   \* the parameters of the release the site serves
  release,  \* and the version they are (history)
  artifacts, \* what the successful builds were made of
  running,  \* the site is in InstallerService.running
  editor,   \* the saves and updates
  job,      \* the rebuilds and installs
  promised, \* the edit the client was told is being published (history)
  lost,     \* the paths whose promise came to nothing (history)
  edits     \* bound

vars == <<params, version, live, served, release, artifacts, running, editor, job,
          promised, lost, edits>>

-----------------------------------------------------------------------------
Content   == [Field -> Nat]
Artifact  == [content : Content, version : Nat]
EditorRecord == [pc : {"idle", "write", "publish"}, field : Field, value : Nat,
                 snap : Content, publishes : BOOLEAN]
JobKind   == {"install", "resume", "rebuild"}
JobRecord == [pc : {"idle", "read", "build", "deploy", "rest"}, kind : JobKind,
              content : Content, version : Nat]

Blank      == [f \in Field |-> 0]
IdleEditor == [pc |-> "idle", field |-> CHOOSE f \in Field : TRUE, value |-> 0,
               snap |-> Blank, publishes |-> FALSE]
IdleJob    == [pc |-> "idle", kind |-> "rebuild", content |-> Blank, version |-> 0]

(* The site is live, so it has been built. *)
Init ==
  /\ params = Blank /\ served = Blank /\ version = 0 /\ release = 0
  /\ artifacts = {[content |-> Blank, version |-> 0]}
  /\ live = TRUE /\ running = FALSE
  /\ editor = [e \in Editor |-> IdleEditor]
  /\ job = [j \in Job |-> IdleJob]
  /\ promised = Blank /\ lost = {}
  /\ edits = 0

-----------------------------------------------------------------------------
(* Job j will serve what path f was promised: it has yet to read the        *)
(* parameters, or it has read this value.                                  *)
Brings(j, f) ==
  \/ job[j].pc = "read" /\ job[j].kind # "resume"
  \/ job[j].pc \in {"build", "deploy"} /\ job[j].content[f] = promised[f]

(* It will be served, or it is and no job is about to replace it.          *)
OnItsWay(f) ==
  \/ \E j \in Job : Brings(j, f)
  \/ served[f] = promised[f] /\ \A j \in Job : job[j].pc \notin {"build", "deploy"}

(* Of the promises that were lost or are in danger now, those that nothing  *)
(* will keep.                                                              *)
LoseAmong(endangered) == lost' = {f \in lost \cup endangered : ~OnItsWay(f)'}

-----------------------------------------------------------------------------
(* Saves and updates *)

(* The row is read.  A bad key, or no path that may be edited, ends a save  *)
(* here.  An update's form was filled in from the row.                     *)
ReadSite(e, f, save) ==
  /\ editor[e].pc = "idle"
  /\ edits < MaxEdits
  /\ edits' = edits + 1
  /\ editor' = [editor EXCEPT ![e] = [pc |-> "write", field |-> f, value |-> edits',
                                      snap |-> params, publishes |-> save /\ live]]
  /\ UNCHANGED <<params, version, live, served, release, artifacts, running, job, promised, lost>>

(* setPath on a clone of the parameters that were read. *)
Merged(e) == [editor[e].snap EXCEPT ![editor[e].field] = editor[e].value]

(* site.update; a promise about a value that is overwritten lapses. *)
WriteParams(e) ==
  /\ editor[e].pc = "write"
  /\ params' = Merged(e) /\ version' = version + 1
  /\ promised' = [f \in Field |-> IF params'[f] = promised[f] THEN promised[f] ELSE 0]
  /\ lost' = {f \in lost : promised'[f] # 0}
  /\ editor' = IF editor[e].publishes THEN [editor EXCEPT ![e].pc = "publish"]
                                      ELSE [editor EXCEPT ![e] = IdleEditor]
  /\ UNCHANGED <<live, served, release, artifacts, running, job, edits>>

(* Slip: the lock is not asked for. *)
NotRunningUnchecked == TRUE

(* if (this.running.has(siteId)) throw ... *)
NotRunning == ~running

StartJob(j, kind) ==
  /\ job[j].pc = "idle"
  /\ running' = TRUE
  /\ job' = [job EXCEPT ![j] = [IdleJob EXCEPT !.pc = "read", !.kind = kind]]

(* publishing: true is answered, whatever rebuildFiles does: it is refused  *)
(* while another job has the lock.                                         *)
Publish(e) ==
  /\ editor[e].pc = "publish"
  /\ LET f == editor[e].field
         isCurrent == params[f] = editor[e].value IN
     /\ promised' = [promised EXCEPT ![f] = IF isCurrent THEN editor[e].value ELSE @]
     /\ \/ NotRunning /\ \E j \in Job : StartJob(j, "rebuild")
        \/ ~NotRunning /\ UNCHANGED <<running, job>>
     /\ editor' = [editor EXCEPT ![e] = IdleEditor]
     /\ UNCHANGED <<params, version, live, served, release, artifacts, edits>>
     /\ LoseAmong(IF isCurrent THEN {f} ELSE {})

-----------------------------------------------------------------------------
(* The pipeline *)

(* An install, one resumed behind deploying_files, or the nightly rebuild,  *)
(* of a site that was live when they were listed.                          *)
OtherJob(j, kind) ==
  /\ NotRunning
  /\ StartJob(j, kind)
  /\ UNCHANGED <<params, version, live, served, release, artifacts, editor, promised, lost, edits>>

(* Slip: the release that is served is taken again instead of the row. *)
ReadParamsReused(j) ==
  /\ job[j].pc = "read"
  /\ job' = [job EXCEPT ![j].pc = IF job[j].kind = "resume" THEN "rest" ELSE "build",
                        ![j].content = served, ![j].version = release]
  /\ live' = (live /\ job[j].kind = "rebuild")
  /\ UNCHANGED <<params, version, served, release, artifacts, running, editor, promised, lost, edits>>

(* The site is read once, at the start; an install then marks it queued.    *)
(* One resumed behind deploying_files builds and deploys nothing.          *)
ReadParams(j) ==
  /\ job[j].pc = "read"
  /\ job' = [job EXCEPT ![j].pc = IF job[j].kind = "resume" THEN "rest" ELSE "build",
                        ![j].content = params, ![j].version = version]
  /\ live' = (live /\ job[j].kind = "rebuild")
  /\ UNCHANGED <<params, version, served, release, artifacts, running, editor, promised, lost, edits>>

Built(j) == [content |-> job[j].content, version |-> job[j].version]

(* The build succeeds, and may be rolled back to before it is deployed.    *)
Build(j) ==
  /\ job[j].pc = "build"
  /\ artifacts' = artifacts \cup {Built(j)}
  /\ job' = [job EXCEPT ![j].pc = "deploy"]
  /\ UNCHANGED <<params, version, live, served, release, running, editor, promised, lost, edits>>

Serve(artifact) == served' = artifact.content /\ release' = artifact.version

(* What was read is swapped in. *)
Deploy(j) ==
  /\ job[j].pc = "deploy"
  /\ Serve(Built(j))
  /\ job' = [job EXCEPT ![j].pc = "rest"]
  /\ UNCHANGED <<params, version, live, artifacts, running, editor, promised, edits>>
  /\ LoseAmong({})

EndJob(j) ==
  /\ running' = FALSE
  /\ job' = [job EXCEPT ![j] = IdleJob]

(* The other steps are done; an install makes the site live. *)
Finish(j) ==
  /\ job[j].pc = "rest"
  /\ EndJob(j)
  /\ live' = (live \/ job[j].kind # "rebuild")
  /\ UNCHANGED <<params, version, served, release, artifacts, editor, promised, lost, edits>>

(* A step fails, in any of its ways. *)
JobFails(j) ==
  /\ job[j].pc # "idle"
  /\ EndJob(j)
  /\ UNCHANGED <<params, version, live, served, release, artifacts, editor, promised, edits>>
  /\ LoseAmong({f \in Field : Brings(j, f)})

(* deployArtifact of a successful build, whatever has the lock.            *)
Rollback(artifact) ==
  /\ Serve(artifact)
  /\ UNCHANGED <<params, version, live, artifacts, running, editor, job, promised, edits>>
  /\ LoseAmong({f \in Field : served[f] = promised[f]})

-----------------------------------------------------------------------------
EditorStep(e) ==
  \/ \E f \in Field, save \in BOOLEAN : ReadSite(e, f, save)
  \/ WriteParams(e) \/ Publish(e)

JobStep(j) == ReadParams(j) \/ Build(j) \/ Deploy(j) \/ Finish(j) \/ JobFails(j)

RollsBack == \E artifact \in artifacts : Rollback(artifact)

Next ==
  \/ \E e \in Editor : EditorStep(e)
  \/ \E j \in Job : JobStep(j) \/ \E kind \in JobKind : OtherJob(j, kind)
  \/ RollsBack

Spec == Init /\ [][Next]_vars

-----------------------------------------------------------------------------
(* Properties *)

TypeOK ==
  /\ params \in Content /\ served \in Content /\ promised \in Content
  /\ live \in BOOLEAN /\ running \in BOOLEAN /\ lost \subseteq Field
  /\ artifacts \subseteq Artifact
  /\ editor \in [Editor -> EditorRecord]
  /\ job \in [Job -> JobRecord]
  /\ edits \in Nat /\ version \in Nat /\ release \in Nat

(* An edit that the client was told is being published, and that is still   *)
(* the current one, is served and about to stay so, or a job that will     *)
(* serve it is under way, unless this edit's own republication was refused *)
(* because of a job that had read an older value or deploys nothing, the   *)
(* job that was to serve it failed, or a rollback took it away.  No other  *)
(* save, update, install or rebuild loses it.                              *)
PromiseAccounted ==
  \A f \in Field : promised[f] # 0 /\ f \notin lost => OnItsWay(f)

(* But for rollbacks the site never goes back to parameters older than      *)
(* those it serves, whichever of several installs and rebuilds read them   *)
(* and ends last; not even if a rollback takes up what one is deploying.   *)
ServedNeverRegresses == [][RollsBack \/ release' >= release]_vars

(* "Merges them into the site's params": a path changes only by an edit of  *)
(* that path.                                                              *)
EditsAreMerged ==
  [][\A f \in Field : params'[f] # params[f]
       => \E e \in Editor : editor[e].field = f /\ params'[f] = editor[e].value]_vars

=============================================================================
