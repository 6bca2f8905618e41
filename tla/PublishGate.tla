----------------------------- MODULE PublishGate -----------------------------
(***************************************************************************)
(* What of a site's document reaches its visitors, and which checks it has *)
(* passed by then.  Installs, retries, rebuilds and rollbacks of one site  *)
(* (InstallerService), the build and the verification of its HTML          *)
(* (BuildService) and the operator's PATCH (SitesService.update), which    *)
(* takes no lock and may land between any two steps.  Locks, crashes and   *)
(* the steps that do not look at the document are the module Installer's.  *)
(*                                                                         *)
(* A page is the set of items its HTML shows.                              *)
(***************************************************************************)
EXTENDS Preflight

CONSTANTS
  Draft,      \* the documents the wizard may submit
  Deployed,   \* those the operator later changes to and installs
  MaxBuilds   \* bound: builds in one behaviour

VARIABLES
  site,       \* the row: the document, with the tags of its tracking columns
  builds,     \* successful builds in order: the document and its page
  docroot,    \* the build the server serves, 0 when none
  live,       \* install_status = 'live'
  job         \* the install or rebuild that is running; raced: a rollback came in (history)

vars == <<site, builds, docroot, live, job>>

NoBuild == 0
Step == {"preflight", "deploying_files", "injecting_tracking", "verifying"}
Nobody == [pc |-> "idle"]

ClaimsOf(d) == {d.claims[i] : i \in DOMAIN d.claims}
PagesOf(d)  == {"privacy", "terms", "contact"}
                 \cup (IF NeedsDisclosure(d.category) THEN {"disclosure"} ELSE {})

(* trackingOf, the beacon, and the service worker a PushVault key needs. *)
ScriptsOf(d) == d.tags \cup {"sf.js"} \cup (IF "pushvault" \in d.tags THEN {"pv-sw.js"} ELSE {})

(* verifyDist: what the document asks for and the page does not show. *)
MissingIn(page, d) == (ClaimsOf(d) \cup PagesOf(d) \cup ScriptsOf(d)) \ page

(* A template shows what it is given; an uploaded one may leave out an item.*)
RenderedPages(d) ==
  LET all == ClaimsOf(d) \cup PagesOf(d) \cup ScriptsOf(d)
  IN  {all} \cup {all \ {item} : item \in all}

At(pc) == job.pc = pc
Goto(pc) == job' = [job EXCEPT !.pc = pc]

Init ==
  /\ site \in Draft
  /\ builds = <<>> /\ docroot = NoBuild /\ live = FALSE
  /\ job = Nobody

-----------------------------------------------------------------------------
(* The operator *)

(* The row is overwritten; "TODO(M3)": nothing is redeployed. *)
Update(d) ==
  /\ site' = d
  /\ UNCHANGED <<builds, docroot, live, job>>

NewJob(kind, from, pc, d) ==
  [kind |-> kind, from |-> from, pc |-> pc, doc |-> d, build |-> NoBuild, raced |-> FALSE]

(* POST install and POST retry: the row is read once, here. *)
Install(from) ==
  /\ At("idle")
  /\ site \in Deployed
  /\ job' = NewJob("install", from,
                   CASE from = "preflight" -> "preflight"
                     [] from = "deploying_files" -> "build"
                     [] OTHER -> "resume", site)
  /\ live' = FALSE
  /\ UNCHANGED <<site, builds, docroot>>

(* A saved edit or the nightly sweep: files only, and no preflight. *)
Rebuild ==
  /\ At("idle") /\ live
  /\ site \in Deployed
  /\ job' = NewJob("rebuild", "deploying_files", "build", site)
  /\ UNCHANGED <<site, builds, docroot, live>>

(* Takes no lock; the status stays what it was. *)
Rollback(b) ==
  /\ docroot' = b
  /\ job' = IF job = Nobody THEN job ELSE [job EXCEPT !.raced = TRUE]
  /\ UNCHANGED <<site, builds, live>>

-----------------------------------------------------------------------------
(* The pipeline *)

Fail ==
  /\ job' = Nobody
  /\ UNCHANGED <<site, builds, docroot, live>>

RunGate ==
  /\ At("preflight")
  /\ Passes(job.doc)
  /\ Goto("build")
  /\ UNCHANGED <<site, builds, docroot, live>>

(* restoreLastBuild: resuming past the build looks at the newest build. *)
Resume ==
  /\ At("resume") /\ builds # <<>>
  /\ job' = [job EXCEPT !.pc = job.from, !.build = Len(builds)]
  /\ UNCHANGED <<site, builds, docroot, live>>

(* BuildService.run on the document read at the start. *)
BuildSiteRereads ==
  /\ At("build") /\ Len(builds) < MaxBuilds
  /\ \E page \in RenderedPages(site) :
       builds' = Append(builds, [doc |-> site, page |-> page])
  /\ job' = [job EXCEPT !.pc = "deploy", !.build = Len(builds) + 1]
  /\ UNCHANGED <<site, docroot, live>>

BuildSite ==
  /\ At("build") /\ Len(builds) < MaxBuilds
  /\ \E page \in RenderedPages(job.doc) :
       builds' = Append(builds, [doc |-> job.doc, page |-> page])
  /\ job' = [job EXCEPT !.pc = "deploy", !.build = Len(builds) + 1]
  /\ UNCHANGED <<site, docroot, live>>

(* deployArtifact; a rebuild is done after it. *)
Deploy ==
  /\ At("deploy")
  /\ docroot' = job.build
  /\ job' = IF job.kind = "rebuild" THEN Nobody ELSE [job EXCEPT !.pc = "injecting_tracking"]
  /\ UNCHANGED <<site, builds, live>>

(* stepVerifyTracking reads the build on the panel's disk. *)
VerifyTracking ==
  /\ At("injecting_tracking")
  /\ MissingIn(builds[job.build].page, job.doc) = {}
  /\ Goto("verifying")
  /\ UNCHANGED <<site, builds, docroot, live>>

(* stepFinalVerify fetches the site itself. *)
FinalVerifyTrustsBuild ==
  /\ At("verifying") /\ docroot # NoBuild
  /\ ClaimsOf(job.doc) \cup PagesOf(job.doc) \subseteq builds[job.build].page
  /\ Goto("live")
  /\ UNCHANGED <<site, builds, docroot, live>>

FinalVerify ==
  /\ At("verifying") /\ docroot # NoBuild
  /\ ClaimsOf(job.doc) \cup PagesOf(job.doc) \subseteq builds[docroot].page
  /\ Goto("live")
  /\ UNCHANGED <<site, builds, docroot, live>>

GoLive ==
  /\ At("live")
  /\ live' = TRUE /\ job' = Nobody
  /\ UNCHANGED <<site, builds, docroot>>

JobStep ==
  \/ RunGate \/ Resume \/ BuildSite \/ Deploy \/ VerifyTracking \/ FinalVerify \/ GoLive
  \/ job # Nobody /\ Fail

Next ==
  \/ \E d \in Deployed : Update(d)
  \/ \E from \in Step : Install(from)
  \/ Rebuild
  \/ \E b \in DOMAIN builds : Rollback(b)
  \/ JobStep

Spec == Init /\ [][Next]_vars

-----------------------------------------------------------------------------
(* Properties *)

(* The gate lets a document through exactly when a visitor is sent to      *)
(* declared stores only and can read who sells and under which terms: no   *)
(* rule of runPreflight hides another.                                     *)
GateIsExact == Passes(site) <=> Compliant(site)

(* A full install publishes what it let through the gate, whatever the     *)
(* operator saves while it runs: the row is not read a second time.        *)
InstallServesWhatItVetted ==
  job # Nobody /\ job.from = "preflight" /\ job.pc # "preflight" /\ job.build # NoBuild =>
    Compliant(builds[job.build].doc)

(* When an install declares the site live and nobody rolled back while it  *)
(* ran, the page the server shows bears every ad claim and legal page of   *)
(* the document the install read; and if it built that page itself, every  *)
(* tag and script as well.  It may have resumed on the newest build while  *)
(* an earlier rollback left another one in front of the visitors.          *)
LiveShowsWhatItAsks ==
  [][live' /\ ~live /\ ~job.raced =>
       LET page == builds[docroot].page
       IN  /\ ClaimsOf(job.doc) \cup PagesOf(job.doc) \subseteq page
           /\ job.from \in {"preflight", "deploying_files"} => MissingIn(page, job.doc) = {}]_vars

(* preflight.ts calls itself the compliance gate, enforced in code: what a *)
(* live site serves has passed it.                                         *)
ServedIsCompliant == live /\ docroot # NoBuild => Compliant(builds[docroot].doc)
=============================================================================
