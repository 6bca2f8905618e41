------------------------------- MODULE Wizard --------------------------------
(***************************************************************************)
(* One tab of the dashboard's site wizard (NewSitePage with ProductFinder, *)
(* SchemaForm and ClientModal) and the panel that answers it, each request *)
(* in its own time.  A site's document is one required text that every     *)
(* template has a default for, its outbound offers, and a tracking tag.    *)
(***************************************************************************)
EXTENDS Naturals, FiniteSets

CONSTANTS
  Template, Store,
  HostList,      \* the lists of allowed stores the operator may type
  MaxEdits,      \* bound: changes made in the form
  MaxFailures    \* bound: requests and installs that fail

VARIABLES
  row,       \* the site's row, NoSite before it is created
  form,      \* the fields of the page
  page,      \* the rest of the page's state
  requests,  \* GETs on their way: sent, or answered with what the panel read
  edits, failures

vars == <<row, form, page, requests, edits, failures>>

NoTemplate == "no template"
NoStore    == "no store"
NoSite     == [template |-> "no site"]

(* named: the client, the name, the domain and the server are filled in. *)
EmptyForm == [template |-> NoTemplate, named |-> FALSE, legal |-> "unset", offers |-> {},
              hosts |-> {}, destination |-> NoStore, tag |-> ""]

ListRequest        == [of |-> "lists"]
TemplateRequest(t) == [of |-> "template", template |-> t]
SiteRequest        == [of |-> "site", read |-> NoSite]

(* handmade: the operator changed stores by hand below an imported offer;  *)
(* edited: the form was changed since it was last sent (both history).     *)
Page(site) ==
  [step |-> 0, site |-> site, listed |-> FALSE, schemas |-> {}, save |-> "none",
   body |-> EmptyForm, preflight |-> "none", confirmed |-> FALSE, installing |-> FALSE,
   log |-> "none", handmade |-> FALSE, edited |-> FALSE]

Stored == [EmptyForm EXCEPT !.template = CHOOSE t \in Template : TRUE, !.named = TRUE,
             !.legal = "default", !.destination = CHOOSE s \in Store : TRUE, !.tag = "tag"]

(* /sites/new, or /sites/new?site= for a site there is. *)
Init ==
  \/ /\ row = NoSite /\ page = Page(FALSE) /\ requests = {ListRequest}
     /\ form = EmptyForm /\ edits = 0 /\ failures = 0
  \/ /\ row = Stored /\ page = Page(TRUE) /\ requests = {ListRequest, SiteRequest}
     /\ form = EmptyForm /\ edits = 0 /\ failures = 0

At(step) == page.step = step

(* validate: runPreflight on the row. *)
Valid(doc) ==
  /\ doc.legal \in {"default", "typed"}
  /\ doc.offers \subseteq doc.hosts \cup {doc.destination}

-----------------------------------------------------------------------------
(* The answers to the page's GETs *)

(* loadLists: the lists hold summaries, which replace any schema fetched.  *)
ListsArrive ==
  /\ ListRequest \in requests
  /\ requests' = requests \ {ListRequest}
  /\ page' = [page EXCEPT !.listed = TRUE, !.schemas = {}]
  /\ UNCHANGED <<row, form, edits, failures>>

(* fillDefaults sets what is undefined; a template not yet in the list is  *)
(* not given its schema.                                                   *)
FillDefaults(f) == [f EXCEPT !.legal = IF @ = "unset" THEN "default" ELSE @]

TemplateArrives(t) ==
  /\ TemplateRequest(t) \in requests
  /\ requests' = requests \ {TemplateRequest(t)}
  /\ page' = [page EXCEPT !.schemas = IF page.listed THEN @ \cup {t} ELSE @]
  /\ form' = FillDefaults(form)
  /\ UNCHANGED <<row, edits, failures>>

ReadSite(r) ==
  /\ r = SiteRequest
  /\ requests' = (requests \ {r}) \cup {[r EXCEPT !.read = row]}
  /\ UNCHANGED <<row, form, page, edits, failures>>

Fetching(t) == IF t = form.template THEN {} ELSE {TemplateRequest(t)}

SiteArrives(r) ==
  /\ r.of = "site" /\ r # SiteRequest
  /\ form' = r.read
  /\ requests' = (requests \ {r}) \cup Fetching(r.read.template)
  /\ UNCHANGED <<row, page, edits, failures>>

-----------------------------------------------------------------------------
(* The operator's changes; nothing is disabled while a save is under way. *)

Edit(f) ==
  /\ edits < MaxEdits /\ edits' = edits + 1
  /\ form' = f

PickTemplate(t) ==
  /\ At(0) /\ page.listed
  /\ form' = [form EXCEPT !.template = t]
  /\ edits' = IF form.template = NoTemplate THEN edits ELSE edits + 1
  /\ edits' <= MaxEdits
  /\ requests' = requests \cup Fetching(t)
  /\ page' = [page EXCEPT !.edited = TRUE]
  /\ UNCHANGED <<row, failures>>

(* Step 1, and the server of step 2. *)
FillIn(store) ==
  /\ At(1) /\ ~form.named
  /\ form' = [form EXCEPT !.named = TRUE, !.destination = store]
  /\ page' = [page EXCEPT !.edited = TRUE]
  /\ UNCHANGED <<row, requests, edits, failures>>

(* "+ New" client loads the lists again. *)
AddClient ==
  /\ At(1)
  /\ Edit(form)
  /\ requests' = requests \cup {ListRequest}
  /\ UNCHANGED <<row, page, failures>>

SetStores(store, hosts) ==
  /\ At(1) /\ <<store, hosts>> # <<form.destination, form.hosts>>
  /\ Edit([form EXCEPT !.destination = store, !.hosts = hosts])
  /\ page' = [page EXCEPT !.edited = TRUE, !.handmade = @ \/ (form.offers # {} \/ (row # NoSite /\ row.offers # {}))]
  /\ UNCHANGED <<row, requests, failures>>

(* Step 3 shows the parameters when the page has the template's schema. *)
Parameters == At(3) /\ form.template \in page.schemas

SetLegal(text) ==
  /\ Parameters
  /\ Edit([form EXCEPT !.legal = text])
  /\ page' = [page EXCEPT !.edited = TRUE]
  /\ UNCHANGED <<row, requests, failures>>

(* addAllowedHost *)
AddAllowedHost(f, host) == IF host = f.destination THEN f.hosts ELSE f.hosts \cup {host}

ImportOffer(host) ==
  /\ Parameters
  /\ Edit([form EXCEPT !.offers = @ \cup {host}, !.hosts = AddAllowedHost(form, host)])
  /\ page' = [page EXCEPT !.edited = TRUE]
  /\ UNCHANGED <<row, requests, failures>>

RemoveOffer(host) ==
  /\ Parameters /\ host \in form.offers
  /\ Edit([form EXCEPT !.offers = @ \ {host}])
  /\ page' = [page EXCEPT !.edited = TRUE]
  /\ UNCHANGED <<row, requests, failures>>

SetTag(tag) ==
  /\ At(4)
  /\ Edit([form EXCEPT !.tag = tag])
  /\ page' = [page EXCEPT !.edited = TRUE]
  /\ UNCHANGED <<row, requests, failures>>

CanNext ==
  \/ At(0) /\ form.template # NoTemplate
  \/ At(1) /\ form.named
  \/ page.step \in {2, 3}

Forward ==
  /\ CanNext
  /\ page' = [page EXCEPT !.step = @ + 1]
  /\ UNCHANGED <<row, form, requests, edits, failures>>

Back ==
  /\ page.step > 0
  /\ page' = [page EXCEPT !.step = @ - 1]
  /\ UNCHANGED <<row, form, requests, edits, failures>>

-----------------------------------------------------------------------------
(* saveAndValidate *)

SaveKeepsPreflight ==
  /\ page.step \in {4, 5} /\ page.save = "none"
  /\ page' = [page EXCEPT !.save = "sent", !.body = form, !.edited = FALSE]
  /\ UNCHANGED <<row, form, requests, edits, failures>>

Save ==
  /\ page.step \in {4, 5} /\ page.save = "none"
  /\ page' = [page EXCEPT !.save = "sent", !.body = form, !.edited = FALSE, !.preflight = "none"]
  /\ UNCHANGED <<row, form, requests, edits, failures>>

(* SitesService.create: one site of a domain. *)
Create ==
  /\ page.save = "sent" /\ ~page.site /\ row = NoSite
  /\ row' = page.body
  /\ page' = [page EXCEPT !.save = "written", !.body = EmptyForm]
  /\ UNCHANGED <<form, requests, edits, failures>>

(* SitesService.update: a tag left out of the body stays as it is, and     *)
(* buildBody leaves out an empty one.                                      *)
PatchedWithoutHosts(old, body) ==
  [body EXCEPT !.hosts = old.hosts, !.tag = IF @ = "" THEN old.tag ELSE @]
Patched(old, body) == [body EXCEPT !.tag = IF @ = "" THEN old.tag ELSE @]

Patch ==
  /\ page.save = "sent" /\ page.site
  /\ row' = Patched(row, page.body)
  /\ page' = [page EXCEPT !.save = "written", !.body = EmptyForm]
  /\ UNCHANGED <<form, requests, edits, failures>>

(* The id of a new site sets off the effect that loads it. *)
Written ==
  /\ page.save = "written"
  /\ page' = [page EXCEPT !.save = "validating", !.site = TRUE]
  /\ requests' = requests \cup (IF page.site THEN {} ELSE {SiteRequest})
  /\ UNCHANGED <<row, form, edits, failures>>

Validate ==
  /\ page.save = "validating"
  /\ page' = [page EXCEPT !.save = "none", !.step = 5,
                          !.preflight = IF Valid(row) THEN "ok" ELSE "errors"]
  /\ UNCHANGED <<row, form, requests, edits, failures>>

(* A request is refused or its answer lost, a create that was carried out  *)
(* among them: the page then tries to create the site again, in vain.      *)
SaveFails ==
  /\ page.save # "none"
  /\ failures < MaxFailures /\ failures' = failures + 1
  /\ page' = [page EXCEPT !.save = "none", !.body = EmptyForm]
  /\ UNCHANGED <<row, form, requests, edits>>

-----------------------------------------------------------------------------
(* The install, and its retry from the step that failed *)

Passed == At(5) /\ page.preflight = "ok"

Confirm ==
  /\ Passed
  /\ page' = [page EXCEPT !.confirmed = ~@]
  /\ UNCHANGED <<row, form, requests, edits, failures>>

Install ==
  /\ Passed /\ page.confirmed /\ ~page.installing
  /\ page' = [page EXCEPT !.installing = TRUE, !.log = "none"]
  /\ UNCHANGED <<row, form, requests, edits, failures>>

Retry ==
  /\ Passed /\ page.log = "failed" /\ ~page.installing
  /\ page' = [page EXCEPT !.installing = TRUE, !.log = "none"]
  /\ UNCHANGED <<row, form, requests, edits, failures>>

InstallEnds ==
  /\ page.installing
  /\ \/ page' = [page EXCEPT !.installing = FALSE] /\ UNCHANGED failures
     \/ /\ failures < MaxFailures /\ failures' = failures + 1
        /\ page' = [page EXCEPT !.installing = FALSE, !.log = "failed"]
  /\ UNCHANGED <<row, form, requests, edits>>

-----------------------------------------------------------------------------
Change ==
  \/ \E t \in Template : PickTemplate(t)
  \/ \E s \in Store : FillIn(s) \/ ImportOffer(s) \/ RemoveOffer(s)
  \/ AddClient
  \/ \E s \in Store, hosts \in HostList : SetStores(s, hosts)
  \/ \E text \in {"typed", "empty"} : SetLegal(text)
  \/ \E tag \in {"", "tag"} : SetTag(tag)

Next ==
  \/ ListsArrive
  \/ \E t \in Template : TemplateArrives(t)
  \/ \E r \in requests : ReadSite(r) \/ SiteArrives(r)
  \/ Change \/ Forward \/ Back
  \/ Save \/ Create \/ Patch \/ Written \/ Validate \/ SaveFails
  \/ Confirm \/ Install \/ Retry \/ InstallEnds

Spec == Init /\ [][Next]_vars

-----------------------------------------------------------------------------
(* Properties *)

(* The page asks for an install, and for a retry that enters behind the    *)
(* gate, only of a row that passes it, although the form may be changed    *)
(* and saved again while a save or an install is under way.                *)
InstallIsVetted == [][page'.installing /\ ~page.installing => Valid(row)]_vars

(* What the product finder imports is not stopped by the gate later: in    *)
(* the form and in the row the store of an offer is the destination or an  *)
(* allowed host, unless the operator changed those by hand.                *)
ImportedAreAllowed ==
  ~page.handmade =>
    \A doc \in {form, row} \ {NoSite} : doc.offers \subseteq doc.hosts \cup {doc.destination}

(* "Pre-flight validation passed -- draft saved": the row then has the     *)
(* tags the page shows, when nothing was changed since Save was pressed.   *)
TagsAreSaved ==
  Passed /\ page.save = "none" /\ ~page.edited /\ requests = {} => row.tag = form.tag
=============================================================================
