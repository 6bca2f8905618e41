----------------------------- MODULE MCContent -------------------------------
(***************************************************************************)
(* A site's document on small instances: the wizard that writes it and the *)
(* page of its record, the saves and republications (ContentEdits), its    *)
(* way through the checks to its visitors (PublishGate), who may edit it   *)
(* (EditorKeys), and the catalog that is built into its pages.  Each is a  *)
(* view of its own of the same rows, so a behaviour has one subject and    *)
(* the state spaces add up instead of multiplying.                         *)
(***************************************************************************)
EXTENDS ContentEdits, MCDocuments, TLC

CONSTANTS
  Subject, Draft, Deployed, MaxBuilds, Panel, Client, Value, MaxClaim, MaxSaved, MaxMinted,
  Template, Store, HostList, FormEdits, MaxFailures,
  Task, Campaign, MaxChanges,
  Query, Product, Curated, Category, Hashes, MaxFound, MaxRows, LimitCats, PerCat, Featured, Related

VARIABLES
  subject,
  site, builds, docroot, published, install,
  key, minted, panel, draft, save,
  row, form, wizard, requests, changed, formFailures,
  links, pageKey, pageMinted, page, tasks, pageFailures,
  rows, overrides

gateVars == <<site, builds, docroot, published, install>>
keyVars  == <<key, minted, panel, draft, save>>
formVars == <<row, form, wizard, requests, changed, formFailures>>
pageVars == <<links, pageKey, pageMinted, page, tasks, pageFailures>>
catalogVars == <<rows, overrides>>

Gate == INSTANCE PublishGate WITH live <- published, job <- install
Keys == INSTANCE EditorKeys WITH params <- draft
Form == INSTANCE Wizard WITH page <- wizard, edits <- changed, failures <- formFailures,
          MaxEdits <- FormEdits
Record == INSTANCE RecordPage WITH key <- pageKey, minted <- pageMinted, failures <- pageFailures,
            MaxMinted <- MaxChanges + 1
Shop == INSTANCE StoreCatalog

MCInit ==
  /\ subject \in Subject
  /\ Init /\ Gate!Init /\ Keys!Init /\ Form!Init /\ Record!Init /\ Shop!Init
  /\ subject # "gate" => site = Good
  /\ subject # "wizard" => row = Form!NoSite
  /\ subject # "record" => tasks[CHOOSE t \in Task : TRUE].at = "asked"

MCNext ==
  /\ UNCHANGED subject
  /\ \/ /\ subject = "edits" /\ Next
        /\ UNCHANGED <<gateVars, keyVars, formVars, pageVars, catalogVars>>
     \/ /\ subject = "gate" /\ Gate!Next
        /\ UNCHANGED <<vars, keyVars, formVars, pageVars, catalogVars>>
     \/ /\ subject = "keys" /\ Keys!Next
        /\ UNCHANGED <<vars, gateVars, formVars, pageVars, catalogVars>>
     \/ /\ subject = "wizard" /\ Form!Next
        /\ UNCHANGED <<vars, gateVars, keyVars, pageVars, catalogVars>>
     \/ /\ subject = "record" /\ Record!Next
        /\ UNCHANGED <<vars, gateVars, keyVars, formVars, catalogVars>>
     \/ /\ subject = "catalog" /\ Shop!Next
        /\ UNCHANGED <<vars, gateVars, keyVars, formVars, pageVars>>

MCSpec ==
  MCInit /\ [][MCNext]_<<subject, vars, gateVars, keyVars, formVars, pageVars, catalogVars>>

(* Which slot of the record page a task takes makes no difference. *)
SlotSymmetry == Permutations(Task)

(* The documents of the runs are documents. *)
ASSUME DocumentAssumption == Draft \cup Deployed \subseteq Document

(* There is a template and a store, and stores are what may be allowed. *)
ASSUME FormAssumption == Template # {} /\ Store # {} /\ HostList \subseteq SUBSET Store

(* A text has a slug and a wording, and a store a category.  *)
ASSUME CatalogAssumption ==
  /\ {PerCat, LimitCats, Featured, Related, MaxRows} \subseteq Nat
  /\ Category \subseteq [slug : STRING, wording : Nat]
  /\ Curated \in Seq([slug : STRING, category : [slug : STRING, wording : Nat]])

(* What takes long to evaluate is evaluated where it can change.           *)
GateIsExact               == subject = "gate" => Gate!GateIsExact
InstallServesWhatItVetted == Gate!InstallServesWhatItVetted
LiveShowsWhatItAsks       == Gate!LiveShowsWhatItAsks
ServedIsCompliant         == Gate!ServedIsCompliant
EditorIsKeyed             == Keys!EditorIsKeyed
InstallIsVetted           == Form!InstallIsVetted
ImportedAreAllowed        == Form!ImportedAreAllowed
TagsAreSaved              == Form!TagsAreSaved
PageIsCurrent             == Record!PageIsCurrent
ShownLinkOpens            == Record!ShownLinkOpens
CatalogIsSound            == subject = "catalog" => Shop!CatalogIsSound
=============================================================================
