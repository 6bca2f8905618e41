----------------------------- MODULE SiteRecords -----------------------------
(***************************************************************************)
(* The rows of clients, templates and sites of several tenants, and the    *)
(* requests that change them (ClientsService, TemplatesService and         *)
(* SitesService).  Each runs in a transaction that sees what others have   *)
(* committed before each of its statements (READ COMMITTED), and only the  *)
(* rows of its tenant; the constraints of the schema hold for all tenants. *)
(***************************************************************************)
EXTENDS Naturals, FiniteSets, RecordState

CONSTANTS
  Tenant, Op,    \* tenants; requests under way
  Number,        \* of a tenant's clients and templates
  Domain,        \* names, in lower case
  MaxSites       \* bound

VARIABLE
  ops            \* the transactions: idle, or past their checks

vars == <<clients, templates, sites, ops>>

Row   == [of : Tenant, n : Number]
Idle  == [does |-> "nothing"]

Init ==
  /\ clients = {}
  /\ templates = [t \in {[of |-> Stock, n |-> 0]} |-> "active"]
  /\ sites = {} /\ ops = [o \in Op |-> Idle]

Begin(o, op) == ops[o] = Idle /\ ops' = [ops EXCEPT ![o] = op]
End(o) == ops' = [ops EXCEPT ![o] = Idle]

-----------------------------------------------------------------------------
CreateClient(row) ==
  /\ row \notin clients /\ clients' = clients \cup {row}
  /\ UNCHANGED <<templates, sites, ops>>

(* remove: refused when the client has sites, archived ones as well; the   *)
(* foreign key refuses what slipped in since.                              *)
RemoveClient(o, row) ==
  /\ row \in clients /\ ~\E s \in sites : s.client = row
  /\ Begin(o, [does |-> "remove", client |-> row])
  /\ UNCHANGED <<clients, templates, sites>>

Removed(o) ==
  /\ ops[o].does = "remove" /\ End(o)
  /\ clients' = IF \E s \in sites : s.client = ops[o].client THEN clients
                ELSE clients \ {ops[o].client}
  /\ UNCHANGED <<templates, sites>>

CreateTemplate(row) ==
  /\ row \notin DOMAIN templates
  /\ templates' = [t \in DOMAIN templates \cup {row} |->
                     IF t = row THEN "active" ELSE templates[t]]
  /\ UNCHANGED <<clients, sites, ops>>

(* Stock templates cannot be deprecated.                                   *)
Deprecate(tenant, row) ==
  /\ row \in DOMAIN templates /\ Visible(tenant, row) /\ row.of # Stock
  /\ templates' = [templates EXCEPT ![row] = "deprecated"]
  /\ UNCHANGED <<clients, sites, ops>>

-----------------------------------------------------------------------------
(* create: the rows named are the tenant's, and none of its sites has the  *)
(* domain as it was typed; it is stored in lower case.                     *)
CreateUnscoped(o, tenant, client, template, domain, typed) ==
  /\ client \in clients
  /\ template \in DOMAIN templates /\ templates[template] = "active"
  /\ ~\E s \in sites : s.of = tenant /\ s.domain = domain /\ typed = "as stored"
  /\ Begin(o, [does |-> "create", of |-> tenant, client |-> client, template |-> template,
               domain |-> domain])
  /\ UNCHANGED <<clients, templates, sites>>

Create(o, tenant, client, template, domain, typed) ==
  /\ client \in clients /\ Visible(tenant, client)
  /\ template \in DOMAIN templates /\ Visible(tenant, template) /\ templates[template] = "active"
  /\ ~\E s \in sites : s.of = tenant /\ s.domain = domain /\ typed = "as stored"
  /\ Begin(o, [does |-> "create", of |-> tenant, client |-> client, template |-> template,
               domain |-> domain])
  /\ UNCHANGED <<clients, templates, sites>>

Site(op) ==
  [of |-> op.of, client |-> op.client, template |-> op.template, domain |-> op.domain,
   status |-> "draft"]

(* The insert: the client is still there, and the domain is nobody's.      *)
Inserted(o) ==
  /\ ops[o].does = "create" /\ End(o)
  /\ Cardinality(sites) < MaxSites
  /\ sites' = IF ops[o].client \in clients /\ ~\E s \in sites : s.domain = ops[o].domain
              THEN sites \cup {Site(ops[o])} ELSE sites
  /\ UNCHANGED <<clients, templates>>

(* update: another template, which is the tenant's and active.             *)
SwapTemplate(tenant, s, template) ==
  /\ s.of = tenant
  /\ template \in DOMAIN templates /\ Visible(tenant, template) /\ templates[template] = "active"
  /\ sites' = (sites \ {s}) \cup {[s EXCEPT !.template = template]}
  /\ UNCHANGED <<clients, templates, ops>>

Archive(tenant, s) ==
  /\ s.of = tenant
  /\ sites' = (sites \ {s}) \cup {[s EXCEPT !.status = "archived"]}
  /\ UNCHANGED <<clients, templates, ops>>

Next ==
  \/ \E row \in Row : CreateClient(row) \/ CreateTemplate(row)
  \/ \E o \in Op :
       \/ \E row \in Row : RemoveClient(o, row)
       \/ \E tenant \in Tenant, client \in clients, template \in DOMAIN templates, domain \in Domain,
             typed \in {"as stored", "in capitals"} : Create(o, tenant, client, template, domain, typed)
       \/ Removed(o) \/ Inserted(o)
  \/ \E tenant \in Tenant :
       \/ \E row \in DOMAIN templates : Deprecate(tenant, row)
       \/ \E s \in sites : Archive(tenant, s) \/ \E t \in DOMAIN templates : SwapTemplate(tenant, s, t)

Spec == Init /\ [][Next]_vars
=============================================================================
