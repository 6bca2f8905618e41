------------------------- MODULE SiteRecordsProofs ---------------------------
(***************************************************************************)
(* For any tenants, any number of requests under way and any domains: the  *)
(* rows of `sites` keep their client, their domain and their tenant.       *)
(***************************************************************************)
EXTENDS SiteRecords, TLAPS

TemplateRow == Row \cup {[of |-> Stock, n |-> 0]}

SiteRow == [of : Tenant, client : Row, template : TemplateRow, domain : Domain,
            status : {"draft", "archived"}]

Removal  == [does : {"remove"}, client : Row]
Creation == [does : {"create"}, of : Tenant, client : Row, template : TemplateRow, domain : Domain]

TypeOK ==
  /\ clients \subseteq Row
  /\ DOMAIN templates \subseteq TemplateRow
  /\ sites \subseteq SiteRow
  /\ ops \in [Op -> {Idle} \cup Removal \cup Creation]

(* What a creation was let in for stays in its tenant until it is stored. *)
OpsStayInTenant ==
  \A o \in Op : ops[o].does = "create" =>
    Visible(ops[o].of, ops[o].client) /\ Visible(ops[o].of, ops[o].template)

IInv == TypeOK /\ OpsStayInTenant /\ SitesAreSound

-----------------------------------------------------------------------------
LEMMA InitInv == Init => IInv
<1> SUFFICES ASSUME Init PROVE IInv
  OBVIOUS
<1>1. TypeOK
  BY DEF Init, TypeOK, TemplateRow
<1>2. OpsStayInTenant
  BY DEF Init, OpsStayInTenant, Idle
<1>3. SitesAreSound
  BY DEF Init, SitesAreSound, ClientsExist, DomainsAreDistinct, SitesStayInTenant
<1> QED BY <1>1, <1>2, <1>3 DEF IInv

(* A request that begins or ends leaves the rows of the others alone. *)
LEMMA OpsChange ==
  ASSUME IInv, NEW o \in Op, NEW op, ops' = [ops EXCEPT ![o] = op],
         op \in {Idle} \cup Removal \cup Creation,
         op.does = "create" => Visible(op.of, op.client) /\ Visible(op.of, op.template)
  PROVE  ops' \in [Op -> {Idle} \cup Removal \cup Creation] /\ OpsStayInTenant'
<1>1. ops \in [Op -> {Idle} \cup Removal \cup Creation]
  BY DEF IInv, TypeOK
<1>2. ops' \in [Op -> {Idle} \cup Removal \cup Creation]
  BY <1>1
<1>3. ASSUME NEW q \in Op, ops'[q].does = "create"
      PROVE  Visible(ops'[q].of, ops'[q].client) /\ Visible(ops'[q].of, ops'[q].template)
  <2>1. CASE q = o
    BY <1>1, <1>3, <2>1
  <2>2. CASE q # o
    <3>1. ops'[q] = ops[q]
      BY <1>1, <2>2
    <3> QED BY <1>3, <3>1 DEF IInv, OpsStayInTenant
  <2> QED BY <2>1, <2>2
<1>4. OpsStayInTenant'
  BY <1>3 DEF OpsStayInTenant, Visible
<1> QED BY <1>2, <1>4

(* Ending a request is a change of `ops` to Idle. *)
LEMMA EndChange ==
  ASSUME IInv, NEW o \in Op, End(o)
  PROVE  ops' \in [Op -> {Idle} \cup Removal \cup Creation] /\ OpsStayInTenant'
<1>1. Idle.does # "create"
  BY DEF Idle
<1> QED BY <1>1, OpsChange DEF End

(* A change of one site that keeps its owner, client and domain, and names  *)
(* a template the tenant sees, keeps the sites sound.                      *)
LEMMA SiteChange ==
  ASSUME IInv, NEW s \in sites, NEW u \in SiteRow,
         u.of = s.of, u.client = s.client, u.domain = s.domain,
         Visible(u.of, u.template),
         sites' = (sites \ {s}) \cup {u}, UNCHANGED <<clients, templates, ops>>
  PROVE  IInv'
<1>1. TypeOK'
  BY DEF IInv, TypeOK
<1>2. OpsStayInTenant'
  BY DEF IInv, OpsStayInTenant, Visible
<1>3. ClientsExist'
  BY DEF IInv, SitesAreSound, ClientsExist
<1>4. DomainsAreDistinct'
  BY DEF IInv, SitesAreSound, DomainsAreDistinct
<1>5. SitesStayInTenant'
  BY DEF IInv, SitesAreSound, SitesStayInTenant, Visible
<1> QED BY <1>1, <1>2, <1>3, <1>4, <1>5 DEF IInv, SitesAreSound

-----------------------------------------------------------------------------
LEMMA StepInv == IInv /\ [Next]_vars => IInv'
<1> SUFFICES ASSUME IInv, [Next]_vars PROVE IInv'
  OBVIOUS
<1>0. /\ TypeOK /\ OpsStayInTenant
      /\ ClientsExist /\ DomainsAreDistinct /\ SitesStayInTenant
  BY DEF IInv, SitesAreSound
<1>a. ASSUME UNCHANGED sites, clients \subseteq clients'
      PROVE  SitesAreSound'
  BY <1>0, <1>a DEF SitesAreSound, ClientsExist, DomainsAreDistinct, SitesStayInTenant, Visible
<1>b. ASSUME UNCHANGED ops
      PROVE  OpsStayInTenant'
  BY <1>0, <1>b DEF OpsStayInTenant, Visible
<1>1. ASSUME NEW row \in Row, CreateClient(row)
      PROVE  IInv'
  <2>1. TypeOK'
    BY <1>0, <1>1 DEF CreateClient, TypeOK
  <2> QED BY <1>1, <1>a, <1>b, <2>1 DEF CreateClient, IInv
<1>2. ASSUME NEW row \in Row, CreateTemplate(row)
      PROVE  IInv'
  <2>1. TypeOK'
    BY <1>0, <1>2 DEF CreateTemplate, TypeOK, TemplateRow
  <2> QED BY <1>2, <1>a, <1>b, <2>1 DEF CreateTemplate, IInv
<1>3. ASSUME NEW o \in Op, NEW row \in Row, RemoveClient(o, row)
      PROVE  IInv'
  <2> DEFINE op == [does |-> "remove", client |-> row]
  <2>1. op \in Removal /\ op.does # "create"
    BY DEF Removal
  <2>2. ops' \in [Op -> {Idle} \cup Removal \cup Creation] /\ OpsStayInTenant'
    BY <1>3, <2>1, OpsChange DEF RemoveClient, Begin
  <2>3. TypeOK'
    BY <1>0, <1>3, <2>2 DEF RemoveClient, TypeOK
  <2> QED BY <1>3, <1>a, <2>2, <2>3 DEF RemoveClient, IInv
<1>4. ASSUME NEW o \in Op, Removed(o)
      PROVE  IInv'
  <2>1. ops' \in [Op -> {Idle} \cup Removal \cup Creation] /\ OpsStayInTenant'
    BY <1>4, EndChange DEF Removed
  <2>2. TypeOK'
    BY <1>0, <1>4, <2>1 DEF Removed, TypeOK
  <2>3. ClientsExist'
    BY <1>0, <1>4 DEF Removed, ClientsExist
  <2>4. DomainsAreDistinct' /\ SitesStayInTenant'
    BY <1>0, <1>4 DEF Removed, DomainsAreDistinct, SitesStayInTenant, Visible
  <2> QED BY <2>1, <2>2, <2>3, <2>4 DEF IInv, SitesAreSound
<1>5. ASSUME NEW o \in Op, NEW tenant \in Tenant, NEW client \in clients,
             NEW template \in DOMAIN templates, NEW domain \in Domain,
             NEW typed, Create(o, tenant, client, template, domain, typed)
      PROVE  IInv'
  <2> DEFINE op == [does |-> "create", of |-> tenant, client |-> client, template |-> template,
                    domain |-> domain]
  <2>1. op \in Creation
    BY <1>0 DEF Creation, TypeOK
  <2>2. Visible(op.of, op.client) /\ Visible(op.of, op.template)
    BY <1>5 DEF Create
  <2>3. ops' = [ops EXCEPT ![o] = op]
    BY <1>5 DEF Create, Begin
  <2>4. ops' \in [Op -> {Idle} \cup Removal \cup Creation] /\ OpsStayInTenant'
    <3> HIDE DEF op
    <3> QED BY <2>1, <2>2, <2>3, OpsChange
  <2>5. TypeOK'
    BY <1>0, <1>5, <2>4 DEF Create, TypeOK
  <2> QED BY <1>5, <1>a, <2>4, <2>5 DEF Create, IInv
<1>6. ASSUME NEW o \in Op, Inserted(o)
      PROVE  IInv'
  <2> DEFINE op == ops[o]
             new == Site(op)
  <2>1. ops' \in [Op -> {Idle} \cup Removal \cup Creation] /\ OpsStayInTenant'
    BY <1>6, EndChange DEF Inserted
  <2>2. CASE UNCHANGED sites
    <3>1. TypeOK'
      BY <1>0, <1>6, <2>1, <2>2 DEF Inserted, TypeOK
    <3> QED BY <1>6, <1>a, <2>1, <2>2, <3>1 DEF Inserted, IInv
  <2>3. CASE /\ op.client \in clients /\ ~\E s \in sites : s.domain = op.domain
             /\ sites' = sites \cup {new}
    <3>1. op \in Creation
      BY <1>0, <1>6 DEF Inserted, TypeOK, Idle, Removal, Creation
    <3>2. /\ new \in SiteRow
          /\ new.of = op.of /\ new.client = op.client /\ new.template = op.template
          /\ new.domain = op.domain
      BY <3>1 DEF Site, SiteRow, Creation
    <3>3. Visible(new.of, new.client) /\ Visible(new.of, new.template)
      BY <1>0, <1>6, <3>2 DEF Inserted, OpsStayInTenant
    <3> HIDE DEF new
    <3>4. TypeOK'
      BY <1>0, <1>6, <2>1, <2>3, <3>2 DEF Inserted, TypeOK
    <3>5. ClientsExist'
      BY <1>0, <1>6, <2>3, <3>2 DEF Inserted, ClientsExist
    <3>6. DomainsAreDistinct'
      BY <1>0, <2>3, <3>2 DEF DomainsAreDistinct
    <3>7. SitesStayInTenant'
      BY <1>0, <2>3, <3>3 DEF SitesStayInTenant, Visible
    <3> QED BY <2>1, <3>4, <3>5, <3>6, <3>7 DEF IInv, SitesAreSound
  <2> QED BY <1>6, <2>2, <2>3 DEF Inserted
<1>7. ASSUME NEW tenant \in Tenant, NEW row \in DOMAIN templates, Deprecate(tenant, row)
      PROVE  IInv'
  <2>1. TypeOK'
    BY <1>0, <1>7 DEF Deprecate, TypeOK
  <2> QED BY <1>7, <1>a, <1>b, <2>1 DEF Deprecate, IInv
<1>8. ASSUME NEW tenant \in Tenant, NEW s \in sites, Archive(tenant, s)
      PROVE  IInv'
  <2> DEFINE u == [s EXCEPT !.status = "archived"]
  <2>1. s \in SiteRow
    BY <1>0 DEF TypeOK
  <2>2. /\ u \in SiteRow
        /\ u.of = s.of /\ u.client = s.client /\ u.domain = s.domain /\ u.template = s.template
    BY <2>1 DEF SiteRow
  <2>3. Visible(u.of, u.template)
    BY <1>0, <2>2 DEF SitesStayInTenant
  <2>4. sites' = (sites \ {s}) \cup {u} /\ UNCHANGED <<clients, templates, ops>>
    BY <1>8 DEF Archive
  <2> HIDE DEF u
  <2> QED BY <2>2, <2>3, <2>4, SiteChange
<1>9. ASSUME NEW tenant \in Tenant, NEW s \in sites, NEW t \in DOMAIN templates,
             SwapTemplate(tenant, s, t)
      PROVE  IInv'
  <2> DEFINE u == [s EXCEPT !.template = t]
  <2>1. s \in SiteRow /\ t \in TemplateRow
    BY <1>0 DEF TypeOK
  <2>2. /\ u \in SiteRow
        /\ u.of = s.of /\ u.client = s.client /\ u.domain = s.domain /\ u.template = t
    BY <2>1 DEF SiteRow
  <2>3. Visible(u.of, u.template)
    BY <1>9, <2>2 DEF SwapTemplate
  <2>4. sites' = (sites \ {s}) \cup {u} /\ UNCHANGED <<clients, templates, ops>>
    BY <1>9 DEF SwapTemplate
  <2> HIDE DEF u
  <2> QED BY <2>2, <2>3, <2>4, SiteChange
<1>10. ASSUME UNCHANGED vars
       PROVE  IInv'
  <2>1. TypeOK'
    BY <1>0, <1>10 DEF vars, TypeOK
  <2> QED BY <1>10, <1>a, <1>b, <2>1 DEF vars, IInv
<1> QED BY <1>1, <1>2, <1>3, <1>4, <1>5, <1>6, <1>7, <1>8, <1>9, <1>10 DEF Next

LEMMA InvHolds == Spec => []IInv
BY InitInv, StepInv, PTL DEF Spec

-----------------------------------------------------------------------------
(* However requests of one tenant or of several overlap: every site has its *)
(* client, no two have one domain, and each stays within its tenant.       *)
THEOREM SitesAreKept == Spec => []SitesAreSound
<1>1. IInv => SitesAreSound
  BY DEF IInv
<1> QED BY <1>1, InvHolds, PTL

=============================================================================
