----------------------------- MODULE RecordState -----------------------------
(***************************************************************************)
(* The rows of clients, templates and sites, who sees them, and what must  *)
(* be true of them.  SiteRecords is how they change.                       *)
(***************************************************************************)

VARIABLES
  clients,    \* rows [of, n]
  templates,  \* rows [of, n] -> "active" or "deprecated"; Stock is everybody's
  sites       \* rows

Stock == "stock"

(* Row level security: a transaction sees its tenant's rows and the stock. *)
Visible(tenant, row) == row.of \in {tenant, Stock}

-----------------------------------------------------------------------------
(* Properties *)

(* Every site has its client, although a client may be removed while a     *)
(* site is being created for it.                                           *)
ClientsExist == \A s \in sites : s.client \in clients

(* No two sites have one domain: not of two tenants, who do not see each   *)
(* other's, nor of two requests at once, nor typed in capitals.            *)
DomainsAreDistinct == \A s, u \in sites : s.domain = u.domain => s = u

(* Nothing of another tenant is ever reached through a site.               *)
SitesStayInTenant ==
  \A s \in sites : Visible(s.of, s.client) /\ Visible(s.of, s.template)

(* What the requests' checks and the schema's keys give together, and      *)
(* neither gives alone.                                                    *)
SitesAreSound == ClientsExist /\ DomainsAreDistinct /\ SitesStayInTenant
=============================================================================
