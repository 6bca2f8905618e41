---------------------------- MODULE SslLifecycle ----------------------------
(***************************************************************************)
(* The TLS certificate of one site: the certificate on the server, which   *)
(* certbot issues and renews, and the two columns by which the panel knows *)
(* of it.  The columns are written by the issuing_ssl step of an install   *)
(* (InstallerService.stepIssueSsl), by a forced renewal (renewSsl), by the *)
(* request a certbot hook on the server posts after a renewal (sslRenewed) *)
(* and by the daily sweep (SslMonitorService); none of them asks what the  *)
(* others are doing.  Dates are days.  SKIP_SSL, a development setting, is *)
(* left out.                                                               *)
(***************************************************************************)
EXTENDS Integers

CONSTANTS
  Act,                       \* slots for the installs and renewals alive at one time
  Life,                      \* days a new certificate is good for
  Notice, Warning, Critical, \* days before the expiry from which each alert is given
  MaxDay                     \* bound: days in one behaviour

ASSUME LifeAssumption  == Life \in Nat /\ MaxDay \in Nat
ASSUME AlertAssumption == /\ Critical \in Nat /\ Warning \in Nat /\ Notice \in Nat
                          /\ Critical < Warning /\ Warning < Notice

NoDate == -1
Date   == Nat \cup {NoDate}

VARIABLES
  sslStatus,  \* sites.ssl_status
  expires,    \* sites.ssl_expires_at
  published,  \* sites.status is 'published', and not draft, building or archived
  cert,       \* last day of the certificate on the server, NoDate without one
  posts,      \* dates posted by the renewal hook, not handled yet
  act,        \* the installs and renewals
  day

columns == <<sslStatus, expires, published>>
vars    == <<columns, cert, posts, act, day>>

-----------------------------------------------------------------------------
SslStatus == {"none", "issuing", "active", "expired", "renewal_failed"}
ActRecord == [kind : {"none", "install", "renewal"},
              pc : {"idle", "mark", "certbot", "refused", "read", "write", "rest"},
              date : Date]

IdleAct == [kind |-> "none", pc |-> "idle", date |-> NoDate]

At(a, pc)   == act[a].pc = pc
Is(a, kind) == act[a].kind = kind
Goto(a, pc) == act' = [act EXCEPT ![a].pc = pc]
End(a)      == act' = [act EXCEPT ![a] = IdleAct]

Init ==
  /\ sslStatus = "none" /\ expires = NoDate /\ published = FALSE
  /\ cert = NoDate /\ posts = {}
  /\ act = [a \in Act |-> IdleAct]
  /\ day = 0

-----------------------------------------------------------------------------
(* classifySsl and the sites it is asked about *)

DaysLeft(date) == date - day

Level(date) ==
  CASE DaysLeft(date) < 0         -> "expired"
    [] DaysLeft(date) \in 0..Critical -> "critical"
    [] DaysLeft(date) \in (Critical + 1)..Warning -> "warning"
    [] DaysLeft(date) \in (Warning + 1)..Notice -> "notice"
    [] OTHER -> "silent"

(* alertsFor and collectAll list the sites that are published (or 'paused', *)
(* which nothing in the code sets).                                        *)
Watched == published

(* Slip: only a certificate that counts as active is watched. *)
AlertIfActive ==
  IF ~Watched THEN "silent"
  ELSE IF sslStatus = "renewal_failed" THEN "renewal_failed"
  ELSE IF expires = NoDate \/ sslStatus # "active" THEN "silent" ELSE Level(expires)

Alert ==
  IF ~Watched THEN "silent"
  ELSE IF sslStatus = "renewal_failed" THEN "renewal_failed"
  ELSE IF expires = NoDate \/ sslStatus = "none" THEN "silent" ELSE Level(expires)

-----------------------------------------------------------------------------
(* Installs and renewals *)

(* An install, from a step up to issuing_ssl or from a later one.  Every    *)
(* step marks the site as building; one install at a time (Installer).     *)
Install(a, pc) ==
  /\ At(a, "idle")
  /\ \A b \in Act : ~Is(b, "install")
  /\ pc \in {"mark", "rest"}
  /\ act' = [act EXCEPT ![a] = [kind |-> "install", pc |-> pc, date |-> NoDate]]
  /\ published' = FALSE
  /\ UNCHANGED <<sslStatus, expires, cert, posts, day>>

(* POST /sites/:id/renew-ssl *)
RenewSsl(a) ==
  /\ At(a, "idle")
  /\ act' = [act EXCEPT ![a] = [kind |-> "renewal", pc |-> "certbot", date |-> NoDate]]
  /\ UNCHANGED <<columns, cert, posts, day>>

MarkIssuing(a) ==
  /\ At(a, "mark")
  /\ sslStatus' = "issuing" /\ published' = FALSE
  /\ Goto(a, "certbot")
  /\ UNCHANGED <<expires, cert, posts, day>>

(* A new certificate; the hook, once it is installed, posts its date, and   *)
(* nobody posts it again if that fails.                                    *)
NewCert == /\ cert' = day + Life
           /\ posts' \in {posts, posts \cup {cert'}}

(* certbot --nginx keeps a certificate that is good, certbot renew replaces *)
(* the one there is.  It may refuse; or the panel may stop waiting, with    *)
(* the certificate made or not, and the exception ends the activation.     *)
Certbot(a) ==
  /\ At(a, "certbot")
  /\ LET makes == NewCert /\ (Is(a, "renewal") => cert # NoDate)
         keeps == UNCHANGED <<cert, posts>> IN
     \/ makes /\ Goto(a, "read")
     \/ Is(a, "install") /\ cert >= day /\ keeps /\ Goto(a, "read")
     \/ keeps /\ Goto(a, "refused")
     \/ (makes \/ keeps) /\ End(a)
  /\ UNCHANGED <<columns, day>>

(* 'none' even if an older certificate is still there. *)
Refused(a) ==
  /\ At(a, "refused")
  /\ sslStatus' = IF Is(a, "install") THEN "none" ELSE "renewal_failed"
  /\ End(a)
  /\ UNCHANGED <<expires, published, cert, posts, day>>

(* Slip: the date is taken to be that of a new certificate. *)
ReadExpiryAssumed(a) ==
  /\ At(a, "read")
  /\ \/ act' = [act EXCEPT ![a].pc = "write", ![a].date = day + Life]
     \/ End(a)
  /\ UNCHANGED <<columns, cert, posts, day>>

(* openssl: the date, or output without one, whatever its exit code; or an  *)
(* exception.                                                              *)
ReadExpiry(a) ==
  /\ At(a, "read")
  /\ \/ \E date \in {cert, NoDate} :
          act' = [act EXCEPT ![a].pc = "write", ![a].date = date]
     \/ End(a)
  /\ UNCHANGED <<columns, cert, posts, day>>

WriteActive(a) ==
  /\ At(a, "write")
  /\ sslStatus' = "active" /\ expires' = act[a].date
  /\ IF Is(a, "install") THEN Goto(a, "rest") ELSE End(a)
  /\ UNCHANGED <<published, cert, posts, day>>

(* The remaining steps of the install: the site goes live, or one fails.    *)
Finish(a) ==
  /\ At(a, "rest")
  /\ published' \in {published, TRUE}
  /\ End(a)
  /\ UNCHANGED <<sslStatus, expires, cert, posts, day>>

-----------------------------------------------------------------------------
(* The server, the hook and the sweep *)

(* certbot's own timer. *)
AutoRenew ==
  /\ cert # NoDate
  /\ NewCert
  /\ UNCHANGED <<columns, act, day>>

(* sslRenewed: a date that cannot be read leaves the column alone. *)
SslRenewed(date) ==
  /\ date \in posts
  /\ posts' = posts \ {date}
  /\ sslStatus' = "active"
  /\ expires' \in {expires, date}
  /\ UNCHANGED <<published, cert, act, day>>

(* updateMany where ssl_status = 'active' and ssl_expires_at < now *)
Sweep ==
  /\ sslStatus = "active" /\ expires # NoDate /\ expires < day
  /\ sslStatus' = "expired"
  /\ UNCHANGED <<expires, published, cert, posts, act, day>>

(* SitesService.archive *)
Archive ==
  /\ published' = FALSE
  /\ UNCHANGED <<sslStatus, expires, cert, posts, act, day>>

Tick ==
  /\ day < MaxDay
  /\ day' = day + 1
  /\ UNCHANGED <<columns, cert, posts, act>>

-----------------------------------------------------------------------------
ActStep(a) ==
  \/ MarkIssuing(a) \/ Certbot(a) \/ Refused(a) \/ ReadExpiry(a) \/ WriteActive(a)
  \/ Finish(a)

Next ==
  \/ \E a \in Act : ActStep(a) \/ RenewSsl(a) \/ \E pc \in {"mark", "rest"} : Install(a, pc)
  \/ \E date \in posts : SslRenewed(date)
  \/ AutoRenew \/ Sweep \/ Archive \/ Tick

Spec == Init /\ [][Next]_vars

-----------------------------------------------------------------------------
(* Properties *)

TypeOK ==
  /\ sslStatus \in SslStatus /\ expires \in Date /\ published \in BOOLEAN
  /\ cert \in Date /\ posts \subseteq Nat
  /\ act \in [Act -> ActRecord]
  /\ day \in Nat

(* The panel never believes in a certificate longer than it lasts, however  *)
(* renewals, posts and writes of a date read earlier overtake each other.  *)
NeverOverstated == expires <= cert

Severity(level) ==
  CASE level = "silent" -> 0 [] level = "notice" -> 1 [] level = "warning" -> 2
    [] level = "critical" -> 3 [] level = "expired" -> 4 [] level = "renewal_failed" -> 4

(* Of a published site whose expiry date the panel has, and which it does  *)
(* not take to be without a certificate, the alert is never milder than the *)
(* certificate on the server deserves.  Of any other site, also one that a *)
(* failed reinstall left 'building' with its certificate still served,     *)
(* there is no alert at all.                                               *)
NeverTooMild ==
  Watched /\ expires # NoDate /\ sslStatus # "none"
    => Severity(Alert) >= Severity(Level(cert))

=============================================================================
