--------------------------- MODULE VisitTracking -----------------------------
(***************************************************************************)
(* First-party analytics from the ad to the report: a campaign link        *)
(* (AnalyticsController, campaign-links.ts), the beacon of a site's pages  *)
(* in a visitor's browser (sf.js), POST /public/track (TrackController),   *)
(* the monthly partitions of visits, and the report (AnalyticsService).    *)
(* One browser; each of its tabs has a sessionStorage of its own, and all  *)
(* share the localStorage that holds the session.                          *)
(***************************************************************************)
EXTENDS Naturals, Sequences, FiniteSets

CONSTANTS
  Tab,
  Platform,      \* of google, meta, bing
  Campaign,      \* campaign names
  SessionTTL,    \* 30 minutes in the code
  EventLimit,    \* 60 events of a session
  EventWindow,   \* in 60 s
  TopLimit,      \* 20 campaigns in the report
  MaxTime,       \* bound: the clock
  MaxMonth,      \* bound: the calendar
  MaxEvents      \* bound: events sent in one behaviour

VARIABLES
  bar,       \* what in the site's row keeps events out: "archived", the "origin", or "none"
  page,      \* tab -> the UTMs in its address, Direct when it has none, or Closed
  stored,    \* tab -> sessionStorage sf_utm
  landed,    \* tab -> the UTMs it last arrived with (history)
  session,   \* localStorage sf_session: [id, at], NoSession when never set
  now,       \* the browser's clock
  sent,      \* the events sent: when and in which session (history)
  hits,      \* those the limiter holds in memory, by their number
  visits,    \* rows of visits
  month,     \* the database's month
  parts,     \* the months with a partition
  booted,    \* the month of the last boot that made its partitions (history)
  lost       \* months whose events found no partition (history)

vars == <<bar, page, stored, landed, session, now, sent, hits, visits, month,
          parts, booted, lost>>

Link == [platform : Platform, campaign : Campaign]

(* buildCampaignUtm, which buildFinalUrl writes into the address. *)
Source == [google |-> "google", meta |-> "facebook", bing |-> "bing"]
Utm(link) == [source |-> Source[link.platform], campaign |-> link.campaign]

Closed == [source |-> "closed", campaign |-> "closed"]
Direct == [source |-> "", campaign |-> ""]
NoSession == [id |-> 0, at |-> 0]

(* Of EVENTS, those the report counts; the others are recorded alike. *)
Event == {"pageview", "outbound_click"}

Init ==
  /\ bar = "none"
  /\ page = [t \in Tab |-> Closed]
  /\ stored = [t \in Tab |-> Direct] /\ landed = [t \in Tab |-> Direct]
  /\ session = NoSession /\ now = 0
  /\ sent = << >> /\ hits = {} /\ visits = << >>
  /\ month = 1 /\ parts = {1, 2} /\ booted = 1 /\ lost = {}

-----------------------------------------------------------------------------
(* The beacon *)

(* sessionId(): a sliding window, renewed by every event. *)
Session ==
  IF session = NoSession \/ now - session.at > SessionTTL
  THEN [id |-> Len(sent) + 1, at |-> now]
  ELSE [session EXCEPT !.at = now]

(* utms(): an address with a campaign replaces the stored one. *)
UtmsOfAddress(t, address) == address
Utms(t, address) == IF address # Direct THEN address ELSE stored[t]

(* SessionRateLimiter.allow: a window for each session; the map is cleared *)
(* when it holds too many sessions, of whichever visitor the last one is.  *)
Recent(i, time) == time - sent[i].at < EventWindow
HasRoom(id) == Cardinality({i \in hits : sent[i].id = id /\ Recent(i, now)}) < EventLimit

(* recordVisit: the database stamps the row, which falls into the          *)
(* partition of its month or fails.  due: the campaign to be credited      *)
(* (history).                                                              *)
Row(t, event, utm) ==
  [event |-> event, at |-> now, campaign |-> utm.campaign, due |-> landed'[t].campaign]

RecordVisit(t, event, utm) ==
  \/ /\ month \in parts
     /\ visits' = Append(visits, Row(t, event, utm))
     /\ UNCHANGED lost
  \/ /\ month \notin parts
     /\ lost' = lost \cup {[month |-> month, booted |-> booted]}
     /\ UNCHANGED visits

(* send, then TrackController.track: dropped by the limiter, dropped for an *)
(* archived site, refused for its Origin, or recorded.                     *)
Track(t, event, utm) ==
  /\ Len(sent) < MaxEvents
  /\ session' = Session
  /\ sent' = Append(sent, [id |-> session'.id, at |-> now])
  /\ \/ ~HasRoom(session'.id) /\ UNCHANGED <<hits, visits, lost>>
     \/ /\ HasRoom(session'.id)
        /\ hits' \in {hits \cup {Len(sent')}, {}}
        /\ IF bar # "none" THEN UNCHANGED <<visits, lost>>
           ELSE RecordVisit(t, event, utm)

(* Arriving opens or reuses a tab: by an ad, whose address works as long as *)
(* it is shown, its row in campaign_links or not, or by a bare address.    *)
Arrive(t, utm) ==
  /\ page' = [page EXCEPT ![t] = utm]
  /\ stored' = [stored EXCEPT ![t] = Utms(t, utm)]
  /\ landed' = [landed EXCEPT ![t] = IF utm = Direct THEN @ ELSE utm]
  /\ Track(t, "pageview", Utms(t, utm))
  /\ UNCHANGED <<bar, now, month, parts, booted>>

(* Following a link inside the site drops the campaign from the address. *)
Browse(t) ==
  /\ page[t] # Closed
  /\ page' = [page EXCEPT ![t] = Direct]
  /\ UNCHANGED <<stored, landed>>
  /\ Track(t, "pageview", Utms(t, Direct))
  /\ UNCHANGED <<bar, now, month, parts, booted>>

(* The beacon counts clicks to the destination store, not to the others an *)
(* offer may lead to.                                                      *)
Click(t, event) ==
  /\ page[t] # Closed
  /\ UNCHANGED <<page, stored, landed>>
  /\ Track(t, event, Utms(t, page[t]))
  /\ UNCHANGED <<bar, now, month, parts, booted>>

Close(t) ==
  /\ page[t] # Closed
  /\ page' = [page EXCEPT ![t] = Closed]
  /\ stored' = [stored EXCEPT ![t] = Direct] /\ landed' = [landed EXCEPT ![t] = Direct]
  /\ UNCHANGED <<bar, session, now, sent, hits, visits, month, parts, booted, lost>>

(* passthrough(): what an outbound link of the page carries to the store. *)
Carried(t) == page[t]

-----------------------------------------------------------------------------
(* The panel *)

beacon == <<page, stored, landed, session, sent, visits, lost>>

Archive ==
  /\ bar' = "archived"
  /\ UNCHANGED <<beacon, now, hits, month, parts, booted>>

(* An alias is struck off, or added again, while nginx still answers to it: *)
(* in production the Origin of its pages is then not the site's.           *)
EditAliases ==
  /\ bar # "archived" /\ bar' \in {"none", "origin"}
  /\ UNCHANGED <<beacon, now, hits, month, parts, booted>>

(* Another visitor's event fills the map of the limiter. *)
Crowd ==
  /\ hits # {} /\ hits' = {}
  /\ UNCHANGED <<beacon, bar, now, month, parts, booted>>

(* onModuleInit of a new process; a failure is logged and it runs on without. *)
BootThisMonth ==
  /\ parts' = parts \cup {month} /\ booted' = month
  /\ hits' = {}
  /\ UNCHANGED <<beacon, bar, now, month>>

Boot ==
  /\ parts' = parts \cup {month, month + 1} /\ booted' = month
  /\ hits' = {}
  /\ UNCHANGED <<beacon, bar, now, month>>

NextMonth ==
  /\ month < MaxMonth /\ month' = month + 1
  /\ UNCHANGED <<beacon, bar, now, hits, parts, booted>>

(* Hits no window reaches any more count for nothing, and are forgotten.   *)
Tick ==
  /\ now < MaxTime /\ now' = now + 1
  /\ hits' = {i \in hits : Recent(i, now')}
  /\ UNCHANGED <<beacon, bar, month, parts, booted>>

-----------------------------------------------------------------------------
(* The report on the time from..to - 1, by default the last thirty days up *)
(* to a minute ahead of the panel's clock: GROUP BY campaign, and of the   *)
(* groups the TopLimit with the most visits; SQL breaks ties as it likes.  *)

Within(i, from, to) == from <= visits[i].at /\ visits[i].at < to
Groups(from, to) == {visits[i].campaign : i \in {j \in DOMAIN visits : Within(j, from, to)}}
Count(event, c, from, to) ==
  Cardinality({i \in DOMAIN visits : /\ Within(i, from, to) /\ visits[i].event = event
                                     /\ visits[i].campaign = c})

TopCampaigns(from, to) ==
  {top \in SUBSET Groups(from, to) :
     /\ Cardinality(top) <= TopLimit
     /\ \A c \in Groups(from, to) \ top :
          /\ Cardinality(top) = TopLimit
          /\ \A d \in top : Count("pageview", d, from, to) >= Count("pageview", c, from, to)}

Next ==
  \/ \E t \in Tab :
       \/ \E utm \in {Utm(l) : l \in Link} \cup {Direct} : Arrive(t, utm)
       \/ Browse(t)
       \/ \E e \in Event \ {"pageview"} : Click(t, e)
       \/ Close(t)
  \/ Archive \/ EditAliases \/ Crowd \/ Boot \/ NextMonth \/ Tick

Spec == Init /\ [][Next]_vars

-----------------------------------------------------------------------------
(* Properties *)

(* The events recorded in the time of a report that are due to a campaign. *)
Due(event, c, from, to) ==
  Cardinality({i \in DOMAIN visits : /\ Within(i, from, to) /\ visits[i].event = event
                                     /\ visits[i].due = c})

(* What a report says of a campaign it lists is what was recorded in its   *)
(* time of tabs that last arrived by that campaign, visits and clicks,     *)
(* however many pages they have seen since and whatever the browser's      *)
(* other tabs arrived by.  And one that it leaves out has no more visits   *)
(* than each of TopLimit others.                                           *)
CampaignsAreCredited ==
  \A from \in 0..now, to \in 1..now + 1 : from < to =>
    \A top \in TopCampaigns(from, to) :
      /\ \A c \in top, event \in {"pageview", "outbound_click"} :
           Count(event, c, from, to) = Due(event, c, from, to)
      /\ \A i \in DOMAIN visits :
           Within(i, from, to) /\ visits[i].due \notin top
             => /\ Cardinality(top) = TopLimit
                /\ \A c \in top : Due("pageview", c, from, to)
                                   >= Due("pageview", visits[i].due, from, to)

(* One visit of a person is one session: two events in a row share a       *)
(* session exactly when they are no further apart than the window.         *)
SessionsAreVisits ==
  \A i \in 1..Len(sent) - 1 :
    (sent[i].id = sent[i + 1].id) <=> (sent[i + 1].at - sent[i].at <= SessionTTL)

(* Who came, how often, and by which campaign.                            *)
VisitsAreTold == CampaignsAreCredited /\ SessionsAreVisits

(* No event is thrown away for want of a partition in the month of a boot  *)
(* or the month after it: a panel that restarts once a month, as its       *)
(* updates make it, loses none.                                            *)
PartitionsAreAhead == \A l \in lost : l.month > l.booted + 1

(* sf.js: "appends incoming UTMs + click ids to outbound store links so the*)
(* destination's own analytics sees the original ad source."               *)
OutboundCarriesSource == \A t \in Tab : page[t] # Closed => Carried(t) = landed[t]
=============================================================================
