------------------------------ MODULE MCPublic -------------------------------
(***************************************************************************)
(* The public endpoints, on small instances: product search, leads, and    *)
(* the beacon.  They share no state, so a behaviour is one endpoint's and  *)
(* the state spaces add up instead of multiplying.                         *)
(***************************************************************************)
EXTENDS ProductSearch

VARIABLES
  endpoint,
  buckets, clock, passed, clears, archived, hook, leads, changes,
  bar, page, stored, landed, session, sent, hits, visits, calendar, parts,
  booted, missed

leadVars  == <<buckets, clock, passed, clears, archived, hook, leads, changes>>
visitVars == <<bar, page, stored, landed, session, sent, hits, visits,
               calendar, parts, booted, missed>>

CONSTANTS
  Visitor, LeadKey, LeadLimit, Window, MaxKeys, MaxTime, MaxClears, Url, MaxLeads, MaxTests,
  Tab, Platform, Campaign, SessionTTL, EventLimit, EventWindow, TopLimit, MaxMonth, MaxEvents, Endpoint

ASSUME SessionAssumption == SessionTTL \in Nat
ASSUME LimiterAssumption == LeadLimit \in Nat /\ Window \in Nat \ {0}

OwnKey    == [v \in Visitor |-> v]
(* nginx hands every request on from the loopback address, and the panel   *)
(* does not trust the proxy's X-Forwarded-For: req.ip is always the same.  *)
BehindProxy == [v \in Visitor |-> "127.0.0.1"]

Leads == INSTANCE LeadDelivery WITH KeyOf <- LeadKey, Limit <- LeadLimit, now <- clock

Visits == INSTANCE VisitTracking WITH now <- clock,
            month <- calendar, lost <- missed

MCInit ==
  /\ endpoint \in Endpoint
  /\ Init /\ Leads!Init /\ Visits!Init

MCNext ==
  /\ UNCHANGED endpoint
  /\ \/ /\ endpoint = "search"
        /\ Next
        /\ UNCHANGED <<leadVars, visitVars>>
     \/ /\ endpoint = "lead"
        /\ Leads!Next
        /\ UNCHANGED <<vars, visitVars>>
     \/ /\ endpoint = "track"
        /\ Visits!Next
        /\ UNCHANGED <<vars, buckets, passed, clears, archived, hook, leads, changes>>

MCSpec ==
  MCInit /\ [][MCNext]_<<endpoint, vars, leadVars, visitVars>> /\ Leads!Fairness

LimitIsExact          == Leads!LimitIsExact
RefusedHasSpent       == Leads!RefusedHasSpent
DeliveriesSettle      == Leads!DeliveriesSettle
VisitsAreTold         == Visits!VisitsAreTold
PartitionsAreAhead    == Visits!PartitionsAreAhead
OutboundCarriesSource == Visits!OutboundCarriesSource
=============================================================================
