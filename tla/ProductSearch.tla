--------------------------- MODULE ProductSearch ----------------------------
(***************************************************************************)
(* DiscoveryService: product searches through SerpApi, paid by the search, *)
(* in front of a table of earlier results.  Visitors of deployed sites     *)
(* search through publicSearch, which looks at the month's usage before it *)
(* calls search; operators call search.  Every request is an asynchronous  *)
(* activation, and each action is the code between two of its awaits.      *)
(*                                                                         *)
(* A search without a configured key, or with a query too short, ends at   *)
(* once and changes nothing, so it is no action.                           *)
(***************************************************************************)
EXTENDS Integers, FiniteSets

CONSTANTS
  Query,     \* the (query, market) pairs asked for
  Request,   \* slots for the requests alive at one time
  Cap,       \* SERPAPI_MONTHLY_CAP
  TTL,       \* CACHE_TTL_DAYS
  MaxDay,    \* bound: days in one behaviour
  MaxLost    \* bound: paid searches a month that leave no row

ASSUME RequestAssumption == IsFiniteSet(Request) /\ Query # {}
ASSUME CapAssumption     == Cap \in Nat
ASSUME TimeAssumption    == TTL \in Nat /\ MaxDay \in Nat /\ MaxLost \in Nat

VARIABLES
  rows,   \* search_cache
  req,    \* the requests
  day,    \* the date ...
  month,  \* ... and its month; months differ in length
  spent,  \* searches visitors have cost in this month
  lost    \* those of them that left no row, and the rows' count misses

vars == <<rows, req, day, month, spent, lost>>

-----------------------------------------------------------------------------
By    == {"visitor", "operator"}
PC    == {"idle", "lookup", "check", "search", "fetch", "store"}
Row   == [id : Nat, query : Query, day : Nat, month : Nat, by : By]
ReqRecord == [pc : PC, by : By, query : Query]

(* A slot nobody uses. *)
IdleReq == [pc |-> "idle", by |-> "visitor", query |-> CHOOSE q \in Query : TRUE]

Goto(r, pc) == req' = [req EXCEPT ![r].pc = pc]
Answer(r)   == req' = [req EXCEPT ![r] = IdleReq]
At(r, pc)   == req[r].pc = pc
Visitors(pcs) == {r \in Request : req[r].by = "visitor" /\ req[r].pc \in pcs}

(* fetchedAt >= freshSince *)
Fresh(x) == x.day + TTL >= day

FreshRows(q) == {x \in rows : x.query = q /\ Fresh(x)}
Cached(q)    == FreshRows(q) # {}

(* Slip: the count starts at midnight instead of at the first of the month. *)
UsageToday == Cardinality({x \in rows : x.day = day})

(* The rows fetched since the first of the month. *)
MonthlyUsage == Cardinality({x \in rows : x.month = month})

-----------------------------------------------------------------------------
Init ==
  /\ rows = {}
  /\ req = [r \in Request |-> IdleReq]
  /\ day = 0 /\ month = 0 /\ spent = 0 /\ lost = 0

(* GET /public/search, and the operator's product finder. *)
Ask(r, by, q) ==
  /\ At(r, "idle")
  /\ req' = [req EXCEPT ![r] = [pc |-> IF by = "visitor" THEN "lookup" ELSE "search",
                                by |-> by, query |-> q]]
  /\ UNCHANGED <<rows, day, month, spent, lost>>

(* publicSearch looks for a fresh row ... *)
Lookup(r) ==
  /\ At(r, "lookup")
  /\ IF Cached(req[r].query) THEN Answer(r) ELSE Goto(r, "check")
  /\ UNCHANGED <<rows, day, month, spent, lost>>

(* ... and for room under the cap, or answers capped. *)
CheckCap(r) ==
  /\ At(r, "check")
  /\ IF MonthlyUsage >= Cap THEN Answer(r) ELSE Goto(r, "search")
  /\ UNCHANGED <<rows, day, month, spent, lost>>

(* Slip: search() leaves the cache to its callers. *)
SearchUncached(r) ==
  /\ At(r, "search")
  /\ Goto(r, "fetch")
  /\ UNCHANGED <<rows, day, month, spent, lost>>

(* search looks for a fresh row, again if it was publicSearch that called.  *)
Search(r) ==
  /\ At(r, "search")
  /\ IF Cached(req[r].query) THEN Answer(r) ELSE Goto(r, "fetch")
  /\ UNCHANGED <<rows, day, month, spent, lost>>

Spend(r, n) == spent' = IF req[r].by = "visitor" THEN spent + n ELSE spent

(* The call to SerpApi: answered; or failed, or given up after 20 seconds,  *)
(* for a credit or for free.                                               *)
Fetch(r) ==
  /\ At(r, "fetch")
  /\ \/ Goto(r, "store") /\ Spend(r, 1) /\ lost' = lost
     \/ Answer(r) /\ UNCHANGED <<spent, lost>>
     \/ /\ Answer(r) /\ Spend(r, 1)
        /\ lost < MaxLost
        /\ lost' = IF req[r].by = "visitor" THEN lost + 1 ELSE lost
  /\ UNCHANGED <<rows, day, month>>

NewRow(r) ==
  [id |-> Cardinality(rows), query |-> req[r].query, day |-> day, month |-> month,
   by |-> req[r].by]

(* searchCache.create; fetched_at is the database's now(). *)
Store(r) ==
  /\ At(r, "store")
  /\ rows' = rows \cup {NewRow(r)}
  /\ Answer(r)
  /\ UNCHANGED <<day, month, spent, lost>>

(* The panel dies: answers not stored yet are gone. *)
Crash ==
  LET unstored == Cardinality(Visitors({"store"})) IN
  /\ lost + unstored <= MaxLost
  /\ lost' = lost + unstored
  /\ req' = [r \in Request |-> IdleReq]
  /\ UNCHANGED <<rows, day, month, spent>>

Tick ==
  /\ day < MaxDay
  /\ day' = day + 1
  /\ \/ month' = month /\ UNCHANGED <<spent, lost>>
     \/ month' = month + 1 /\ spent' = 0 /\ lost' = 0
  /\ UNCHANGED <<rows, req>>

Next ==
  \/ \E r \in Request :
       \/ \E by \in By, q \in Query : Ask(r, by, q)
       \/ Lookup(r) \/ CheckCap(r) \/ Search(r) \/ Fetch(r) \/ Store(r)
  \/ Crash \/ Tick

Spec == Init /\ [][Next]_vars

-----------------------------------------------------------------------------
(* Properties *)

TypeOK ==
  /\ rows \subseteq Row /\ IsFiniteSet(rows)
  /\ req \in [Request -> ReqRecord]
  /\ day \in Nat /\ month \in Nat /\ spent \in Nat /\ lost \in Nat

(* What the configuration calls a hard cap: in one month visitors cost at   *)
(* most SERPAPI_MONTHLY_CAP searches.                                      *)
HardCap == spent <= Cap

Overshoot == IF Cap = 0 THEN 0 ELSE Cap - 1 + Cardinality(Request)

(* What the check before a search does give: beyond the cap visitors cost   *)
(* no more than the searches already past the check when the month's last   *)
(* one was counted, and those that never got a row to be counted by.        *)
SpendingBounded == spent <= Overshoot + lost

(* "Repeated queries cost zero API credits": a query has several fresh rows *)
(* only if that many requests for it were under way together.               *)
RepeatsAreFree ==
  \A q \in Query :
    Cardinality(FreshRows(q))
      + Cardinality({r \in Request : req[r].pc \in {"fetch", "store"} /\ req[r].query = q})
      <= Cardinality(Request)

=============================================================================
