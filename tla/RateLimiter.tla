----------------------------- MODULE RateLimiter -----------------------------
(***************************************************************************)
(* The sliding-window limiter every public endpoint holds in memory:       *)
(* IpRateLimiter of the leads, SessionRateLimiter of the beacon, and the   *)
(* copies in the search and content controllers.  A key maps to the times  *)
(* of its requests; old times are dropped when the key is next seen, and   *)
(* the whole map is cleared when it holds too many keys.  The array of     *)
(* times is the set of them, numbered: two of one moment stay two.         *)
(***************************************************************************)
EXTENDS Naturals, FiniteSets

CONSTANTS
  Visitor,
  KeyOf,     \* what the endpoint takes for a visitor: req.ip, or the session
  Limit,     \* 5 leads, 60 events per window in the code
  Window,    \* 60 s
  MaxKeys,   \* 10 000
  MaxTime,   \* bound: the clock
  MaxClears  \* bound: times the map is cleared

VARIABLES
  buckets,   \* key -> the times of its requests, empty when it is not in the map
  now,       \* Date.now()
  passed,    \* visitor -> its requests let through in the window (history)
  clears     \* how often the map was cleared (history)

limiterVars == <<buckets, now, passed, clears>>

Key    == {KeyOf[v] : v \in Visitor}
Time   == 0..MaxTime
NoHits == [k \in Key |-> {}]

LimiterInit ==
  /\ buckets = NoHits
  /\ now = 0
  /\ passed = [v \in Visitor |-> {}]
  /\ clears = 0

Recent(k) == {hit \in buckets[k] : now - hit.at < Window}
Size(map) == Cardinality({k \in Key : map[k] # {}})

HasRoomForOneMore(k) == Cardinality(Recent(k)) <= Limit
HasRoom(k) == Cardinality(Recent(k)) < Limit

Let(v) ==
  LET k    == KeyOf[v]
      n    == Cardinality(Recent(k))
      map  == [buckets EXCEPT ![k] = Recent(k) \cup {[at |-> now, n |-> n]}]
      full == Size(map) > MaxKeys
  IN  /\ HasRoom(k)
      /\ full => clears < MaxClears
      /\ buckets' = IF full THEN NoHits ELSE map
      /\ clears' = IF full THEN clears + 1 ELSE clears
      /\ passed' = [passed EXCEPT ![v] = @ \cup {[at |-> now, n |-> n, epoch |-> clears]}]
      /\ UNCHANGED now

Refuse(v) ==
  LET k == KeyOf[v]
  IN  /\ ~HasRoom(k)
      /\ buckets' = [buckets EXCEPT ![k] = Recent(k)]
      /\ UNCHANGED <<now, passed, clears>>

(* Requests are forgotten by the history once no window reaches them. *)
Tick ==
  /\ now < MaxTime
  /\ now' = now + 1
  /\ passed' = [v \in Visitor |-> {p \in passed[v] : now' - p.at < Window}]
  /\ UNCHANGED <<buckets, clears>>

-----------------------------------------------------------------------------
(* Properties *)

Passed == UNION {{v} \X passed[v] : v \in Visitor}
Counted(k) == {p \in Passed : KeyOf[p[1]] = k /\ p[2].epoch = clears}

(* However the window slides, an endpoint lets at most Limit requests of   *)
(* one key through in it, except that clearing the map forgets them: then  *)
(* the count starts again, and only then.                                  *)
WindowBounded == \A k \in Key : Cardinality(Counted(k)) <= Limit

(* "5 leads/min per IP", "60 events/min per session": a visitor is refused *)
(* only when it has itself had its share of the window.                    *)
RefusedHasSpent ==
  \A v \in Visitor : ~HasRoom(KeyOf[v]) => Cardinality(passed[v]) >= Limit

(* The limiter stops what it should and nothing else.                      *)
LimitIsExact == WindowBounded /\ RefusedHasSpent
=============================================================================
