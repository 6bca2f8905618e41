---------------------------- MODULE PublicProofs -----------------------------
(***************************************************************************)
(* What is proved of the endpoints that anybody may call, for any number   *)
(* of visitors, requests and months and any cap, limit and window.         *)
(*                                                                         *)
(* ProductSearch: spending is bounded.  What visitors have spent in the    *)
(* month has been counted as rows, waits to be stored, or was lost; so a   *)
(* visitor who passes the check finds at most Cap - 1 spent beyond what is *)
(* waiting or lost, and with him at most all requests are past the check   *)
(* or waiting.  And a query that was stored is free while it is fresh.     *)
(*                                                                         *)
(* VisitTracking, as Visits: partitions are ahead, visits are credited.    *)
(*                                                                         *)
(* RateLimiter in LeadDelivery, as Leads: the window is bounded whatever   *)
(* the keys are, and exact for visitors with keys of their own.            *)
(***************************************************************************)
EXTENDS MCPublic, Sequences, FiniteSetTheorems, TLAPS

Admitted == Visitors({"search", "fetch"})
Unstored == Visitors({"store"})
Counted  == {x \in rows : x.month = month /\ x.by = "visitor"}

RowIds   == \A x \in rows : x.id < Cardinality(rows)
SpentInv == spent <= Cardinality(Counted) + Cardinality(Unstored) + lost
PastInv  == spent + Cardinality(Admitted) <= Overshoot + lost
ZeroInv  == Cap = 0 => Admitted = {}

IInv == TypeOK /\ RowIds /\ SpentInv /\ PastInv /\ ZeroInv

-----------------------------------------------------------------------------
(* Visitors at given places are finitely many, and those about to spend and *)
(* those about to store are different requests.                            *)
LEMMA VisitorsFinite ==
  ASSUME NEW pcs
  PROVE  /\ IsFiniteSet(Visitors(pcs))
         /\ Cardinality(Visitors(pcs)) \in Nat
<1>1. Visitors(pcs) \in SUBSET Request  BY DEF Visitors
<1>2. IsFiniteSet(Visitors(pcs))        BY <1>1, FS_Subset, RequestAssumption
<1> QED  BY <1>2, FS_CardinalityType

LEMMA VisitorsDisjoint ==
  Cardinality(Admitted) + Cardinality(Unstored) <= Cardinality(Request)
<1>1. Admitted \cap Unstored = {}  BY DEF Admitted, Unstored, Visitors
<1>2. Admitted \cup Unstored \in SUBSET Request  BY DEF Admitted, Unstored, Visitors
<1>3. /\ IsFiniteSet(Admitted) /\ IsFiniteSet(Unstored)
      /\ Cardinality(Admitted) \in Nat /\ Cardinality(Unstored) \in Nat
  BY VisitorsFinite DEF Admitted, Unstored
<1>4. Cardinality(Admitted \cup Unstored)
        = Cardinality(Admitted) + Cardinality(Unstored) - Cardinality(Admitted \cap Unstored)
  BY <1>3, FS_Union
<1>5. Cardinality(Admitted \cup Unstored) <= Cardinality(Request)
  BY <1>2, FS_Subset, RequestAssumption
<1> QED  BY <1>1, <1>3, <1>4, <1>5, FS_EmptySet

(* What a visitor's search has cost and was counted is also in the usage.   *)
LEMMA CountedInUsage ==
  ASSUME TypeOK
  PROVE  /\ IsFiniteSet(Counted)
         /\ Cardinality(Counted) \in Nat
         /\ MonthlyUsage \in Nat
         /\ Cardinality(Counted) <= MonthlyUsage
<1> DEFINE U == {x \in rows : x.month = month}
<1>1. IsFiniteSet(U)
  <2>1. U \in SUBSET rows  OBVIOUS
  <2> QED  BY <2>1, FS_Subset DEF TypeOK
<1>2. Counted \in SUBSET U  BY DEF Counted
<1>3. IsFiniteSet(Counted) /\ Cardinality(Counted) <= Cardinality(U)
  BY <1>1, <1>2, FS_Subset
<1>4. Cardinality(Counted) \in Nat /\ Cardinality(U) \in Nat
  BY <1>1, <1>3, FS_CardinalityType
<1> QED  BY <1>3, <1>4 DEF MonthlyUsage

(* A request is one record; the slot moves to another place or is free.     *)
LEMMA ReqType ==
  ASSUME TypeOK, NEW r \in Request
  PROVE  /\ req[r] = [pc |-> req[r].pc, by |-> req[r].by, query |-> req[r].query]
         /\ req[r].pc \in PC /\ req[r].by \in By /\ req[r].query \in Query
BY DEF TypeOK, ReqRecord

LEMMA IdleType == IdleReq \in ReqRecord
<1>1. (CHOOSE q \in Query : TRUE) \in Query  BY RequestAssumption
<1> QED  BY <1>1 DEF IdleReq, ReqRecord, PC, By

LEMMA GotoSets ==
  ASSUME TypeOK, NEW r \in Request, NEW pc \in PC, Goto(r, pc)
  PROVE  \E v \in ReqRecord : /\ v.pc = pc /\ v.by = req[r].by /\ v.query = req[r].query
                              /\ req' = [req EXCEPT ![r] = v]
<1> DEFINE v == [pc |-> pc, by |-> req[r].by, query |-> req[r].query]
<1>1. v \in ReqRecord  BY ReqType DEF ReqRecord
<1>2. req[r] = [pc |-> req[r].pc, by |-> req[r].by, query |-> req[r].query]  BY ReqType
<1>3. [req[r] EXCEPT !.pc = pc] = v  BY <1>2
<1>4. req' = [req EXCEPT ![r] = v]  BY <1>3 DEF Goto
<1> QED  BY <1>1, <1>4

(* How the visitors at given places change when one slot does.              *)
LEMMA VisitorsMove ==
  ASSUME TypeOK, NEW r \in Request, NEW v \in ReqRecord,
         req' = [req EXCEPT ![r] = v], NEW pcs
  PROVE  /\ v.by = "visitor" /\ v.pc \in pcs => Visitors(pcs)' = Visitors(pcs) \cup {r}
         /\ ~(v.by = "visitor" /\ v.pc \in pcs) => Visitors(pcs)' = Visitors(pcs) \ {r}
         /\ r \in Visitors(pcs) <=> req[r].by = "visitor" /\ req[r].pc \in pcs
         /\ req' \in [Request -> ReqRecord]
BY DEF Visitors, TypeOK

LEMMA CountMove ==
  ASSUME TypeOK, NEW r \in Request, NEW v \in ReqRecord,
         req' = [req EXCEPT ![r] = v], NEW pcs
  PROVE  Cardinality(Visitors(pcs)') =
           Cardinality(Visitors(pcs))
           + (IF v.by = "visitor" /\ v.pc \in pcs THEN 1 ELSE 0)
           - (IF req[r].by = "visitor" /\ req[r].pc \in pcs THEN 1 ELSE 0)
<1>1. IsFiniteSet(Visitors(pcs)) /\ Cardinality(Visitors(pcs)) \in Nat  BY VisitorsFinite
<1>2. /\ IsFiniteSet(Visitors(pcs) \cup {r})
      /\ Cardinality(Visitors(pcs) \cup {r}) =
           IF r \in Visitors(pcs) THEN Cardinality(Visitors(pcs)) ELSE Cardinality(Visitors(pcs)) + 1
  BY <1>1, FS_AddElement
<1>3. Cardinality(Visitors(pcs) \ {r}) =
        IF r \in Visitors(pcs) THEN Cardinality(Visitors(pcs)) - 1 ELSE Cardinality(Visitors(pcs))
  BY <1>1, FS_RemoveElement
<1>4. CASE v.by = "visitor" /\ v.pc \in pcs
  <2>1. Visitors(pcs)' = Visitors(pcs) \cup {r}  BY <1>4, VisitorsMove
  <2>2. r \in Visitors(pcs) <=> req[r].by = "visitor" /\ req[r].pc \in pcs  BY VisitorsMove
  <2> QED  BY <1>1, <1>2, <1>4, <2>1, <2>2
<1>5. CASE ~(v.by = "visitor" /\ v.pc \in pcs)
  <2>1. Visitors(pcs)' = Visitors(pcs) \ {r}  BY <1>5, VisitorsMove
  <2>2. r \in Visitors(pcs) <=> req[r].by = "visitor" /\ req[r].pc \in pcs  BY VisitorsMove
  <2> QED  BY <1>1, <1>3, <1>5, <2>1, <2>2
<1> QED  BY <1>4, <1>5

(* A request that is neither past the check nor waiting to store leaves one *)
(* slot fewer for those that are.                                          *)
LEMMA OthersElsewhere ==
  ASSUME NEW r \in Request, req[r].pc \notin {"search", "fetch", "store"}
  PROVE  Cardinality(Admitted) + Cardinality(Unstored) <= Cardinality(Request) - 1
<1>1. Admitted \cap Unstored = {}  BY DEF Admitted, Unstored, Visitors
<1>2. Admitted \cup Unstored \in SUBSET (Request \ {r})
  BY DEF Admitted, Unstored, Visitors
<1>3. /\ IsFiniteSet(Admitted) /\ IsFiniteSet(Unstored)
      /\ Cardinality(Admitted) \in Nat /\ Cardinality(Unstored) \in Nat
  BY VisitorsFinite DEF Admitted, Unstored
<1>4. Cardinality(Admitted \cup Unstored)
        = Cardinality(Admitted) + Cardinality(Unstored) - Cardinality(Admitted \cap Unstored)
  BY <1>3, FS_Union
<1>5. /\ IsFiniteSet(Request \ {r})
      /\ Cardinality(Request \ {r}) = Cardinality(Request) - 1
  BY FS_RemoveElement, RequestAssumption
<1>6. Cardinality(Admitted \cup Unstored) <= Cardinality(Request \ {r})
  BY <1>2, <1>5, FS_Subset
<1>7. Cardinality(Request) \in Nat  BY FS_CardinalityType, RequestAssumption
<1>8. Cardinality(Admitted \cap Unstored) = 0  BY <1>1, FS_EmptySet
<1> QED  BY <1>3, <1>4, <1>5, <1>6, <1>7, <1>8

(* The two counts after one slot has become v.                              *)
Admitters(r, v) ==
  Cardinality(Admitted)' = Cardinality(Admitted)
    + (IF v.by = "visitor" /\ v.pc \in {"search", "fetch"} THEN 1 ELSE 0)
    - (IF req[r].by = "visitor" /\ req[r].pc \in {"search", "fetch"} THEN 1 ELSE 0)
Storers(r, v) ==
  Cardinality(Unstored)' = Cardinality(Unstored)
    + (IF v.by = "visitor" /\ v.pc = "store" THEN 1 ELSE 0)
    - (IF req[r].by = "visitor" /\ req[r].pc = "store" THEN 1 ELSE 0)

LEMMA CountsMove ==
  ASSUME TypeOK, NEW r \in Request, NEW v \in ReqRecord, req' = [req EXCEPT ![r] = v]
  PROVE  /\ Admitters(r, v) /\ Storers(r, v)
         /\ (v.by # "visitor" \/ v.pc \notin {"search", "fetch"}) /\ Admitted = {} => Admitted' = {}
         /\ req' \in [Request -> ReqRecord]
<1>1. Cardinality(Visitors({"search", "fetch"})') = Cardinality(Visitors({"search", "fetch"}))
        + (IF v.by = "visitor" /\ v.pc \in {"search", "fetch"} THEN 1 ELSE 0)
        - (IF req[r].by = "visitor" /\ req[r].pc \in {"search", "fetch"} THEN 1 ELSE 0)
  BY CountMove
<1>2. Cardinality(Visitors({"store"})') = Cardinality(Visitors({"store"}))
        + (IF v.by = "visitor" /\ v.pc \in {"store"} THEN 1 ELSE 0)
        - (IF req[r].by = "visitor" /\ req[r].pc \in {"store"} THEN 1 ELSE 0)
  BY CountMove
<1>3. (v.by # "visitor" \/ v.pc \notin {"search", "fetch"}) /\ Admitted = {} => Admitted' = {}
  BY VisitorsMove DEF Admitted
<1>4. req' \in [Request -> ReqRecord]  BY VisitorsMove
<1> QED  BY <1>1, <1>2, <1>3, <1>4 DEF Admitted, Unstored, Admitters, Storers

LEMMA Sizes ==
  ASSUME TypeOK
  PROVE  /\ Cardinality(Admitted) \in Nat /\ Cardinality(Unstored) \in Nat
         /\ Cardinality(Request) \in Nat
         /\ Cardinality(Counted) \in Nat /\ Cardinality(rows) \in Nat
         /\ spent \in Nat /\ lost \in Nat /\ Cap \in Nat /\ Overshoot \in Int
BY VisitorsFinite, CountedInUsage, FS_CardinalityType, RequestAssumption, CapAssumption
   DEF Admitted, Unstored, TypeOK, Overshoot

-----------------------------------------------------------------------------
(* A step of a request that stores nothing, takes no one past the check and *)
(* charges nothing.                                                        *)
LEMMA FreeStep ==
  ASSUME IInv, NEW r \in Request, NEW v \in ReqRecord, req' = [req EXCEPT ![r] = v],
         UNCHANGED <<rows, day, month, spent, lost>>,
         req[r].pc # "store", v.pc # "store",
         v.by = "visitor" /\ v.pc \in {"search", "fetch"}
           => req[r].by = "visitor" /\ req[r].pc \in {"search", "fetch"}
  PROVE  IInv'
<1> USE DEF IInv
<1>0. Admitters(r, v) /\ Storers(r, v) /\ req' \in [Request -> ReqRecord]
  BY CountsMove
<1>1. /\ Cardinality(Admitted)' <= Cardinality(Admitted)
      /\ Cardinality(Admitted)' \in Int
      /\ Cardinality(Unstored)' = Cardinality(Unstored)
      /\ req' \in [Request -> ReqRecord]
  BY <1>0, Sizes DEF Admitters, Storers
<1>2. Counted' = Counted  BY DEF Counted
<1>3. TypeOK'    BY <1>1 DEF TypeOK
<1>4. RowIds'    BY DEF RowIds
<1>5. SpentInv'  BY <1>1, <1>2 DEF SpentInv
<1>6. PastInv'   BY <1>1, Sizes DEF PastInv, Overshoot
<1>7. ZeroInv'
  <2>1. SUFFICES ASSUME Cap = 0 PROVE Admitted' = {}  BY DEF ZeroInv
  <2>2. Admitted = {}  BY <2>1 DEF ZeroInv
  <2>3. v.by # "visitor" \/ v.pc \notin {"search", "fetch"}
    BY <2>2 DEF Admitted, Visitors
  <2> QED  BY <2>2, <2>3, CountsMove
<1> QED  BY <1>3, <1>4, <1>5, <1>6, <1>7

LEMMA AskStep ==
  ASSUME IInv, NEW r \in Request, NEW by \in By, NEW q \in Query, Ask(r, by, q)
  PROVE  IInv'
<1> DEFINE v == [pc |-> IF by = "visitor" THEN "lookup" ELSE "search", by |-> by, query |-> q]
<1>1. v \in ReqRecord  BY DEF ReqRecord, PC
<1>2. v.pc # "store" /\ ~(v.by = "visitor" /\ v.pc \in {"search", "fetch"})  BY DEF By
<1> QED  BY <1>1, <1>2, FreeStep DEF Ask, At

LEMMA LookupStep ==
  ASSUME IInv, NEW r \in Request, Lookup(r)
  PROVE  IInv'
<1>1. CASE Answer(r)
  BY <1>1, FreeStep, IdleType DEF Lookup, Answer, At, IdleReq
<1>2. CASE Goto(r, "check")
  <2>1. PICK v \in ReqRecord : v.pc = "check" /\ req' = [req EXCEPT ![r] = v]
    BY <1>2, GotoSets DEF IInv, PC
  <2> QED  BY <2>1, FreeStep DEF Lookup, At
<1> QED  BY <1>1, <1>2 DEF Lookup

(* The one step that lets a visitor past the check.                         *)
LEMMA CheckCapStep ==
  ASSUME IInv, NEW r \in Request, CheckCap(r)
  PROVE  IInv'
<1>1. CASE Answer(r)
  BY <1>1, FreeStep, IdleType DEF CheckCap, Answer, At, IdleReq
<1>2. CASE ~(MonthlyUsage >= Cap) /\ Goto(r, "search")
  <2> USE DEF IInv
  <2>1. PICK v \in ReqRecord : v.pc = "search" /\ v.by = req[r].by /\ req' = [req EXCEPT ![r] = v]
    BY <1>2, GotoSets DEF PC
  <2>2. req[r].pc = "check" /\ UNCHANGED <<rows, day, month, spent, lost>>
    BY DEF CheckCap, At
  <2>a. Admitters(r, v) /\ Storers(r, v) /\ req' \in [Request -> ReqRecord]
    BY <2>1, CountsMove
  <2>3. /\ Cardinality(Admitted)' <= Cardinality(Admitted) + 1
        /\ Cardinality(Admitted)' \in Int
        /\ Cardinality(Unstored)' = Cardinality(Unstored)
        /\ req' \in [Request -> ReqRecord]
    BY <2>1, <2>2, <2>a, Sizes DEF Admitters, Storers
  <2>4. Cardinality(Counted) <= MonthlyUsage /\ MonthlyUsage \in Nat /\ MonthlyUsage <= Cap - 1
    BY <1>2, CountedInUsage, CapAssumption
  <2>5. Cardinality(Admitted) + Cardinality(Unstored) <= Cardinality(Request) - 1
    BY <2>2, OthersElsewhere
  <2>6. Counted' = Counted  BY <2>2 DEF Counted
  <2>7. TypeOK'    BY <2>2, <2>3 DEF TypeOK
  <2>8. RowIds'    BY <2>2 DEF RowIds
  <2>9. SpentInv'  BY <2>2, <2>3, <2>6 DEF SpentInv
  <2>10. Cap # 0   BY <2>4
  <2>11. PastInv'
    BY <2>2, <2>3, <2>4, <2>5, <2>10, Sizes DEF PastInv, SpentInv, Overshoot
  <2>12. ZeroInv'  BY <2>10 DEF ZeroInv
  <2> QED  BY <2>7, <2>8, <2>9, <2>11, <2>12
<1> QED  BY <1>1, <1>2 DEF CheckCap

LEMMA SearchStep ==
  ASSUME IInv, NEW r \in Request, Search(r)
  PROVE  IInv'
<1>1. CASE Answer(r)
  BY <1>1, FreeStep, IdleType DEF Search, Answer, At, IdleReq
<1>2. CASE Goto(r, "fetch")
  <2>1. PICK v \in ReqRecord : v.pc = "fetch" /\ v.by = req[r].by /\ req' = [req EXCEPT ![r] = v]
    BY <1>2, GotoSets DEF IInv, PC
  <2> QED  BY <2>1, FreeStep DEF Search, At
<1> QED  BY <1>1, <1>2 DEF Search

(* A search is answered, fails for free, or fails for a credit.             *)
LEMMA FetchStep ==
  ASSUME IInv, NEW r \in Request, Fetch(r)
  PROVE  IInv'
<1> USE DEF IInv
<1> DEFINE visitor == req[r].by = "visitor"
<1>1. /\ req[r].pc = "fetch" /\ UNCHANGED <<rows, day, month>>
      /\ TypeOK /\ MaxLost \in Nat
  BY TimeAssumption DEF Fetch, At
<1>2. Counted' = Counted  BY <1>1 DEF Counted
<1>3. RowIds'  BY <1>1 DEF RowIds
<1>4. visitor => r \in Admitted  BY <1>1 DEF Admitted, Visitors
<1>5. CASE Goto(r, "store") /\ Spend(r, 1) /\ lost' = lost
  <2>1. PICK v \in ReqRecord : v.pc = "store" /\ v.by = req[r].by /\ req' = [req EXCEPT ![r] = v]
    BY <1>5, GotoSets DEF PC
  <2>2. /\ Admitters(r, v) /\ Storers(r, v) /\ req' \in [Request -> ReqRecord]
        /\ (Admitted = {} => Admitted' = {})
    BY <2>1, CountsMove
  <2>3. /\ Cardinality(Admitted)' = Cardinality(Admitted) - (IF visitor THEN 1 ELSE 0)
        /\ Cardinality(Unstored)' = Cardinality(Unstored) + (IF visitor THEN 1 ELSE 0)
        /\ spent' = spent + (IF visitor THEN 1 ELSE 0)
    BY <1>1, <1>5, <2>1, <2>2, Sizes DEF Admitters, Storers, Spend
  <2>4. TypeOK'    BY <1>1, <1>5, <2>2, <2>3, Sizes DEF TypeOK
  <2>5. SpentInv'  BY <1>2, <1>5, <2>3, Sizes DEF SpentInv
  <2>6. PastInv'   BY <1>5, <2>3, Sizes DEF PastInv, Overshoot
  <2>7. ZeroInv'   BY <2>2 DEF ZeroInv
  <2> QED  BY <1>3, <2>4, <2>5, <2>6, <2>7
<1>6. CASE Answer(r) /\ UNCHANGED <<spent, lost>>
  BY <1>1, <1>6, FreeStep, IdleType DEF Answer, IdleReq
<1>7. CASE /\ Answer(r) /\ Spend(r, 1)
           /\ lost' = IF visitor THEN lost + 1 ELSE lost
  <2>2. /\ Admitters(r, IdleReq) /\ Storers(r, IdleReq) /\ req' \in [Request -> ReqRecord]
        /\ (Admitted = {} => Admitted' = {})
    BY <1>7, CountsMove, IdleType DEF Answer, IdleReq
  <2>3. /\ Cardinality(Admitted)' = Cardinality(Admitted) - (IF visitor THEN 1 ELSE 0)
        /\ Cardinality(Unstored)' = Cardinality(Unstored)
        /\ spent' = spent + (IF visitor THEN 1 ELSE 0)
        /\ lost' = lost + (IF visitor THEN 1 ELSE 0)
    BY <1>1, <1>7, <2>2, Sizes DEF Admitters, Storers, Spend, IdleReq
  <2>4. TypeOK'    BY <1>1, <2>2, <2>3, Sizes DEF TypeOK
  <2>5. SpentInv'  BY <1>2, <2>3, Sizes DEF SpentInv
  <2>6. PastInv'   BY <2>3, Sizes DEF PastInv, Overshoot
  <2>7. ZeroInv'   BY <2>2 DEF ZeroInv
  <2> QED  BY <1>3, <2>4, <2>5, <2>6, <2>7
<1> QED  BY <1>5, <1>6, <1>7 DEF Fetch

(* The new row counts what was waiting to be counted.                       *)
LEMMA StoreStep ==
  ASSUME IInv, NEW r \in Request, Store(r)
  PROVE  IInv'
<1> USE DEF IInv
<1> DEFINE visitor == req[r].by = "visitor"
           x == NewRow(r)
<1>1. /\ req[r].pc = "store" /\ UNCHANGED <<day, month, spent, lost>>
      /\ rows' = rows \cup {x} /\ req' = [req EXCEPT ![r] = IdleReq]
  BY DEF Store, At, Answer
<1>2. x \in Row /\ x.id = Cardinality(rows) /\ x.month = month /\ x.by = req[r].by
  BY ReqType, Sizes DEF NewRow, Row, TypeOK
<1>3. x \notin rows
  BY <1>2, Sizes DEF RowIds
<1>4. IsFiniteSet(rows') /\ Cardinality(rows') = Cardinality(rows) + 1
  BY <1>1, <1>3, FS_AddElement DEF TypeOK
<1>5. IsFiniteSet(Counted) /\ Cardinality(Counted) \in Nat  BY CountedInUsage
<1>6. Cardinality(Counted)' = Cardinality(Counted) + (IF visitor THEN 1 ELSE 0)
  <2>1. CASE visitor
    <3>1. Counted' = Counted \cup {x}  BY <1>1, <1>2, <2>1 DEF Counted
    <3>2. x \notin Counted  BY <1>3 DEF Counted
    <3>3. Cardinality(Counted \cup {x}) = Cardinality(Counted) + 1
      BY <1>5, <3>2, FS_AddElement
    <3> QED  BY <2>1, <3>1, <3>3
  <2>2. CASE ~visitor
    <3>1. Counted' = Counted  BY <1>1, <1>2, <2>2 DEF Counted
    <3> QED  BY <1>5, <2>2, <3>1
  <2> QED  BY <2>1, <2>2
<1>7. /\ Admitters(r, IdleReq) /\ Storers(r, IdleReq) /\ req' \in [Request -> ReqRecord]
      /\ (Admitted = {} => Admitted' = {})
  BY <1>1, CountsMove, IdleType DEF IdleReq
<1>8. /\ Cardinality(Admitted)' = Cardinality(Admitted)
      /\ Cardinality(Unstored)' = Cardinality(Unstored) - (IF visitor THEN 1 ELSE 0)
  BY <1>1, <1>7, Sizes DEF Admitters, Storers, IdleReq
<1>9. TypeOK'     BY <1>1, <1>2, <1>4, <1>7 DEF TypeOK
<1>10. RowIds'
  <2>1. \A y \in rows : y.id < Cardinality(rows) + 1
    <3>1. SUFFICES ASSUME NEW y \in rows PROVE y.id < Cardinality(rows) + 1  OBVIOUS
    <3>2. y.id \in Nat  BY DEF TypeOK, Row
    <3> QED  BY <3>2, Sizes DEF RowIds
  <2> QED  BY <1>1, <1>2, <1>4, <2>1, Sizes DEF RowIds
<1>11. SpentInv'  BY <1>1, <1>6, <1>8, Sizes DEF SpentInv
<1>12. PastInv'   BY <1>1, <1>8, Sizes DEF PastInv, Overshoot
<1>13. ZeroInv'   BY <1>7 DEF ZeroInv
<1> QED  BY <1>9, <1>10, <1>11, <1>12, <1>13

LEMMA CrashStep ==
  ASSUME IInv, Crash
  PROVE  IInv'
<1> USE DEF IInv
<1>1. /\ req' = [r \in Request |-> IdleReq] /\ UNCHANGED <<rows, day, month, spent>>
      /\ lost' = lost + Cardinality(Unstored)
  BY DEF Crash, Unstored
<1>2. Admitted' = {} /\ Unstored' = {}
  BY <1>1 DEF Admitted, Unstored, Visitors, IdleReq
<1>3. Cardinality(Admitted)' = 0 /\ Cardinality(Unstored)' = 0  BY <1>2, FS_EmptySet
<1>4. Counted' = Counted  BY <1>1 DEF Counted
<1>5. TypeOK'    BY <1>1, IdleType, Sizes DEF TypeOK
<1>6. RowIds'    BY <1>1 DEF RowIds
<1>7. SpentInv'  BY <1>1, <1>3, <1>4, Sizes DEF SpentInv
<1>8. PastInv'   BY <1>1, <1>3, Sizes DEF PastInv, Overshoot
<1>9. ZeroInv'   BY <1>2 DEF ZeroInv
<1> QED  BY <1>5, <1>6, <1>7, <1>8, <1>9

(* The month's spending starts again at nothing; those past the check are   *)
(* at most all requests.                                                   *)
LEMMA TickStep ==
  ASSUME IInv, Tick
  PROVE  IInv'
<1> USE DEF IInv
<1>1. /\ UNCHANGED <<rows, req>> /\ day' \in Nat /\ month' \in Nat
      /\ spent' \in Nat /\ lost' \in Nat
  BY DEF Tick, TypeOK
<1>2. Admitted' = Admitted /\ Unstored' = Unstored
  BY <1>1 DEF Admitted, Unstored, Visitors
<1>3. TypeOK' /\ RowIds' /\ ZeroInv'  BY <1>1, <1>2 DEF TypeOK, RowIds, ZeroInv
<1>4. CASE month' = month /\ UNCHANGED <<spent, lost>>
  <2>1. Counted' = Counted  BY <1>1, <1>4 DEF Counted
  <2> QED  BY <1>2, <1>3, <1>4, <2>1 DEF SpentInv, PastInv, Overshoot
<1>5. CASE spent' = 0 /\ lost' = 0
  <2>1. Cardinality(Counted)' \in Nat
    <3>1. Counted' \in SUBSET rows /\ IsFiniteSet(rows)  BY <1>1 DEF Counted, TypeOK
    <3>2. IsFiniteSet(Counted')  BY <3>1, FS_Subset
    <3>3. Cardinality(Counted') \in Nat  BY <3>2, FS_CardinalityType
    <3> QED  BY <3>3
  <2>2. SpentInv'  BY <1>2, <1>5, <2>1, Sizes DEF SpentInv
  <2>3. PastInv'
    <3>1. Cardinality(Admitted) + Cardinality(Unstored) <= Cardinality(Request)
      BY VisitorsDisjoint
    <3>2. Cap = 0 => Cardinality(Admitted) = 0  BY FS_EmptySet DEF ZeroInv
    <3> QED  BY <1>2, <1>5, <3>1, <3>2, Sizes DEF PastInv, Overshoot
  <2> QED  BY <1>3, <2>2, <2>3
<1> QED  BY <1>4, <1>5 DEF Tick

-----------------------------------------------------------------------------
LEMMA InitInv == Init => IInv
<1> SUFFICES ASSUME Init PROVE IInv  OBVIOUS
<1>1. /\ rows = {} /\ req = [r \in Request |-> IdleReq]
      /\ day = 0 /\ month = 0 /\ spent = 0 /\ lost = 0
  BY DEF Init
<1>2. Admitted = {} /\ Unstored = {} /\ Counted = {}
  BY <1>1 DEF Admitted, Unstored, Visitors, Counted, IdleReq
<1>3. Cardinality({}) = 0 /\ IsFiniteSet({})  BY FS_EmptySet
<1>4. TypeOK  BY <1>1, <1>3, IdleType DEF TypeOK
<1>5. PastInv  BY <1>1, <1>2, <1>3, Sizes, <1>4, VisitorsDisjoint DEF PastInv, Overshoot
<1> QED  BY <1>1, <1>2, <1>3, <1>4, <1>5 DEF IInv, RowIds, SpentInv, ZeroInv

LEMMA NextInv == IInv /\ [Next]_vars => IInv'
<1> SUFFICES ASSUME IInv, [Next]_vars PROVE IInv'  OBVIOUS
<1>1. CASE UNCHANGED vars
  BY <1>1 DEF vars, IInv, TypeOK, RowIds, SpentInv, PastInv, ZeroInv, Counted, Admitted,
              Unstored, Visitors, Overshoot
<1>2. ASSUME NEW r \in Request, NEW by \in By, NEW q \in Query, Ask(r, by, q) PROVE IInv'
  BY <1>2, AskStep
<1>3. ASSUME NEW r \in Request, Lookup(r) PROVE IInv'    BY <1>3, LookupStep
<1>4. ASSUME NEW r \in Request, CheckCap(r) PROVE IInv'  BY <1>4, CheckCapStep
<1>5. ASSUME NEW r \in Request, Search(r) PROVE IInv'    BY <1>5, SearchStep
<1>6. ASSUME NEW r \in Request, Fetch(r) PROVE IInv'     BY <1>6, FetchStep
<1>7. ASSUME NEW r \in Request, Store(r) PROVE IInv'     BY <1>7, StoreStep
<1>8. CASE Crash  BY <1>8, CrashStep
<1>9. CASE Tick   BY <1>9, TickStep
<1> QED  BY <1>1, <1>2, <1>3, <1>4, <1>5, <1>6, <1>7, <1>8, <1>9 DEF Next

(* Beyond the cap visitors cost no more than the requests that passed the   *)
(* check of publicSearch together, and the searches that left no row.       *)
THEOREM SpendingIsBounded == Spec => []SpendingBounded
<1>1. IInv => SpendingBounded
  <2> SUFFICES ASSUME IInv PROVE SpendingBounded  OBVIOUS
  <2> QED  BY Sizes DEF IInv, PastInv, SpendingBounded
<1> QED  BY <1>1, InitInv, NextInv, PTL DEF Spec

-----------------------------------------------------------------------------
(* RepeatsAreFree: how often one query is paid for *)

Busy(q) == {r \in Request : req[r].pc \in {"fetch", "store"} /\ req[r].query = q}

LEMMA QuerySizes ==
  ASSUME TypeOK, NEW q \in Query
  PROVE  /\ IsFiniteSet(FreshRows(q)) /\ Cardinality(FreshRows(q)) \in Nat
         /\ IsFiniteSet(Busy(q)) /\ Cardinality(Busy(q)) \in Nat
         /\ Cardinality(Busy(q)) <= Cardinality(Request)
         /\ Cardinality(Request) \in Nat
<1>1. FreshRows(q) \in SUBSET rows /\ IsFiniteSet(rows)  BY DEF FreshRows, TypeOK
<1>2. Busy(q) \in SUBSET Request  BY DEF Busy
<1>3. IsFiniteSet(FreshRows(q))  BY <1>1, FS_Subset
<1>4. IsFiniteSet(Busy(q)) /\ Cardinality(Busy(q)) <= Cardinality(Request)
  BY <1>2, FS_Subset, RequestAssumption
<1> QED  BY <1>3, <1>4, FS_CardinalityType, RequestAssumption

(* Nothing new to be paid, nothing new to be found.                         *)
LEMMA NoneDearer ==
  ASSUME TypeOK, RepeatsAreFree,
         \A q \in Query : Busy(q)' \subseteq Busy(q) /\ FreshRows(q)' \subseteq FreshRows(q)
  PROVE  RepeatsAreFree'
<1>1. SUFFICES ASSUME NEW q \in Query
               PROVE  Cardinality(FreshRows(q)') + Cardinality(Busy(q)') <= Cardinality(Request)
  BY DEF RepeatsAreFree, Busy
<1>2. Cardinality(FreshRows(q)) + Cardinality(Busy(q)) <= Cardinality(Request)
  BY DEF RepeatsAreFree, Busy
<1>3. /\ Cardinality(FreshRows(q)') <= Cardinality(FreshRows(q)) /\ IsFiniteSet(FreshRows(q)')
      /\ Cardinality(Busy(q)') <= Cardinality(Busy(q)) /\ IsFiniteSet(Busy(q)')
  BY QuerySizes, FS_Subset
<1>4. Cardinality(FreshRows(q)') \in Nat /\ Cardinality(Busy(q)') \in Nat
  BY <1>3, FS_CardinalityType
<1> QED  BY <1>2, <1>3, <1>4, QuerySizes

(* One slot becomes v, at a place where it pays for nothing new.            *)
LEMMA SlotPaysNothing ==
  ASSUME TypeOK, RepeatsAreFree, NEW r \in Request, NEW v \in ReqRecord,
         req' = [req EXCEPT ![r] = v], UNCHANGED <<rows, day>>,
         v.pc \in {"fetch", "store"} => req[r].pc \in {"fetch", "store"} /\ v.query = req[r].query
  PROVE  RepeatsAreFree'
<1>1. \A q \in Query : Busy(q)' \subseteq Busy(q)  BY DEF Busy, TypeOK
<1>2. \A q \in Query : FreshRows(q)' = FreshRows(q)  BY DEF FreshRows, Fresh
<1> QED  BY <1>1, <1>2, NoneDearer

(* A search goes out only when the query has no fresh row.                  *)
LEMMA SearchPaysOnce ==
  ASSUME TypeOK, RepeatsAreFree, NEW r \in Request, Search(r)
  PROVE  RepeatsAreFree'
<1>1. req[r].pc = "search" /\ UNCHANGED <<rows, day>>  BY DEF Search, At
<1>2. CASE Answer(r)
  BY <1>1, <1>2, SlotPaysNothing, IdleType DEF Answer, IdleReq
<1>3. CASE ~Cached(req[r].query) /\ Goto(r, "fetch")
  <2>1. PICK v \in ReqRecord : v.pc = "fetch" /\ v.query = req[r].query /\ req' = [req EXCEPT ![r] = v]
    BY <1>3, GotoSets DEF PC
  <2>2. SUFFICES ASSUME NEW q \in Query
                 PROVE  Cardinality(FreshRows(q)') + Cardinality(Busy(q)') <= Cardinality(Request)
    BY DEF RepeatsAreFree, Busy
  <2>3. FreshRows(q)' = FreshRows(q)  BY <1>1 DEF FreshRows, Fresh
  <2>4. CASE q = req[r].query
    <3>1. FreshRows(q) = {}  BY <1>3, <2>4 DEF Cached
    <3>2. Busy(q)' \in SUBSET Request  BY DEF Busy
    <3>3. Cardinality(Busy(q)') <= Cardinality(Request) /\ IsFiniteSet(Busy(q)')
      BY <3>2, FS_Subset, RequestAssumption
    <3>4. Cardinality(Busy(q)') \in Nat  BY <3>3, FS_CardinalityType
    <3>5. Cardinality(FreshRows(q)') = 0  BY <2>3, <3>1, FS_EmptySet
    <3> QED  BY <3>3, <3>4, <3>5, QuerySizes
  <2>5. CASE q # req[r].query
    <3>1. Busy(q)' = Busy(q)  BY <1>1, <2>1, <2>5 DEF Busy, TypeOK
    <3> QED  BY <2>3, <3>1 DEF RepeatsAreFree, Busy
  <2> QED  BY <2>4, <2>5
<1> QED  BY <1>2, <1>3 DEF Search

(* The row stored takes the place of the request that fetched it.           *)
LEMMA StoreTakesPlace ==
  ASSUME TypeOK, RowIds, RepeatsAreFree, NEW r \in Request, Store(r)
  PROVE  RepeatsAreFree'
<1> DEFINE x == NewRow(r)
<1>1. /\ req[r].pc = "store" /\ day' = day
      /\ rows' = rows \cup {x} /\ req' = [req EXCEPT ![r] = IdleReq]
  BY DEF Store, At, Answer
<1>2. x.query = req[r].query /\ x.day = day /\ x.id = Cardinality(rows)  BY DEF NewRow
<1>3. x \notin rows
  BY <1>2, Sizes DEF RowIds
<1> HIDE DEF x
<1>4. SUFFICES ASSUME NEW q \in Query
               PROVE  Cardinality(FreshRows(q)') + Cardinality(Busy(q)') <= Cardinality(Request)
  BY DEF RepeatsAreFree, Busy
<1>5. Cardinality(FreshRows(q)) + Cardinality(Busy(q)) <= Cardinality(Request)
  BY DEF RepeatsAreFree, Busy
<1>6. CASE q = req[r].query
  <2>1. FreshRows(q)' = FreshRows(q) \cup {x}
    <3>1. x.day + TTL >= day  BY <1>2, TimeAssumption DEF TypeOK
    <3> QED  BY <1>1, <1>2, <1>6, <3>1 DEF FreshRows, Fresh
  <2>2. x \notin FreshRows(q)  BY <1>3 DEF FreshRows
  <2>3. Cardinality(FreshRows(q) \cup {x}) = Cardinality(FreshRows(q)) + 1
    BY <2>2, QuerySizes, FS_AddElement
  <2>4. Busy(q)' = Busy(q) \ {r} /\ r \in Busy(q)
    BY <1>1, <1>6 DEF Busy, TypeOK, IdleReq
  <2>5. Cardinality(Busy(q) \ {r}) = Cardinality(Busy(q)) - 1
    BY <2>4, QuerySizes, FS_RemoveElement
  <2> QED  BY <1>5, <2>1, <2>3, <2>4, <2>5, QuerySizes
<1>7. CASE q # req[r].query
  <2>1. FreshRows(q)' = FreshRows(q)  BY <1>1, <1>2, <1>7 DEF FreshRows, Fresh
  <2>2. Busy(q)' = Busy(q)  BY <1>1, <1>7 DEF Busy, TypeOK, IdleReq
  <2> QED  BY <1>5, <2>1, <2>2
<1> QED  BY <1>6, <1>7

(* A query that was paid for is not paid for again while its row is fresh,  *)
(* but by requests that were under way together: search looks for a fresh   *)
(* row itself, whatever publicSearch saw before.                            *)
THEOREM RepeatsCostNothing == Spec => []RepeatsAreFree
<1>1. Init => RepeatsAreFree
  <2> SUFFICES ASSUME Init, NEW q \in Query
               PROVE  Cardinality(FreshRows(q)) + Cardinality(Busy(q)) <= Cardinality(Request)
    BY DEF RepeatsAreFree, Busy
  <2>1. TypeOK  BY InitInv DEF IInv
  <2>2. FreshRows(q) = {}  BY DEF Init, FreshRows
  <2>3. Cardinality(FreshRows(q)) = 0  BY <2>2, FS_EmptySet
  <2> QED  BY <2>1, <2>3, QuerySizes
<1>2. IInv /\ RepeatsAreFree /\ [Next]_vars => RepeatsAreFree'
  <2> SUFFICES ASSUME TypeOK, RowIds, RepeatsAreFree, [Next]_vars PROVE RepeatsAreFree'
    BY DEF IInv
  <2>1. CASE UNCHANGED vars
    BY <2>1 DEF vars, RepeatsAreFree, FreshRows, Fresh
  <2>2. ASSUME NEW r \in Request, NEW by \in By, NEW q \in Query, Ask(r, by, q)
        PROVE  RepeatsAreFree'
    <3> DEFINE v == [pc |-> IF by = "visitor" THEN "lookup" ELSE "search", by |-> by, query |-> q]
    <3>1. v \in ReqRecord /\ v.pc \notin {"fetch", "store"}  BY <2>2 DEF ReqRecord, PC
    <3>2. req' = [req EXCEPT ![r] = v] /\ UNCHANGED <<rows, day>>  BY <2>2 DEF Ask
    <3> HIDE DEF v
    <3> QED  BY <2>2, <3>1, <3>2, SlotPaysNothing
  <2>3. ASSUME NEW r \in Request, Answer(r), UNCHANGED <<rows, day>>
        PROVE  RepeatsAreFree'
    BY <2>3, SlotPaysNothing, IdleType DEF Answer, IdleReq
  <2>4. ASSUME NEW r \in Request, NEW pc \in {"check", "search"}, Goto(r, pc), UNCHANGED <<rows, day>>
        PROVE  RepeatsAreFree'
    <3>1. PICK v \in ReqRecord : v.pc = pc /\ req' = [req EXCEPT ![r] = v]
      BY <2>4, GotoSets DEF PC
    <3> QED  BY <2>4, <3>1, SlotPaysNothing
  <2>5. ASSUME NEW r \in Request, Lookup(r) PROVE RepeatsAreFree'
    BY <2>3, <2>4, <2>5 DEF Lookup
  <2>6. ASSUME NEW r \in Request, CheckCap(r) PROVE RepeatsAreFree'
    BY <2>3, <2>4, <2>6 DEF CheckCap
  <2>7. ASSUME NEW r \in Request, Search(r) PROVE RepeatsAreFree'  BY <2>7, SearchPaysOnce
  <2>8. ASSUME NEW r \in Request, Fetch(r) PROVE RepeatsAreFree'
    <3>1. CASE Goto(r, "store")
      <4>1. PICK v \in ReqRecord : /\ v.pc = "store" /\ v.query = req[r].query
                                   /\ req' = [req EXCEPT ![r] = v]
        BY <2>8, <3>1, GotoSets DEF PC
      <4>2. req[r].pc = "fetch" /\ UNCHANGED <<rows, day>>  BY <2>8 DEF Fetch, At
      <4> QED  BY <2>8, <4>1, <4>2, SlotPaysNothing
    <3>2. CASE Answer(r)  BY <2>3, <2>8, <3>2 DEF Fetch
    <3> QED  BY <2>8, <3>1, <3>2 DEF Fetch
  <2>9. ASSUME NEW r \in Request, Store(r) PROVE RepeatsAreFree'  BY <2>9, StoreTakesPlace
  <2>10. CASE Crash
    <3>1. \A q \in Query : Busy(q)' \subseteq Busy(q)
      BY <2>10 DEF Crash, Busy, IdleReq
    <3>2. \A q \in Query : FreshRows(q)' = FreshRows(q)
      BY <2>10 DEF Crash, FreshRows, Fresh
    <3> QED  BY <3>1, <3>2, NoneDearer
  <2>11. CASE Tick
    <3>1. \A q \in Query : Busy(q)' = Busy(q)  BY <2>11 DEF Tick, Busy
    <3>2. ASSUME NEW q \in Query PROVE FreshRows(q)' \subseteq FreshRows(q)
      <4>1. \A x \in rows : x.day \in Nat  BY DEF TypeOK, Row
      <4>2. rows' = rows /\ day' = day + 1 /\ day \in Nat  BY <2>11 DEF Tick, TypeOK
      <4>3. \A x \in rows : Fresh(x)' => Fresh(x)
        BY <4>1, <4>2, TimeAssumption DEF Fresh
      <4> QED  BY <4>2, <4>3 DEF FreshRows
    <3> QED  BY <3>1, <3>2, NoneDearer
  <2> QED  BY <2>1, <2>2, <2>5, <2>6, <2>7, <2>8, <2>9, <2>10, <2>11 DEF Next
<1> QED  BY <1>1, <1>2, InitInv, NextInv, PTL DEF Spec

-----------------------------------------------------------------------------
(* PartitionsAreAhead: the months with a partition *)

PartInv ==
  /\ calendar \in Nat /\ booted \in Nat
  /\ booted <= calendar
  /\ booted \in parts /\ booted + 1 \in parts

LEMMA EventNeedsPart ==
  ASSUME PartInv, Visits!PartitionsAreAhead, NEW t, NEW event, NEW utm,
         Visits!Track(t, event, utm)
  PROVE  Visits!PartitionsAreAhead'
<1>1. CASE missed' = missed  BY <1>1 DEF Visits!PartitionsAreAhead
<1>2. CASE /\ calendar \notin parts
           /\ missed' = missed \cup {[month |-> calendar, booted |-> booted]}
  <2>1. calendar > booted + 1  BY <1>2 DEF PartInv
  <2> QED  BY <1>2, <2>1 DEF Visits!PartitionsAreAhead
<1> QED  BY <1>1, <1>2 DEF Visits!Track, Visits!RecordVisit

(* Every boot makes the partitions of its month and the next: an event that *)
(* found none was stored in a later month, when no boot had been for two.   *)
THEOREM PartitionsLast == Visits!Spec => []PartitionsAreAhead
<1>1. Visits!Init => PartInv /\ PartitionsAreAhead
  BY DEF Visits!Init, PartInv, PartitionsAreAhead, Visits!PartitionsAreAhead
<1>2. PartInv /\ PartitionsAreAhead /\ [Visits!Next]_Visits!vars => (PartInv /\ PartitionsAreAhead)'
  <2> SUFFICES ASSUME PartInv, Visits!PartitionsAreAhead, [Visits!Next]_Visits!vars
               PROVE  PartInv' /\ Visits!PartitionsAreAhead'
    BY DEF PartitionsAreAhead
  <2>1. CASE UNCHANGED Visits!vars
    BY <2>1 DEF Visits!vars, PartInv, Visits!PartitionsAreAhead
  <2>2. ASSUME NEW t \in Tab, NEW utm, Visits!Arrive(t, utm)
        PROVE  PartInv' /\ Visits!PartitionsAreAhead'
    BY <2>2, EventNeedsPart DEF Visits!Arrive, PartInv
  <2>3. ASSUME NEW t \in Tab, Visits!Browse(t) PROVE PartInv' /\ Visits!PartitionsAreAhead'
    BY <2>3, EventNeedsPart DEF Visits!Browse, PartInv
  <2>4. ASSUME NEW t \in Tab, NEW e, Visits!Click(t, e)
        PROVE  PartInv' /\ Visits!PartitionsAreAhead'
    BY <2>4, EventNeedsPart DEF Visits!Click, PartInv
  <2>5. ASSUME NEW t \in Tab, Visits!Close(t) PROVE PartInv' /\ Visits!PartitionsAreAhead'
    BY <2>5 DEF Visits!Close, PartInv, Visits!PartitionsAreAhead
  <2>6. CASE Visits!Archive \/ Visits!EditAliases \/ Visits!Crowd \/ Visits!Tick
    BY <2>6 DEF Visits!Archive, Visits!EditAliases, Visits!Crowd, Visits!Tick, Visits!beacon,
                PartInv, Visits!PartitionsAreAhead
  <2>7. CASE Visits!Boot \/ Visits!NextMonth
    BY <2>7 DEF Visits!Boot, Visits!NextMonth, Visits!beacon, PartInv, Visits!PartitionsAreAhead
  <2> QED  BY <2>1, <2>2, <2>3, <2>4, <2>5, <2>6, <2>7 DEF Visits!Next
<1> QED  BY <1>1, <1>2, PTL DEF Visits!Spec

-----------------------------------------------------------------------------
(* VisitsAreTold: whom the report credits, and what is one visit *)

Address   == {Visits!Utm(l) : l \in Visits!Link} \cup {Visits!Direct, Visits!Closed}
Stamp     == [id : Nat, at : Nat]
CampaignOf == {u.campaign : u \in Address}
VisitRow  == [event : Visits!Event, at : Nat, campaign : CampaignOf, due : CampaignOf]

VisitsTypeOK ==
  /\ page \in [Tab -> Address] /\ stored \in [Tab -> Address] /\ landed \in [Tab -> Address]
  /\ clock \in Nat /\ session \in Stamp
  /\ sent \in Seq(Stamp) /\ visits \in Seq(VisitRow)

(* What the tab has stored is what it arrived by, and an address that has a *)
(* campaign has that one.                                                   *)
StoredIsLanded ==
  \A t \in Tab : /\ stored[t] = landed[t]
                 /\ page[t] \notin {Visits!Direct, Visits!Closed} => page[t] = stored[t]

RowsAreCredited == \A i \in DOMAIN visits : visits[i].campaign = visits[i].due

(* The session in localStorage is the stamp of the last event, and sessions *)
(* are numbered by the events that began them.                              *)
LastStamp ==
  /\ \A i \in 1..Len(sent) : sent[i].id \in 1..Len(sent)
  /\ sent = << >> => session = Visits!NoSession
  /\ sent # << >> => session = sent[Len(sent)]

VisitsInv == VisitsTypeOK /\ StoredIsLanded /\ RowsAreCredited /\ LastStamp /\ Visits!SessionsAreVisits

(* How utms() and the history of a tab go together.                         *)
LEMMA UtmsAreLanded ==
  ASSUME VisitsTypeOK, StoredIsLanded, NEW t \in Tab, page[t] # Visits!Closed
  PROVE  Visits!Utms(t, page[t]) = landed[t] /\ Visits!Utms(t, Visits!Direct) = landed[t]
BY DEF StoredIsLanded, Visits!Utms

LEMMA SessionGoesOn ==
  ASSUME VisitsTypeOK, LastStamp, Visits!SessionsAreVisits,
         session' = Visits!Session,
         sent' = Append(sent, [id |-> session'.id, at |-> clock])
  PROVE  /\ session' \in Stamp /\ sent' \in Seq(Stamp)
         /\ LastStamp' /\ Visits!SessionsAreVisits'
<1> DEFINE s == Visits!Session
           n == Len(sent)
<1>0. sent \in Seq(Stamp) /\ session \in Stamp /\ clock \in Nat  BY DEF VisitsTypeOK
<1>1. n \in Nat /\ session.at \in Nat  BY <1>0 DEF Stamp
<1>2. s \in Stamp /\ s.at = clock
  BY <1>0, <1>1 DEF Visits!Session, Stamp
<1>3. s = [id |-> s.id, at |-> clock]  BY <1>2 DEF Stamp
<1>4. /\ session' = s /\ sent' = Append(sent, s)  BY <1>3
<1>5. /\ sent' \in Seq(Stamp) /\ Len(sent') = n + 1 /\ sent'[n + 1] = s
      /\ \A i \in 1..n : sent'[i] = sent[i]
  BY <1>0, <1>2, <1>4
<1>6. n = 0 => sent = << >>  BY <1>0
<1>7. n # 0 => sent # << >> /\ sent[n] \in Stamp /\ n \in 1..n  BY <1>0, <1>1
<1>8. n # 0 => session = sent[n] /\ session.id \in 1..n
  BY <1>7 DEF LastStamp
<1>9. n = 0 => s.id = 1
  BY <1>6 DEF LastStamp, Visits!Session
<1>10. n # 0 => session # Visits!NoSession
  BY <1>8 DEF Visits!NoSession
<1>11. n # 0 => \/ s.id = n + 1 /\ clock - session.at > SessionTTL
                \/ s.id = session.id /\ clock - session.at <= SessionTTL
  BY <1>0, <1>1, <1>10, SessionAssumption DEF Visits!Session, Stamp
<1> HIDE DEF s, n
<1>12. s.id \in 1..(n + 1)  BY <1>1, <1>8, <1>9, <1>11
<1>13. LastStamp'
  <2>1. sent' # << >>  BY <1>1, <1>5
  <2>2. ASSUME NEW i \in 1..(n + 1) PROVE sent'[i].id \in 1..(n + 1)
    <3>1. CASE i = n + 1  BY <1>5, <1>12, <3>1
    <3>2. CASE i \in 1..n
      <4>1. sent[i].id \in 1..n  BY <3>2 DEF LastStamp, n
      <4> QED  BY <1>1, <1>5, <3>2, <4>1
    <3>3. i = n + 1 \/ i \in 1..n  BY <1>1, <2>2
    <3> QED  BY <3>1, <3>2, <3>3
  <2>3. Len(sent') = n + 1 /\ session' = sent'[n + 1]  BY <1>4, <1>5
  <2>4. /\ \A i \in 1..Len(sent') : sent'[i].id \in 1..Len(sent')
        /\ session' = sent'[Len(sent')]
    BY <2>2, <2>3
  <2> QED  BY <2>1, <2>4 DEF LastStamp
<1>14. Visits!SessionsAreVisits'
  <2> SUFFICES ASSUME NEW i \in 1..n
               PROVE  (sent'[i].id = sent'[i + 1].id) <=> (sent'[i + 1].at - sent'[i].at <= SessionTTL)
    BY <1>1, <1>5 DEF Visits!SessionsAreVisits
  <2>2. CASE i = n
    <3>1. sent'[i] = session /\ sent'[i + 1] = s /\ n # 0  BY <1>1, <1>5, <1>8, <2>2
    <3>2. session.id # n + 1  BY <1>1, <1>8, <3>1
    <3>3. s.id = session.id <=> clock - session.at <= SessionTTL
      BY <1>0, <1>1, <1>11, <3>1, <3>2, SessionAssumption
    <3> QED  BY <1>2, <3>1, <3>3
  <2>3. CASE i \in 1..(n - 1)
    <3>1. sent'[i] = sent[i] /\ sent'[i + 1] = sent[i + 1]  BY <1>1, <1>5, <2>3
    <3> QED  BY <2>3, <3>1 DEF Visits!SessionsAreVisits, n
  <2>4. i = n \/ i \in 1..(n - 1)  BY <1>1
  <2> QED  BY <2>2, <2>3, <2>4
<1> QED  BY <1>2, <1>4, <1>5, <1>13, <1>14

(* An event goes to the report under the campaign it is due to.             *)
LEMMA EventIsCredited ==
  ASSUME VisitsInv, NEW t \in Tab, NEW event \in Visits!Event,
         NEW utm \in Address,
         landed' \in [Tab -> Address], landed'[t] = utm,
         Visits!Track(t, event, utm), UNCHANGED clock,
         page' \in [Tab -> Address], stored' \in [Tab -> Address], StoredIsLanded'
  PROVE  VisitsInv'
<1> USE DEF VisitsInv
<1>1. /\ session' \in Stamp /\ sent' \in Seq(Stamp)
      /\ LastStamp' /\ Visits!SessionsAreVisits'
  BY SessionGoesOn DEF Visits!Track
<1>2. visits' \in Seq(VisitRow) /\ RowsAreCredited'
  <2> DEFINE x == [event |-> event, at |-> clock, campaign |-> utm.campaign,
                   due |-> landed'[t].campaign]
  <2>1. visits' = visits \/ visits' = Append(visits, x)
    BY DEF Visits!Track, Visits!RecordVisit, Visits!Row
  <2>2. x.campaign = x.due /\ x \in VisitRow
    BY DEF VisitRow, CampaignOf, VisitsTypeOK
  <2>3. visits \in Seq(VisitRow)  BY DEF VisitsTypeOK
  <2> HIDE DEF x
  <2>4. CASE visits' = Append(visits, x)
    <3>1. /\ visits' \in Seq(VisitRow)
          /\ \A i \in DOMAIN visits' : visits'[i] = x \/ (i \in DOMAIN visits /\ visits'[i] = visits[i])
      BY <2>2, <2>3, <2>4
    <3> QED  BY <2>2, <3>1 DEF RowsAreCredited
  <2>5. CASE visits' = visits  BY <2>3, <2>5 DEF RowsAreCredited
  <2> QED  BY <2>1, <2>4, <2>5
<1>3. VisitsTypeOK'  BY <1>1, <1>2 DEF VisitsTypeOK
<1> QED  BY <1>1, <1>2, <1>3

LEMMA ArriveIsTold ==
  ASSUME VisitsInv, NEW t \in Tab, NEW utm \in Address,
         Visits!Arrive(t, utm)
  PROVE  VisitsInv'
<1> USE DEF VisitsInv, VisitsTypeOK
<1> DEFINE u == Visits!Utms(t, utm)
<1>1. u = IF utm # Visits!Direct THEN utm ELSE landed[t]
  BY DEF Visits!Utms, StoredIsLanded
<1>2. u \in Address  BY <1>1
<1>3. /\ page' = [page EXCEPT ![t] = utm]
      /\ stored' = [stored EXCEPT ![t] = u]
      /\ landed' = [landed EXCEPT ![t] = u]
  BY <1>1 DEF Visits!Arrive
<1>4. /\ Visits!Track(t, "pageview", u) /\ UNCHANGED clock
  BY DEF Visits!Arrive
<1> HIDE DEF u
<1>5. StoredIsLanded'
  BY <1>1, <1>2, <1>3 DEF StoredIsLanded
<1>6. /\ page' \in [Tab -> Address] /\ stored' \in [Tab -> Address]
      /\ landed' \in [Tab -> Address] /\ landed'[t] = u
  BY <1>2, <1>3
<1>7. "pageview" \in Visits!Event  BY DEF Visits!Event
<1> QED  BY <1>2, <1>4, <1>5, <1>6, <1>7, EventIsCredited

LEMMA VisitsStart == Visits!Init => VisitsInv
<1> SUFFICES ASSUME Visits!Init PROVE VisitsInv  OBVIOUS
<1>1. Visits!Direct \in Address /\ Visits!Closed \in Address  BY DEF Address
<1>2. /\ sent = << >> /\ visits = << >> /\ clock = 0
      /\ session = Visits!NoSession
      /\ page = [t \in Tab |-> Visits!Closed]
      /\ stored = [t \in Tab |-> Visits!Direct] /\ landed = [t \in Tab |-> Visits!Direct]
  BY DEF Visits!Init
<1>3. VisitsTypeOK  BY <1>1, <1>2 DEF VisitsTypeOK, Visits!NoSession, Stamp
<1>4. StoredIsLanded  BY <1>2 DEF StoredIsLanded
<1>5. RowsAreCredited /\ LastStamp /\ Visits!SessionsAreVisits
  BY <1>2 DEF RowsAreCredited, LastStamp, Visits!SessionsAreVisits
<1> QED  BY <1>3, <1>4, <1>5 DEF VisitsInv

LEMMA VisitsNext ==
  ASSUME VisitsInv, [Visits!Next]_Visits!vars
  PROVE  VisitsInv'
<1>1. CASE UNCHANGED Visits!vars
  BY <1>1 DEF Visits!vars, VisitsInv, VisitsTypeOK, StoredIsLanded, RowsAreCredited, LastStamp,
              Visits!SessionsAreVisits
<1>2. ASSUME NEW t \in Tab, NEW utm \in {Visits!Utm(l) : l \in Visits!Link} \cup {Visits!Direct},
             Visits!Arrive(t, utm)
      PROVE  VisitsInv'
  <2>1. utm \in Address  BY DEF Address
  <2> QED  BY <1>2, <2>1, ArriveIsTold
<1>3. ASSUME NEW t \in Tab, Visits!Browse(t) PROVE VisitsInv'
  <2> USE DEF VisitsInv, VisitsTypeOK
  <2>1. page[t] # Visits!Closed /\ UNCHANGED <<stored, landed, clock>>
    BY <1>3 DEF Visits!Browse
  <2>2. Visits!Direct \in Address  BY DEF Address
  <2>3. page' = [page EXCEPT ![t] = Visits!Direct] /\ page' \in [Tab -> Address]
    BY <1>3, <2>2 DEF Visits!Browse
  <2>4. StoredIsLanded'  BY <2>1, <2>3 DEF StoredIsLanded
  <2>5. Visits!Track(t, "pageview", landed[t])
    <3>1. Visits!Utms(t, Visits!Direct) = landed[t]  BY <2>1, UtmsAreLanded
    <3> QED  BY <1>3, <3>1 DEF Visits!Browse
  <2>6. "pageview" \in Visits!Event /\ landed[t] \in Address  BY DEF Visits!Event
  <2> QED  BY <2>1, <2>3, <2>4, <2>5, <2>6, EventIsCredited
<1>4. ASSUME NEW t \in Tab, NEW e \in Visits!Event, Visits!Click(t, e) PROVE VisitsInv'
  <2> USE DEF VisitsInv, VisitsTypeOK
  <2>1. page[t] # Visits!Closed /\ UNCHANGED <<page, stored, landed, clock>>
    BY <1>4 DEF Visits!Click
  <2>2. StoredIsLanded'  BY <2>1 DEF StoredIsLanded
  <2>3. Visits!Track(t, e, landed[t])
    <3>1. Visits!Utms(t, page[t]) = landed[t]  BY <2>1, UtmsAreLanded
    <3> QED  BY <1>4, <3>1 DEF Visits!Click
  <2> QED  BY <2>1, <2>2, <2>3, EventIsCredited
<1>5. ASSUME NEW t \in Tab, Visits!Close(t) PROVE VisitsInv'
  <2>1. /\ page' = [page EXCEPT ![t] = Visits!Closed]
        /\ stored' = [stored EXCEPT ![t] = Visits!Direct]
        /\ landed' = [landed EXCEPT ![t] = Visits!Direct]
        /\ UNCHANGED <<session, clock, sent, visits>>
    BY <1>5 DEF Visits!Close
  <2>2. Visits!Direct \in Address /\ Visits!Closed \in Address  BY DEF Address
  <2>3. VisitsTypeOK'  BY <2>1, <2>2 DEF VisitsInv, VisitsTypeOK
  <2>4. StoredIsLanded'
    BY <2>1, <2>2 DEF VisitsInv, VisitsTypeOK, StoredIsLanded
  <2> QED  BY <2>1, <2>3, <2>4 DEF VisitsInv, RowsAreCredited, LastStamp, Visits!SessionsAreVisits
<1>6. ASSUME UNCHANGED <<page, stored, landed, session, sent, visits>>,
             clock' \in Nat
      PROVE  VisitsInv'
  BY <1>6 DEF VisitsInv, VisitsTypeOK, StoredIsLanded, RowsAreCredited, LastStamp,
              Visits!SessionsAreVisits
<1>7. CASE Visits!Archive \/ Visits!EditAliases \/ Visits!Crowd \/ Visits!Boot \/ Visits!NextMonth \/ Visits!Tick
  BY <1>6, <1>7 DEF Visits!Archive, Visits!EditAliases, Visits!Crowd, Visits!Boot, Visits!NextMonth,
                    Visits!Tick, Visits!beacon, VisitsInv, VisitsTypeOK
<1> QED  BY <1>1, <1>2, <1>3, <1>4, <1>5, <1>7 DEF Visits!Next

(* Whatever time a report is asked for, what it counts for a campaign is    *)
(* what was recorded in that time of tabs that last arrived by it, and it   *)
(* leaves out none with more visits than one it lists; and two events in a  *)
(* row share a session exactly when the window was not over.                *)
THEOREM VisitsTold == Visits!Spec => []VisitsAreTold
<1>1. VisitsInv => VisitsAreTold
  <2> SUFFICES ASSUME VisitsInv PROVE VisitsAreTold  OBVIOUS
  <2>1. \A i \in DOMAIN visits : visits[i].campaign = visits[i].due
    BY DEF VisitsInv, RowsAreCredited
  <2>2. ASSUME NEW c, NEW event, NEW from, NEW to
        PROVE  Visits!Count(event, c, from, to) = Visits!Due(event, c, from, to)
    <3>1. {i \in DOMAIN visits : /\ Visits!Within(i, from, to) /\ visits[i].event = event
                                 /\ visits[i].campaign = c}
            = {i \in DOMAIN visits : /\ Visits!Within(i, from, to) /\ visits[i].event = event
                                     /\ visits[i].due = c}
      BY <2>1
    <3> QED  BY <3>1 DEF Visits!Count, Visits!Due
  <2>3. ASSUME NEW from, NEW to, NEW top \in Visits!TopCampaigns(from, to),
               NEW i \in DOMAIN visits, Visits!Within(i, from, to), visits[i].due \notin top
        PROVE  /\ Visits!Cardinality(top) = TopLimit
               /\ \A c \in top : Visits!Due("pageview", c, from, to)
                                  >= Visits!Due("pageview", visits[i].due, from, to)
    <3>1. visits[i].due \in Visits!Groups(from, to) \ top
      BY <2>1, <2>3 DEF Visits!Groups
    <3>2. /\ Visits!Cardinality(top) = TopLimit
          /\ \A c \in top : Visits!Count("pageview", c, from, to)
                             >= Visits!Count("pageview", visits[i].due, from, to)
      BY <3>1 DEF Visits!TopCampaigns
    <3> QED  BY <2>2, <3>2
  <2>4. Visits!CampaignsAreCredited
    BY <2>2, <2>3 DEF Visits!CampaignsAreCredited
  <2> QED  BY <2>4 DEF VisitsAreTold, Visits!VisitsAreTold, VisitsInv
<1>2. VisitsInv /\ [Visits!Next]_Visits!vars => VisitsInv'  BY VisitsNext
<1> QED  BY <1>1, <1>2, VisitsStart, PTL DEF Visits!Spec

-----------------------------------------------------------------------------
(* LimitIsExact: what the sliding window lets through.  The requests let    *)
(* through since the map was last cleared are, as long as they are in the   *)
(* window, the recent hits of their key: each one hit, each hit one.        *)

Hit       == [at : Nat, n : Nat]
PassedHit == [at : Nat, n : Nat, epoch : Nat]
HitOf(p)  == [at |-> p.at, n |-> p.n]

LimiterType ==
  /\ clock \in Nat /\ clears \in Nat
  /\ buckets \in [Leads!Key -> SUBSET Hit]
  /\ \A k \in Leads!Key : IsFiniteSet(buckets[k])
  /\ passed \in [Visitor -> SUBSET PassedHit]
  /\ \A v \in Visitor : IsFiniteSet(passed[v])

(* Hits of one moment are numbered below the count of the recent ones.      *)
BucketsInv ==
  \A k \in Leads!Key :
    /\ \A h \in buckets[k] : h.at <= clock
    /\ \A h \in buckets[k] : h.at = clock => h.n < Cardinality(Leads!Recent(k))
    /\ Cardinality(Leads!Recent(k)) <= LeadLimit

PassedAreHits ==
  \A v \in Visitor : \A p \in passed[v] :
    /\ p.epoch <= clears
    /\ p.epoch = clears => HitOf(p) \in Leads!Recent(LeadKey[v])

HitsAreOwned ==
  \A k \in Leads!Key : \A h \in Leads!Recent(k) :
    \E v \in Visitor : /\ LeadKey[v] = k
                       /\ \E p \in passed[v] : p.epoch = clears /\ HitOf(p) = h

HitsAreSingle ==
  \A v, w \in Visitor : \A p \in passed[v] : \A q \in passed[w] :
    LeadKey[v] = LeadKey[w] /\ p.epoch = clears /\ q.epoch = clears /\ HitOf(p) = HitOf(q)
      => v = w

LimiterInv == LimiterType /\ BucketsInv /\ PassedAreHits /\ HitsAreOwned /\ HitsAreSingle

LEMMA SameCount == \A S : Leads!Cardinality(S) = Cardinality(S)
BY DEF Leads!Cardinality, Cardinality

LEMMA RecentFinite ==
  ASSUME LimiterType, NEW k \in Leads!Key
  PROVE  /\ Leads!Recent(k) \in SUBSET buckets[k] /\ Leads!Recent(k) \in SUBSET Hit
         /\ IsFiniteSet(Leads!Recent(k)) /\ Cardinality(Leads!Recent(k)) \in Nat
<1>1. Leads!Recent(k) \in SUBSET buckets[k]  BY DEF Leads!Recent
<1>2. IsFiniteSet(buckets[k]) /\ buckets[k] \in SUBSET Hit  BY DEF LimiterType
<1>3. IsFiniteSet(Leads!Recent(k))  BY <1>1, <1>2, FS_Subset
<1> QED  BY <1>1, <1>2, <1>3, FS_CardinalityType

(* The map is cleared, for want of room or by a crash: no request let       *)
(* through before counts any more.                                          *)
LEMMA ClearedIsFresh ==
  ASSUME LimiterInv, buckets' = Leads!NoHits, clears' = clears + 1, clock' = clock,
         passed' \in [Visitor -> SUBSET PassedHit],
         \A v \in Visitor : IsFiniteSet(passed'[v]),
         \A v \in Visitor : \A p \in passed'[v] : p \in passed[v] \/ p.epoch = clears
  PROVE  LimiterInv'
<1> USE DEF LimiterInv
<1>1. \A k \in Leads!Key : buckets'[k] = {} /\ Leads!Recent(k)' = {}
  BY DEF Leads!NoHits, Leads!Recent
<1>2. Cardinality({}) = 0 /\ IsFiniteSet({})  BY FS_EmptySet
<1>3. clears \in Nat /\ LeadLimit \in Nat  BY LimiterAssumption DEF LimiterType
<1>4. \A v \in Visitor : \A p \in passed'[v] : p.epoch <= clears /\ p.epoch \in Nat
  BY <1>3 DEF PassedAreHits, PassedHit
<1>5. \A v \in Visitor : \A p \in passed'[v] : p.epoch # clears + 1 /\ p.epoch <= clears + 1
  BY <1>3, <1>4
<1>6. LimiterType'
  <2>1. buckets' \in [Leads!Key -> SUBSET Hit]  BY DEF Leads!NoHits
  <2>2. \A k \in Leads!Key : IsFiniteSet(buckets'[k])  BY <1>1, <1>2
  <2>3. clock' \in Nat /\ clears' \in Nat  BY <1>3 DEF LimiterType
  <2> QED  BY <2>1, <2>2, <2>3 DEF LimiterType
<1>7. BucketsInv'
  <2>1. \A k \in Leads!Key : Cardinality(Leads!Recent(k)') = 0  BY <1>1, <1>2
  <2>2. \A k \in Leads!Key : Cardinality(Leads!Recent(k)') <= LeadLimit  BY <1>3, <2>1
  <2> QED  BY <1>1, <2>2 DEF BucketsInv
<1>8. PassedAreHits'  BY <1>5 DEF PassedAreHits
<1>9. HitsAreOwned'   BY <1>1 DEF HitsAreOwned
<1>10. HitsAreSingle' BY <1>5 DEF HitsAreSingle
<1> QED  BY <1>6, <1>7, <1>8, <1>9, <1>10

LEMMA LetKeeps ==
  ASSUME LimiterInv, NEW v \in Visitor, Leads!Let(v)
  PROVE  LimiterInv'
<1> USE DEF LimiterInv
<1> DEFINE k == LeadKey[v]
           R == Leads!Recent(k)
           hit == [at |-> clock, n |-> Cardinality(R)]
           new == [at |-> clock, n |-> Cardinality(R), epoch |-> clears]
           map == [buckets EXCEPT ![k] = R \cup {hit}]
<1>1. k \in Leads!Key  BY DEF Leads!Key
<1>2. R \in SUBSET Hit /\ IsFiniteSet(R) /\ Cardinality(R) \in Nat /\ R \in SUBSET buckets[k]
  BY <1>1, RecentFinite
<1>3. clock \in Nat /\ clears \in Nat /\ LeadLimit \in Nat  BY LimiterAssumption DEF LimiterType
<1>4. hit \in Hit /\ new \in PassedHit /\ HitOf(new) = hit /\ new.epoch = clears /\ hit.at = clock
      /\ hit.n = Cardinality(R)
  BY <1>2, <1>3 DEF Hit, PassedHit, HitOf
<1>5. /\ Cardinality(R) < LeadLimit
      /\ clock' = clock
      /\ passed' = [passed EXCEPT ![v] = @ \cup {new}]
      /\ \/ buckets' = Leads!NoHits /\ clears' = clears + 1
         \/ buckets' = map /\ clears' = clears
  BY SameCount DEF Leads!Let, Leads!HasRoom
<1>6. hit \notin R
  <2>1. \A h \in R : h.at = clock => h.n < Cardinality(R)  BY <1>1, <1>2 DEF BucketsInv
  <2> QED  BY <1>2, <1>4, <2>1
<1>7. IsFiniteSet(R \cup {hit}) /\ Cardinality(R \cup {hit}) = Cardinality(R) + 1
  BY <1>2, <1>6, FS_AddElement
<1>8. /\ passed' \in [Visitor -> SUBSET PassedHit]
      /\ passed'[v] = passed[v] \cup {new}
      /\ \A w \in Visitor : w # v => passed'[w] = passed[w]
  BY <1>4, <1>5 DEF LimiterType
<1>9. \A w \in Visitor : IsFiniteSet(passed'[w])
  <2> SUFFICES ASSUME NEW w \in Visitor PROVE IsFiniteSet(passed'[w])  OBVIOUS
  <2>1. IsFiniteSet(passed[w]) /\ IsFiniteSet(passed[v])  BY DEF LimiterType
  <2>2. IsFiniteSet(passed[v] \cup {new})  BY <2>1, FS_AddElement
  <2> QED  BY <1>8, <2>1, <2>2
<1>10. CASE buckets' = Leads!NoHits /\ clears' = clears + 1
  <2>1. \A w \in Visitor : \A p \in passed'[w] : p \in passed[w] \/ p.epoch = clears
    BY <1>4, <1>8
  <2> QED  BY <1>5, <1>8, <1>9, <1>10, <2>1, ClearedIsFresh
<1>11. CASE buckets' = map /\ clears' = clears
  <2>1. /\ buckets' \in [Leads!Key -> SUBSET Hit]
        /\ buckets'[k] = R \cup {hit}
        /\ \A j \in Leads!Key : j # k => buckets'[j] = buckets[j]
    BY <1>1, <1>2, <1>4, <1>11 DEF LimiterType
  <2>2. Leads!Recent(k)' = R \cup {hit}
    <3>1. \A h \in R : clock - h.at < Window  BY DEF Leads!Recent
    <3>2. clock - hit.at < Window  BY <1>3, <1>4, LimiterAssumption
    <3> HIDE DEF hit, R
    <3> QED  BY <1>5, <2>1, <3>1, <3>2 DEF Leads!Recent
  <2>3. \A j \in Leads!Key : j # k => Leads!Recent(j)' = Leads!Recent(j)
    BY <1>5, <2>1 DEF Leads!Recent
  <2> HIDE DEF hit, new, map, R, k
  <2>4. LimiterType'
    <3>1. \A j \in Leads!Key : IsFiniteSet(buckets'[j])
      BY <1>7, <2>1 DEF LimiterType
    <3> QED  BY <1>3, <1>5, <1>8, <1>9, <1>11, <2>1, <3>1 DEF LimiterType
  <2>5. BucketsInv'
    <3>1. SUFFICES ASSUME NEW j \in Leads!Key
                   PROVE  /\ \A h \in buckets'[j] : h.at <= clock
                          /\ \A h \in buckets'[j] : h.at = clock => h.n < Cardinality(Leads!Recent(j)')
                          /\ Cardinality(Leads!Recent(j)') <= LeadLimit
      BY <1>5 DEF BucketsInv
    <3>2. CASE j # k
      <4>1. buckets'[j] = buckets[j] /\ Leads!Recent(j)' = Leads!Recent(j)
        BY <2>1, <2>3, <3>1, <3>2
      <4> QED  BY <3>1, <4>1 DEF BucketsInv
    <3>3. CASE j = k
      <4>1. /\ buckets'[j] = R \cup {hit}
            /\ Cardinality(Leads!Recent(j)') = Cardinality(R) + 1
        BY <1>7, <2>1, <2>2, <3>3
      <4>2. \A h \in R : h.at <= clock /\ (h.at = clock => h.n < Cardinality(R)) /\ h.n \in Nat
        BY <1>1, <1>2 DEF BucketsInv, Hit, R
      <4>3. \A h \in R : h.at = clock => h.n < Cardinality(R) + 1  BY <1>2, <4>2
      <4>4. /\ hit.at <= clock /\ hit.n < Cardinality(R) + 1
            /\ Cardinality(R) + 1 <= LeadLimit
        BY <1>2, <1>3, <1>4, <1>5
      <4> QED  BY <4>1, <4>2, <4>3, <4>4
    <3> QED  BY <3>2, <3>3
  <2>6. PassedAreHits'
    <3>1. SUFFICES ASSUME NEW w \in Visitor, NEW p \in passed'[w]
                   PROVE  /\ p.epoch <= clears
                          /\ p.epoch = clears => HitOf(p) \in Leads!Recent(LeadKey[w])'
      BY <1>11 DEF PassedAreHits
    <3>2. CASE p \in passed[w]
      <4>1. /\ p.epoch <= clears
            /\ p.epoch = clears => HitOf(p) \in Leads!Recent(LeadKey[w])
        BY <3>1, <3>2 DEF PassedAreHits
      <4>2. Leads!Recent(LeadKey[w]) \subseteq Leads!Recent(LeadKey[w])'
        <5>1. LeadKey[w] \in Leads!Key  BY <3>1 DEF Leads!Key
        <5> QED  BY <2>2, <2>3, <5>1 DEF R
      <4> QED  BY <4>1, <4>2
    <3>3. CASE p = new /\ w = v
      <4>1. Leads!Recent(LeadKey[w])' = R \cup {hit}  BY <2>2, <3>3 DEF k
      <4> QED  BY <1>3, <1>4, <3>3, <4>1
    <3> QED  BY <1>8, <3>1, <3>2, <3>3
  <2>7. HitsAreOwned'
    <3>1. SUFFICES ASSUME NEW j \in Leads!Key, NEW h \in Leads!Recent(j)'
                   PROVE  \E w \in Visitor : /\ LeadKey[w] = j
                                             /\ \E p \in passed'[w] : p.epoch = clears /\ HitOf(p) = h
      BY <1>11 DEF HitsAreOwned
    <3>2. CASE h \in Leads!Recent(j)
      <4>1. PICK w \in Visitor : LeadKey[w] = j /\ \E p \in passed[w] : p.epoch = clears /\ HitOf(p) = h
        BY <3>1, <3>2 DEF HitsAreOwned
      <4>2. passed[w] \subseteq passed'[w]  BY <1>8
      <4> QED  BY <4>1, <4>2
    <3>3. CASE j = k /\ h = hit
      <4>1. LeadKey[v] = j /\ new \in passed'[v]  BY <1>8, <3>3 DEF k
      <4> QED  BY <1>4, <3>3, <4>1
    <3> QED  BY <2>2, <2>3, <3>1, <3>2, <3>3 DEF R
  <2>8. HitsAreSingle'
    <3>1. SUFFICES ASSUME NEW w \in Visitor, NEW u \in Visitor,
                          NEW p \in passed'[w], NEW q \in passed'[u],
                          LeadKey[w] = LeadKey[u], p.epoch = clears, q.epoch = clears,
                          HitOf(p) = HitOf(q)
                   PROVE  w = u
      BY <1>11 DEF HitsAreSingle
    <3>2. CASE p \in passed[w] /\ q \in passed[u]
      BY <3>1, <3>2 DEF HitsAreSingle
    <3>3. CASE w = v /\ p = new /\ q \in passed[u]
      <4>1. HitOf(q) \in Leads!Recent(LeadKey[u])  BY <3>1, <3>3 DEF PassedAreHits
      <4>2. HitOf(q) \in R /\ HitOf(q) = hit  BY <1>4, <3>1, <3>3, <4>1 DEF R, k
      <4> QED  BY <1>6, <4>2
    <3>4. CASE u = v /\ q = new /\ p \in passed[w]
      <4>1. HitOf(p) \in Leads!Recent(LeadKey[w])  BY <3>1, <3>4 DEF PassedAreHits
      <4>2. HitOf(p) \in R /\ HitOf(p) = hit  BY <1>4, <3>1, <3>4, <4>1 DEF R, k
      <4> QED  BY <1>6, <4>2
    <3>5. CASE w = v /\ u = v  BY <3>5
    <3> QED  BY <1>8, <3>1, <3>2, <3>3, <3>4, <3>5
  <2> QED  BY <2>4, <2>5, <2>6, <2>7, <2>8
<1> QED  BY <1>5, <1>10, <1>11

(* Dropping old times changes nothing that counts.                          *)
LEMMA RefuseKeeps ==
  ASSUME LimiterInv, NEW v \in Visitor, Leads!Refuse(v)
  PROVE  LimiterInv'
<1> USE DEF LimiterInv
<1> DEFINE k == LeadKey[v]
<1>1. k \in Leads!Key  BY DEF Leads!Key
<1>2. buckets' = [buckets EXCEPT ![k] = Leads!Recent(k)] /\ UNCHANGED <<clock, passed, clears>>
  BY DEF Leads!Refuse
<1>3. Leads!Recent(k) \in SUBSET buckets[k] /\ Leads!Recent(k) \in SUBSET Hit /\ IsFiniteSet(Leads!Recent(k))
  BY <1>1, RecentFinite
<1> HIDE DEF k
<1>4. /\ buckets' \in [Leads!Key -> SUBSET Hit]
      /\ \A j \in Leads!Key : IsFiniteSet(buckets'[j]) /\ buckets'[j] \subseteq buckets[j]
  BY <1>1, <1>2, <1>3 DEF LimiterType
<1>5. \A j \in Leads!Key : Leads!Recent(j)' = Leads!Recent(j)
  BY <1>1, <1>2 DEF Leads!Recent, LimiterType
<1>6. LimiterType'    BY <1>2, <1>4 DEF LimiterType
<1>7. BucketsInv'     BY <1>2, <1>4, <1>5 DEF BucketsInv
<1>8. PassedAreHits'
  <2>1. \A w \in Visitor : LeadKey[w] \in Leads!Key  BY DEF Leads!Key
  <2> QED  BY <1>2, <1>5, <2>1 DEF PassedAreHits
<1>9. HitsAreOwned'   BY <1>2, <1>5 DEF HitsAreOwned
<1>10. HitsAreSingle' BY <1>2 DEF HitsAreSingle
<1> QED  BY <1>6, <1>7, <1>8, <1>9, <1>10

LEMMA LimiterTickKeeps ==
  ASSUME LimiterInv, Leads!Tick
  PROVE  LimiterInv'
<1> USE DEF LimiterInv
<1>1. /\ clock' = clock + 1 /\ UNCHANGED <<buckets, clears>>
      /\ passed' = [v \in Visitor |-> {p \in passed[v] : clock' - p.at < Window}]
  BY DEF Leads!Tick
<1>2. clock \in Nat /\ Window \in Nat /\ LeadLimit \in Nat  BY LimiterAssumption DEF LimiterType
<1>3. \A v \in Visitor : passed'[v] \in SUBSET passed[v]  BY <1>1
<1>4. LimiterType'
  <2>1. \A v \in Visitor : IsFiniteSet(passed'[v])  BY <1>3, FS_Subset DEF LimiterType
  <2>2. passed' \in [Visitor -> SUBSET PassedHit]  BY <1>1 DEF LimiterType
  <2> QED  BY <1>1, <1>2, <2>1, <2>2 DEF LimiterType
<1>5. ASSUME NEW k \in Leads!Key, NEW h \in buckets[k]
      PROVE  /\ h \in Leads!Recent(k)' <=> clock + 1 - h.at < Window
             /\ h \in Leads!Recent(k)' => h \in Leads!Recent(k)
  <2>1. h.at \in Nat  BY <1>5 DEF LimiterType, Hit
  <2> QED  BY <1>1, <1>2, <1>5, <2>1 DEF Leads!Recent
<1>6. \A k \in Leads!Key : Leads!Recent(k)' \in SUBSET Leads!Recent(k)
  BY <1>1, <1>5 DEF Leads!Recent
<1>7. BucketsInv'
  <2> SUFFICES ASSUME NEW k \in Leads!Key
               PROVE  /\ \A h \in buckets[k] : h.at <= clock + 1 /\ h.at # clock + 1
                      /\ Cardinality(Leads!Recent(k)') <= LeadLimit
    BY <1>1 DEF BucketsInv
  <2>1. \A h \in buckets[k] : h.at <= clock /\ h.at \in Nat  BY DEF BucketsInv, LimiterType, Hit
  <2>2. /\ IsFiniteSet(Leads!Recent(k)) /\ Cardinality(Leads!Recent(k)) \in Nat
        /\ Cardinality(Leads!Recent(k)) <= LeadLimit
    BY RecentFinite DEF BucketsInv
  <2>3. IsFiniteSet(Leads!Recent(k)') /\ Cardinality(Leads!Recent(k)') <= Cardinality(Leads!Recent(k))
    BY <1>6, <2>2, FS_Subset
  <2>4. Cardinality(Leads!Recent(k)') \in Nat  BY <2>3, FS_CardinalityType
  <2>5. Cardinality(Leads!Recent(k)') <= LeadLimit  BY <1>2, <2>2, <2>3, <2>4
  <2> QED  BY <1>2, <2>1, <2>5
<1>8. PassedAreHits'
  <2> SUFFICES ASSUME NEW v \in Visitor, NEW p \in passed'[v]
               PROVE  /\ p.epoch <= clears
                      /\ p.epoch = clears => HitOf(p) \in Leads!Recent(LeadKey[v])'
    BY <1>1 DEF PassedAreHits
  <2>1. p \in passed[v] /\ clock' - p.at < Window /\ clock' = clock + 1  BY <1>1
  <2>2. p.epoch <= clears /\ (p.epoch = clears => HitOf(p) \in Leads!Recent(LeadKey[v]))
    BY <2>1 DEF PassedAreHits
  <2>3. LeadKey[v] \in Leads!Key /\ HitOf(p).at = p.at  BY DEF Leads!Key, HitOf
  <2>4. ASSUME p.epoch = clears PROVE HitOf(p) \in Leads!Recent(LeadKey[v])'
    <3>1. HitOf(p) \in Leads!Recent(LeadKey[v])  BY <2>2, <2>4
    <3>2. HitOf(p) \in buckets[LeadKey[v]]  BY <3>1 DEF Leads!Recent
    <3>3. clock + 1 - HitOf(p).at < Window
      <4>1. p.at \in Nat  BY <2>1 DEF LimiterType, PassedHit
      <4>2. clock + 1 - p.at < Window  BY <1>2, <2>1, <4>1
      <4> QED  BY <2>3, <4>2
    <3> QED  BY <1>5, <2>3, <3>2, <3>3
  <2> QED  BY <2>2, <2>4
<1>9. HitsAreOwned'
  <2> SUFFICES ASSUME NEW k \in Leads!Key, NEW h \in Leads!Recent(k)'
               PROVE  \E v \in Visitor : /\ LeadKey[v] = k
                                         /\ \E p \in passed'[v] : p.epoch = clears /\ HitOf(p) = h
    BY <1>1 DEF HitsAreOwned
  <2>1. h \in buckets[k]  BY <1>1 DEF Leads!Recent
  <2>2. h \in Leads!Recent(k) /\ clock + 1 - h.at < Window  BY <1>5, <2>1
  <2>3. PICK v \in Visitor : LeadKey[v] = k /\ \E p \in passed[v] : p.epoch = clears /\ HitOf(p) = h
    BY <2>2 DEF HitsAreOwned
  <2>4. PICK p \in passed[v] : p.epoch = clears /\ HitOf(p) = h  BY <2>3
  <2>5. p.at = h.at  BY <2>4 DEF HitOf
  <2>6. p \in passed'[v]
    <3>1. clock' = clock + 1  BY <1>1
    <3>2. clock + 1 - p.at < Window  BY <2>2, <2>5
    <3>3. clock' - p.at < Window
      <4>1. p.at \in Nat  BY <2>4 DEF LimiterType, PassedHit
      <4> QED  BY <1>2, <3>1, <3>2, <4>1
    <3>4. passed'[v] = {q \in passed[v] : clock' - q.at < Window}  BY <1>1
    <3> QED  BY <2>4, <3>3, <3>4
  <2> QED  BY <2>3, <2>4, <2>6
<1>10. HitsAreSingle'  BY <1>1, <1>3 DEF HitsAreSingle
<1> QED  BY <1>4, <1>7, <1>8, <1>9, <1>10

LEMMA LimiterHolds == Leads!Spec => []LimiterInv
<1>1. Leads!Init => LimiterInv
  <2> SUFFICES ASSUME Leads!Init PROVE LimiterInv  OBVIOUS
  <2>1. /\ clock = 0 /\ clears = 0 /\ buckets = [k \in Leads!Key |-> {}]
        /\ passed = [v \in Visitor |-> {}]
    BY DEF Leads!Init, Leads!LimiterInit, Leads!NoHits
  <2>2. \A k \in Leads!Key : Leads!Recent(k) = {}  BY <2>1 DEF Leads!Recent
  <2>3. Cardinality({}) = 0 /\ IsFiniteSet({})  BY FS_EmptySet
  <2>4. LimiterType  BY <2>1, <2>3 DEF LimiterType
  <2>5. BucketsInv   BY <2>1, <2>2, <2>3, LimiterAssumption DEF BucketsInv
  <2> QED  BY <2>1, <2>2, <2>4, <2>5 DEF LimiterInv, PassedAreHits, HitsAreOwned, HitsAreSingle
<1>2. LimiterInv /\ [Leads!Next]_Leads!vars => LimiterInv'
  <2> SUFFICES ASSUME LimiterInv, [Leads!Next]_Leads!vars PROVE LimiterInv'  OBVIOUS
  <2>1. ASSUME UNCHANGED Leads!limiterVars PROVE LimiterInv'
    <3> USE DEF LimiterInv
    <3>1. UNCHANGED <<buckets, clock, passed, clears>>  BY <2>1 DEF Leads!limiterVars
    <3>2. \A k : Leads!Recent(k)' = Leads!Recent(k)  BY <3>1 DEF Leads!Recent
    <3>3. LimiterType'    BY <3>1 DEF LimiterType
    <3>4. BucketsInv'     BY <3>1, <3>2 DEF BucketsInv
    <3>5. PassedAreHits'  BY <3>1, <3>2 DEF PassedAreHits
    <3>6. HitsAreOwned'   BY <3>1, <3>2 DEF HitsAreOwned
    <3>7. HitsAreSingle'  BY <3>1 DEF HitsAreSingle
    <3> QED  BY <3>3, <3>4, <3>5, <3>6, <3>7
  <2>2. ASSUME NEW v \in Visitor, Leads!Submit(v) \/ Leads!SubmitInvalid(v) PROVE LimiterInv'
    BY <2>2, LetKeeps DEF Leads!Submit, Leads!SubmitInvalid
  <2>3. ASSUME NEW v \in Visitor, Leads!SubmitRefused(v) PROVE LimiterInv'
    BY <2>3, RefuseKeeps DEF Leads!SubmitRefused
  <2>4. ASSUME NEW url, Leads!SetWebhook(url) PROVE LimiterInv'
    BY <2>1, <2>4 DEF Leads!SetWebhook
  <2>5. CASE Leads!Archive  BY <2>1, <2>5 DEF Leads!Archive
  <2>6. ASSUME NEW i, Leads!DeliveryStep(i) PROVE LimiterInv'
    BY <2>1, <2>6 DEF Leads!DeliveryStep, Leads!PostOk, Leads!PostFails, Leads!Retry, Leads!Delivery
  <2>7. CASE Leads!Crash
    <3>1. buckets' = Leads!NoHits /\ clears' = clears + 1 /\ UNCHANGED <<clock, passed>>
      BY <2>7 DEF Leads!Crash
    <3> QED  BY <3>1, ClearedIsFresh DEF LimiterInv, LimiterType
  <2>8. CASE Leads!Tick  BY <2>8, LimiterTickKeeps
  <2>9. CASE UNCHANGED Leads!vars  BY <2>1, <2>9 DEF Leads!vars
  <2> QED  BY <2>2, <2>3, <2>4, <2>5, <2>6, <2>7, <2>8, <2>9 DEF Leads!Next
<1> QED  BY <1>1, <1>2, PTL DEF Leads!Spec

(* At most Limit requests of one key pass in a window, whatever is taken    *)
(* for a key, but for those forgotten when the map is cleared.              *)
THEOREM WindowIsBounded == Leads!Spec => []Leads!WindowBounded
<1>1. LimiterInv => Leads!WindowBounded
  <2> SUFFICES ASSUME LimiterInv, NEW k \in Leads!Key
               PROVE  Cardinality(Leads!Counted(k)) <= LeadLimit
    BY SameCount DEF Leads!WindowBounded
  <2> USE DEF LimiterInv
  <2> DEFINE f == [x \in Leads!Counted(k) |-> HitOf(x[2])]
  <2>1. ASSUME NEW x \in Leads!Counted(k)
        PROVE  /\ x[1] \in Visitor /\ x[2] \in passed[x[1]] /\ x = <<x[1], x[2]>>
               /\ LeadKey[x[1]] = k /\ x[2].epoch = clears /\ HitOf(x[2]) \in Leads!Recent(k)
    <3>1. /\ x[1] \in Visitor /\ x[2] \in passed[x[1]] /\ x = <<x[1], x[2]>>
          /\ LeadKey[x[1]] = k /\ x[2].epoch = clears
      BY <2>1 DEF Leads!Counted, Leads!Passed
    <3> QED  BY <3>1 DEF PassedAreHits
  <2>2. ASSUME NEW x \in Leads!Counted(k), NEW y \in Leads!Counted(k), HitOf(x[2]) = HitOf(y[2])
        PROVE  x = y
    <3>1. x[1] = y[1]  BY <2>1, <2>2 DEF HitsAreSingle
    <3>2. x[2] \in PassedHit /\ y[2] \in PassedHit  BY <2>1, <2>2 DEF LimiterType
    <3>3. x[2].at = y[2].at /\ x[2].n = y[2].n /\ x[2].epoch = y[2].epoch
      BY <2>1, <2>2 DEF HitOf
    <3>4. x[2] = y[2]  BY <3>2, <3>3 DEF PassedHit
    <3> QED  BY <2>1, <2>2, <3>1, <3>4
  <2>3. f \in Injection(Leads!Counted(k), Leads!Recent(k))
    <3>1. f \in [Leads!Counted(k) -> Leads!Recent(k)]  BY <2>1
    <3>2. \A x \in Leads!Counted(k) : f[x] = HitOf(x[2])  OBVIOUS
    <3> HIDE DEF f
    <3>3. \A x, y \in Leads!Counted(k) : f[x] = f[y] => x = y  BY <2>2, <3>2
    <3> QED  BY <3>1, <3>3 DEF Injection, IsInjective
  <2> HIDE DEF f
  <2>4. Cardinality(Leads!Counted(k)) <= Cardinality(Leads!Recent(k)) /\ IsFiniteSet(Leads!Counted(k))
    BY <2>3, RecentFinite, FS_Injection
  <2>5. Cardinality(Leads!Recent(k)) <= LeadLimit  BY DEF BucketsInv
  <2>6. Cardinality(Leads!Counted(k)) \in Nat  BY <2>4, FS_CardinalityType
  <2> QED  BY <2>4, <2>5, <2>6, RecentFinite, LimiterAssumption
<1> QED  BY <1>1, LimiterHolds, PTL

(* The limit is exact where every visitor has a key of its own: whoever is  *)
(* refused has had its share itself.                                        *)
THEOREM LimiterIsExact ==
  ASSUME \A v, w \in Visitor : LeadKey[v] = LeadKey[w] => v = w
  PROVE  Leads!Spec => []LimitIsExact
<1>1. LimiterInv => Leads!RefusedHasSpent
  <2> SUFFICES ASSUME LimiterInv, NEW v \in Visitor, ~Leads!HasRoom(LeadKey[v])
               PROVE  Cardinality(passed[v]) >= LeadLimit
    BY SameCount DEF Leads!RefusedHasSpent
  <2> USE DEF LimiterInv
  <2> DEFINE k == LeadKey[v]
             T == {HitOf(p) : p \in passed[v]}
             f == [p \in passed[v] |-> HitOf(p)]
  <2>1. k \in Leads!Key  BY DEF Leads!Key
  <2>2. Cardinality(Leads!Recent(k)) >= LeadLimit /\ Cardinality(Leads!Recent(k)) \in Nat
    BY <2>1, RecentFinite, SameCount, LimiterAssumption DEF Leads!HasRoom
  <2>3. Leads!Recent(k) \in SUBSET T
    <3> SUFFICES ASSUME NEW h \in Leads!Recent(k) PROVE h \in T  OBVIOUS
    <3>1. PICK w \in Visitor : LeadKey[w] = k /\ \E p \in passed[w] : p.epoch = clears /\ HitOf(p) = h
      BY <2>1 DEF HitsAreOwned
    <3>2. w = v  BY <3>1
    <3> QED  BY <3>1, <3>2
  <2>4. f \in Surjection(passed[v], T)  BY DEF Surjection
  <2>5. IsFiniteSet(passed[v])  BY DEF LimiterType
  <2> HIDE DEF f, T, k
  <2>6. IsFiniteSet(T) /\ Cardinality(T) <= Cardinality(passed[v])
    BY <2>4, <2>5, FS_Surjection
  <2>7. Cardinality(Leads!Recent(k)) <= Cardinality(T)  BY <2>3, <2>6, FS_Subset
  <2>8. Cardinality(passed[v]) \in Nat /\ Cardinality(T) \in Nat  BY <2>5, <2>6, FS_CardinalityType
  <2> QED  BY <2>2, <2>6, <2>7, <2>8, LimiterAssumption
<1>2. Leads!WindowBounded /\ Leads!RefusedHasSpent => LimitIsExact
  BY DEF LimitIsExact, Leads!LimitIsExact
<1> QED  BY <1>1, <1>2, LimiterHolds, WindowIsBounded, PTL

=============================================================================
