------------------------- MODULE TeamAccessProofs ---------------------------
(***************************************************************************)
(* Two theorems about TeamAccess, for any number of users and any clock.   *)
(* AdminRemains holds as long as one member request runs at a time: what   *)
(* the count found is still so when the request writes.  (With two, TLC    *)
(* shows that it fails.)  AdminPowerExpires holds however many run.        *)
(***************************************************************************)
EXTENDS TeamAccess, FiniteSetTheorems, TLAPS

(* Who is an administrator was one just now; so was whoever is about to be  *)
(* signed in as one; and a token was signed at most its life ago.          *)
PowerInv ==
  /\ TypeOK
  /\ \A u \in User : lastAdmin[u] <= clock
  /\ \A u \in User : role[u] = "admin" => lastAdmin[u] = clock
  /\ \A r \in Request : At(r, "issue") /\ req[r].role = "admin"
                          => lastAdmin[req[r].target] = clock
  /\ \A tok \in access : /\ tok.exp > clock
                         /\ IsAdmin(tok) => tok.exp <= lastAdmin[tok.user] + AccessTTL

LEMMA IdleType == IdleReq \in ReqRecord
BY UserAssumption DEF IdleReq, ReqRecord, Role

(* A step that leaves the members, the tokens and the clock alone and puts  *)
(* v into a slot, v being signed in as an administrator only if it is one.  *)
LEMMA PowerSlot ==
  ASSUME PowerInv, NEW r \in Request, NEW v \in ReqRecord, req' = [req EXCEPT ![r] = v],
         UNCHANGED <<role, access, refresh, clock, lastAdmin>>,
         v.pc = "issue" /\ v.role = "admin" => lastAdmin[v.target] = clock
  PROVE  PowerInv'
BY DEF PowerInv, TypeOK, At

LEMMA PowerSetRole ==
  ASSUME PowerInv, NEW u \in User, NEW ro \in Row, SetRole(u, ro),
         req' \in [Request -> ReqRecord],
         \A r \in Request : req'[r] = req[r] \/ req'[r] = IdleReq,
         UNCHANGED <<access, refresh, clock>>
  PROVE  PowerInv'
<1>1. /\ role' = [role EXCEPT ![u] = ro]
      /\ lastAdmin' = [lastAdmin EXCEPT ![u] = IF "admin" \in {role[u], ro} THEN clock ELSE @]
  BY DEF SetRole
<1>2. /\ TypeOK' /\ \A w \in User : lastAdmin[w] <= lastAdmin'[w] /\ lastAdmin'[w] <= clock
  BY <1>1 DEF PowerInv, TypeOK
<1>3. \A w \in User : role'[w] = "admin" => lastAdmin'[w] = clock
  BY <1>1 DEF PowerInv, TypeOK
<1>4. \A w \in User : lastAdmin[w] = clock => lastAdmin'[w] = clock
  BY <1>1 DEF PowerInv, TypeOK
<1>5. ASSUME NEW r \in Request, At(r, "issue")', req'[r].role = "admin"
      PROVE  lastAdmin'[req'[r].target] = clock
  <2>1. req'[r] = req[r]  BY <1>5 DEF At, IdleReq
  <2>2. req[r].target \in User  BY DEF PowerInv, TypeOK, ReqRecord
  <2> QED  BY <1>4, <1>5, <2>1, <2>2 DEF PowerInv, At
<1>6. ASSUME NEW tok \in access, IsAdmin(tok)
      PROVE  tok.exp <= lastAdmin'[tok.user] + AccessTTL
  <2>1. tok.user \in User /\ tok.exp \in Nat  BY DEF PowerInv, TypeOK, Access
  <2>2. lastAdmin[tok.user] \in Nat /\ lastAdmin'[tok.user] \in Nat
    BY <1>2, <2>1 DEF PowerInv, TypeOK
  <2> QED  BY <1>2, <1>6, <2>1, <2>2, TimeAssumption DEF PowerInv
<1> QED  BY <1>2, <1>3, <1>5, <1>6 DEF PowerInv, IsAdmin

LEMMA PowerIssue ==
  ASSUME PowerInv, NEW r \in Request, IssueTokens(r)
  PROVE  PowerInv'
<1> DEFINE tok == [user |-> req[r].target, role |-> req[r].role, exp |-> clock + AccessTTL]
           ren == [user |-> req[r].target, exp |-> clock + RefreshTTL]
<1>1. /\ access' = access \cup {tok} /\ refresh' = refresh \cup {ren}
      /\ req' = [req EXCEPT ![r] = IdleReq] /\ UNCHANGED <<role, clock, lastAdmin>>
      /\ At(r, "issue")
  BY DEF IssueTokens, End
<1>2. req[r].target \in User /\ req[r].role \in Role  BY DEF PowerInv, TypeOK, ReqRecord
<1>3. tok \in Access /\ ren \in Renewal
  BY <1>2, TimeAssumption DEF PowerInv, TypeOK, Access, Renewal
<1>4. TypeOK'  BY <1>1, <1>3, IdleType DEF PowerInv, TypeOK
<1>5. tok.exp > clock /\ (IsAdmin(tok) => tok.exp <= lastAdmin[tok.user] + AccessTTL)
  BY <1>1, <1>2, TimeAssumption DEF PowerInv, TypeOK, IsAdmin
<1> QED  BY <1>1, <1>4, <1>5 DEF PowerInv, TypeOK, At, IdleReq, IsAdmin

LEMMA PowerTick ==
  ASSUME PowerInv, Tick
  PROVE  PowerInv'
<1>1. /\ clock' = clock + 1 /\ role' = role /\ req' = req
      /\ access' = {tok \in access : tok.exp > clock'}
      /\ refresh' = {tok \in refresh : tok.exp > clock'}
      /\ lastAdmin' = [u \in User |-> IF role[u] = "admin" THEN clock' ELSE lastAdmin[u]]
      /\ \A r \in Request : ~At(r, "issue")
  BY DEF Tick
<1>2. TypeOK'  BY <1>1 DEF PowerInv, TypeOK
<1>3. \A u \in User : /\ lastAdmin'[u] <= clock' /\ lastAdmin[u] <= lastAdmin'[u]
                      /\ role'[u] = "admin" => lastAdmin'[u] = clock'
  BY <1>1 DEF PowerInv, TypeOK
<1>4. ASSUME NEW tok \in access', IsAdmin(tok)
      PROVE  tok.exp <= lastAdmin'[tok.user] + AccessTTL
  <2>1. tok \in access /\ tok.user \in User /\ tok.exp \in Nat
    BY <1>1 DEF PowerInv, TypeOK, Access
  <2>2. lastAdmin[tok.user] \in Nat /\ lastAdmin'[tok.user] \in Nat
    BY <1>2, <2>1 DEF PowerInv, TypeOK
  <2> QED  BY <1>3, <1>4, <2>1, <2>2, TimeAssumption DEF PowerInv
<1>5. \A tok \in access' : tok.exp > clock'  BY <1>1
<1>6. \A r \in Request : ~At(r, "issue")'  BY <1>1 DEF At
<1> QED  BY <1>2, <1>3, <1>4, <1>5, <1>6 DEF PowerInv, IsAdmin

LEMMA PowerStep == PowerInv /\ [Next]_vars => PowerInv'
<1> SUFFICES ASSUME PowerInv, [Next]_vars PROVE PowerInv'  OBVIOUS
<1>1. CASE UNCHANGED vars  BY <1>1 DEF vars, PowerInv, TypeOK, At, IsAdmin
<1>2. ASSUME NEW r \in Request, End(r), UNCHANGED <<role, access, refresh, clock, lastAdmin>>
      PROVE  PowerInv'
  BY <1>2, PowerSlot, IdleType DEF End, IdleReq
<1>3. ASSUME NEW r \in Request, AssertNotLastAdmin(r) PROVE PowerInv'
  <2>1. CASE End(r)  BY <1>2, <1>3, <2>1 DEF AssertNotLastAdmin
  <2>2. CASE req' = [req EXCEPT ![r].pc = "write"]
    <3> DEFINE v == [op |-> req[r].op, pc |-> "write", target |-> req[r].target, role |-> req[r].role]
    <3>1. req[r] = [op |-> req[r].op, pc |-> req[r].pc, target |-> req[r].target, role |-> req[r].role]
      BY DEF PowerInv, TypeOK, ReqRecord
    <3>2. [req[r] EXCEPT !.pc = "write"] = v  BY <3>1
    <3>3. req' = [req EXCEPT ![r] = v]  BY <2>2, <3>2
    <3>4. v \in ReqRecord  BY DEF PowerInv, TypeOK, ReqRecord
    <3> QED  BY <1>3, <3>3, <3>4, PowerSlot DEF AssertNotLastAdmin
  <2> QED  BY <1>3, <2>1, <2>2 DEF AssertNotLastAdmin
<1>4. ASSUME NEW r \in Request, Write(r) PROVE PowerInv'
  <2>1. CASE UNCHANGED <<role, lastAdmin>>  BY <1>2, <1>4, <2>1 DEF Write
  <2>2. CASE SetRole(req[r].target, Outcome(r))
    <3>1. req[r].target \in User /\ Outcome(r) \in Row
      BY DEF PowerInv, TypeOK, ReqRecord, Outcome, Row
    <3>2. req' \in [Request -> ReqRecord] /\ \A s \in Request : req'[s] = req[s] \/ req'[s] = IdleReq
      BY <1>4, IdleType DEF Write, End, PowerInv, TypeOK
    <3> QED  BY <1>4, <2>2, <3>1, <3>2, PowerSetRole DEF Write
  <2> QED  BY <1>4, <2>1, <2>2 DEF Write
<1>5. ASSUME NEW r \in Request, NEW u \in User, StartLogin(r, u) PROVE PowerInv'
  <2> DEFINE v == [op |-> "login", pc |-> "issue", target |-> u, role |-> role[u]]
  <2>1. v \in ReqRecord  BY <1>5 DEF StartLogin, Exists, ReqRecord
  <2>2. v.role = "admin" => lastAdmin[v.target] = clock  BY DEF PowerInv
  <2> QED  BY <1>5, <2>1, <2>2, PowerSlot DEF StartLogin
<1>6. ASSUME NEW r \in Request, NEW tok \in refresh, Refresh(r, tok) PROVE PowerInv'
  <2>1. tok.user \in User  BY DEF PowerInv, TypeOK, Renewal
  <2> QED  BY <1>5, <1>6, <2>1 DEF Refresh
<1>7. ASSUME NEW r \in Request, NEW tok \in access, NEW op \in {"update", "remove"},
             NEW u \in User, NEW ro \in Role, Begin(r, tok, op, u, ro)
      PROVE  PowerInv'
  <2> DEFINE v == [op |-> op, target |-> u, role |-> ro,
                   pc |-> IF NeedsCount(op, ro, u) THEN "count" ELSE "write"]
  <2>1. v \in ReqRecord /\ v.pc # "issue"  BY DEF ReqRecord
  <2> QED  BY <1>7, <2>1, PowerSlot DEF Begin
<1>8. ASSUME NEW tok \in access, NEW u \in User, NEW ro \in Role, Create(tok, u, ro)
      PROVE  PowerInv'
  <2>1. ro \in Row /\ req' \in [Request -> ReqRecord] /\ \A s \in Request : req'[s] = req[s]
    BY <1>8 DEF Create, Row, PowerInv, TypeOK
  <2> QED  BY <1>8, <2>1, PowerSetRole DEF Create
<1>9. ASSUME NEW r \in Request, Abort(r) PROVE PowerInv'  BY <1>2, <1>9 DEF Abort
<1>10. ASSUME NEW r \in Request, NEW u \in User, Login(r, u) PROVE PowerInv'
  BY <1>5, <1>10 DEF Login
<1> QED  BY <1>1, <1>3, <1>4, <1>6, <1>7, <1>8, <1>9, <1>10, PowerIssue, PowerTick DEF Next

LEMMA PowerInvariant == Spec => []PowerInv
<1>1. Init => PowerInv
  BY UserAssumption, IdleType
     DEF Init, PowerInv, TypeOK, At, IdleReq, Row, Role, IsAdmin
<1> QED  BY <1>1, PowerStep, PTL DEF Spec

(* A token signed for an administrator is refused at the latest AccessTTL   *)
(* after its user last was one, whatever was refreshed in between.         *)
THEOREM AdminPowerDoesExpire == Spec => []AdminPowerExpires
<1>1. PowerInv => AdminPowerExpires
  <2> SUFFICES ASSUME PowerInv, NEW tok \in access, IsAdmin(tok)
               PROVE  clock < lastAdmin[tok.user] + AccessTTL
    BY DEF AdminPowerExpires
  <2>1. tok.user \in User /\ tok.exp \in Nat  BY DEF PowerInv, TypeOK, Access
  <2>2. lastAdmin[tok.user] \in Nat /\ clock \in Nat  BY <2>1 DEF PowerInv, TypeOK
  <2> QED  BY <2>1, <2>2, TimeAssumption DEF PowerInv
<1> QED  BY <1>1, PowerInvariant, PTL

-----------------------------------------------------------------------------
Types ==
  /\ role \in [User -> Row]
  /\ req \in [Request -> ReqRecord]

(* A request about to write leaves an administrator behind. *)
Covered(r) ==
  \/ role[req[r].target] # "admin"
  \/ Outcome(r) = "admin"
  \/ \E u \in User : u # req[r].target /\ role[u] = "admin"

AdminInv ==
  /\ Types
  /\ AdminRemains
  /\ \A r \in Request : req[r].pc \in {"count", "write"} => role[req[r].target] # "new"
  /\ \A r \in Request : At(r, "write") => Covered(r)

OneAtATime == \A r, s \in Request : r = s

LEMMA ReqType ==
  ASSUME Types, NEW r \in Request
  PROVE  /\ req[r].target \in User /\ req[r].role \in Role /\ req[r] \in ReqRecord
         /\ Outcome(r) \in Row
BY DEF Types, ReqRecord, Outcome, Row

(* Of two administrators one is not the target. *)
LEMMA AnotherAdmin ==
  ASSUME NEW u \in User, ~(Cardinality(Admins) <= 1)
  PROVE  \E v \in User : v # u /\ role[v] = "admin"
<1>1. SUFFICES ASSUME \A v \in User : role[v] = "admin" => v = u PROVE FALSE  OBVIOUS
<1>2. Admins \in SUBSET {u}  BY <1>1 DEF Admins
<1>3. IsFiniteSet({u}) /\ Cardinality({u}) = 1  BY FS_Singleton
<1>4. IsFiniteSet(Admins) /\ Cardinality(Admins) <= 1  BY <1>2, <1>3, FS_Subset
<1> QED  BY <1>4

(* Going on to write keeps everything of a request but its place. *)
LEMMA GoOn ==
  ASSUME Types, NEW r \in Request, req' = [req EXCEPT ![r].pc = "write"]
  PROVE  /\ req' \in [Request -> ReqRecord]
         /\ req'[r].pc = "write" /\ req'[r].op = req[r].op
         /\ req'[r].target = req[r].target /\ req'[r].role = req[r].role
<1> DEFINE v == [op |-> req[r].op, pc |-> "write", target |-> req[r].target, role |-> req[r].role]
<1>1. req[r] = [op |-> req[r].op, pc |-> req[r].pc, target |-> req[r].target, role |-> req[r].role]
  BY DEF Types, ReqRecord
<1>2. [req[r] EXCEPT !.pc = "write"] = v  BY <1>1
<1>3. req' = [req EXCEPT ![r] = v]  BY <1>2
<1>4. v \in ReqRecord  BY DEF Types, ReqRecord
<1> QED  BY <1>3, <1>4 DEF Types

(* Only one slot exists, so a step of it decides the whole of req'. *)
LEMMA EndStep ==
  ASSUME AdminInv, NEW r \in Request, End(r), UNCHANGED role
  PROVE  AdminInv'
<1>1. req' \in [Request -> ReqRecord]  BY IdleType DEF End, AdminInv, Types
<1>2. req'[r] = IdleReq /\ \A s \in Request : s # r => req'[s] = req[s]
  BY DEF End, AdminInv, Types
<1> QED  BY <1>1, <1>2 DEF AdminInv, Types, AdminRemains, Admins, At, Covered, Outcome, Is, IdleReq

LEMMA CreateStep ==
  ASSUME AdminInv, NEW tok, NEW u \in User, NEW ro \in Role, Create(tok, u, ro)
  PROVE  AdminInv'
<1>1. role[u] = "new" /\ role' = [role EXCEPT ![u] = ro] /\ req' = req
  BY DEF Create, SetRole
<1>2. role' \in [User -> Row] /\ \A v \in User : v # u => role'[v] = role[v]
  BY <1>1 DEF AdminInv, Types, Row
<1>3. AdminRemains'  BY <1>1, <1>2 DEF AdminInv, AdminRemains, Admins
<1>4. \A r \in Request : req[r].pc \in {"count", "write"} => u # req[r].target
  BY <1>1 DEF AdminInv
<1>5. ASSUME NEW r \in Request, At(r, "write") PROVE Covered(r)'
  <2>1. Covered(r) /\ u # req[r].target /\ req[r].target \in User
    BY <1>4, <1>5, ReqType DEF AdminInv, At
  <2> QED  BY <1>1, <1>2, <2>1 DEF Covered, Outcome, Is, AdminInv
<1> QED  BY <1>1, <1>2, <1>3, <1>4, <1>5, ReqType DEF AdminInv, Types, At

LEMMA BeginStep ==
  ASSUME AdminInv, NEW r \in Request, NEW tok, NEW op \in {"update", "remove"},
         NEW u \in User, NEW ro \in Role, Begin(r, tok, op, u, ro)
  PROVE  AdminInv'
<1> DEFINE v == [op |-> op, target |-> u, role |-> ro,
                 pc |-> IF NeedsCount(op, ro, u) THEN "count" ELSE "write"]
<1>1. role' = role /\ req' = [req EXCEPT ![r] = v] /\ role[u] # "new"
  BY DEF Begin, Exists, Role
<1>2. v \in ReqRecord  BY DEF ReqRecord
<1>3. req' \in [Request -> ReqRecord] /\ req'[r] = v /\ \A s \in Request : s # r => req'[s] = req[s]
  BY <1>1, <1>2 DEF AdminInv, Types
<1>4. v.pc = "write" => role[u] # "admin" \/ (op = "update" /\ ro = "admin")
  BY DEF NeedsCount
<1>5. At(r, "write")' => Covered(r)'
  BY <1>1, <1>3, <1>4 DEF At, Covered, Outcome, Is
<1>6. ASSUME NEW s \in Request, s # r, At(s, "write")' PROVE Covered(s)'
  BY <1>1, <1>3, <1>6 DEF At, Covered, Outcome, Is, AdminInv
<1> QED  BY <1>1, <1>3, <1>5, <1>6 DEF AdminInv, Types, AdminRemains, Admins

LEMMA CountStep ==
  ASSUME AdminInv, NEW r \in Request, AssertNotLastAdmin(r)
  PROVE  AdminInv'
<1>1. CASE End(r)  BY <1>1, EndStep DEF AssertNotLastAdmin
<1>2. CASE ~(Cardinality(Admins) <= 1) /\ req' = [req EXCEPT ![r].pc = "write"]
  <2>1. /\ req' \in [Request -> ReqRecord]
        /\ req'[r].target = req[r].target
        /\ \A s \in Request : s # r => req'[s] = req[s]
    BY <1>2, GoOn DEF AdminInv, Types
  <2>2. \E w \in User : w # req[r].target /\ role[w] = "admin"
    BY <1>2, AnotherAdmin, ReqType DEF AdminInv
  <2>3. role' = role /\ req[r].pc = "count"  BY DEF AssertNotLastAdmin, At
  <2>4. Covered(r)'  BY <2>1, <2>2, <2>3 DEF Covered
  <2>5. ASSUME NEW s \in Request, s # r, At(s, "write")' PROVE Covered(s)'
    BY <2>1, <2>3, <2>5 DEF At, Covered, Outcome, Is, AdminInv
  <2> QED  BY <2>1, <2>3, <2>4, <2>5 DEF AdminInv, Types, AdminRemains, Admins, At
<1> QED  BY <1>1, <1>2 DEF AssertNotLastAdmin

(* The one step that takes an administrator away.                           *)
LEMMA WriteStep ==
  ASSUME AdminInv, OneAtATime, NEW r \in Request, Write(r)
  PROVE  AdminInv'
<1>1. CASE UNCHANGED role  BY <1>1, EndStep DEF Write
<1>2. CASE SetRole(req[r].target, Outcome(r))
  <2> DEFINE u == req[r].target
  <2>1. u \in User /\ Outcome(r) \in Row  BY ReqType DEF AdminInv
  <2>2. role' = [role EXCEPT ![u] = Outcome(r)]  BY <1>2 DEF SetRole
  <2>3. role' \in [User -> Row]  BY <2>1, <2>2 DEF AdminInv, Types
  <2>4. Covered(r)  BY DEF AdminInv, Write
  <2>5. AdminRemains'
    BY <2>1, <2>2, <2>4 DEF Covered, AdminRemains, Admins, AdminInv, Types
  <2>6. req' \in [Request -> ReqRecord] /\ req'[r] = IdleReq
    BY IdleType DEF Write, End, AdminInv, Types
  <2>7. \A s \in Request : req'[s] = IdleReq  BY <2>6 DEF OneAtATime
  <2> QED  BY <2>3, <2>5, <2>6, <2>7 DEF AdminInv, Types, At, IdleReq
<1> QED  BY <1>1, <1>2 DEF Write

LEMMA LoginStep ==
  ASSUME AdminInv, NEW r \in Request, NEW u \in User, StartLogin(r, u)
  PROVE  AdminInv'
<1> DEFINE v == [op |-> "login", pc |-> "issue", target |-> u, role |-> role[u]]
<1>1. role' = role /\ req' = [req EXCEPT ![r] = v] /\ v \in ReqRecord
  BY DEF StartLogin, Exists, ReqRecord
<1>2. req' \in [Request -> ReqRecord] /\ req'[r] = v /\ \A s \in Request : s # r => req'[s] = req[s]
  BY <1>1 DEF AdminInv, Types
<1> QED  BY <1>1, <1>2 DEF AdminInv, Types, At, Covered, Outcome, Is, AdminRemains, Admins

(* An installation keeps an administrator if member requests run one at a   *)
(* time.                                                                   *)
THEOREM LastAdminProtected ==
  ASSUME OneAtATime
  PROVE  Spec => []AdminRemains
<1>1. Init => AdminInv
  BY UserAssumption, IdleType
     DEF Init, AdminInv, Types, AdminRemains, Admins, At, IdleReq, Row, Role
<1>2. PowerInv /\ AdminInv /\ [Next]_vars => AdminInv'
  <2> SUFFICES ASSUME PowerInv, AdminInv, [Next]_vars PROVE AdminInv'  OBVIOUS
  <2>1. CASE UNCHANGED vars
    BY <2>1 DEF vars, AdminInv, Types, AdminRemains, Admins, At, Covered, Outcome, Is
  <2>2. ASSUME NEW r \in Request, AssertNotLastAdmin(r) PROVE AdminInv'  BY <2>2, CountStep
  <2>3. ASSUME NEW r \in Request, Write(r) PROVE AdminInv'  BY <2>3, WriteStep
  <2>4. ASSUME NEW r \in Request, Abort(r) PROVE AdminInv'  BY <2>4, EndStep DEF Abort
  <2>5. ASSUME NEW r \in Request, IssueTokens(r) PROVE AdminInv'
    BY <2>5, EndStep DEF IssueTokens
  <2>6. ASSUME NEW r \in Request, NEW u \in User, Login(r, u) PROVE AdminInv'
    BY <2>6, LoginStep DEF Login
  <2>7. ASSUME NEW r \in Request, NEW tok \in refresh, Refresh(r, tok) PROVE AdminInv'
    <3>1. tok.user \in User  BY DEF PowerInv, TypeOK, Renewal
    <3> QED  BY <2>7, <3>1, LoginStep DEF Refresh
  <2>8. ASSUME NEW r \in Request, NEW tok \in access, NEW op \in {"update", "remove"},
               NEW u \in User, NEW ro \in Role, Begin(r, tok, op, u, ro)
        PROVE  AdminInv'
    BY <2>8, BeginStep
  <2>9. ASSUME NEW tok \in access, NEW u \in User, NEW ro \in Role, Create(tok, u, ro)
        PROVE  AdminInv'
    BY <2>9, CreateStep
  <2>10. CASE Tick
    BY <2>10 DEF Tick, AdminInv, Types, AdminRemains, Admins, At, Covered, Outcome, Is
  <2> QED  BY <2>1, <2>2, <2>3, <2>4, <2>5, <2>6, <2>7, <2>8, <2>9, <2>10 DEF Next
<1>3. AdminInv => AdminRemains  BY DEF AdminInv
<1> QED  BY <1>1, <1>2, <1>3, PowerInvariant, PTL DEF Spec

=============================================================================
