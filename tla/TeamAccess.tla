---------------------------- MODULE TeamAccess ------------------------------
(***************************************************************************)
(* UsersController and AuthService: who is a member of the team with which *)
(* role, and the tokens that carry a role for a while.  A request is one   *)
(* activation; the database runs each statement of its transaction at READ *)
(* COMMITTED, so two transactions interleave between any two statements.   *)
(* A user is a row of `users`, by id; passwords and e-mail addresses are   *)
(* left out.                                                               *)
(***************************************************************************)
EXTENDS Integers, FiniteSets

CONSTANTS
  User,       \* the ids rows of `users` can have
  Founder,    \* the administrator of a new installation
  Request,    \* slots for the requests alive at one time
  AccessTTL,  \* life of an access token: '1h'
  RefreshTTL, \* life of a refresh token: '7d'
  MaxTime     \* bound: the clock

ASSUME UserAssumption    == Founder \in User /\ IsFiniteSet(User)
ASSUME TimeAssumption    == AccessTTL \in Nat \ {0} /\ RefreshTTL \in Nat /\ MaxTime \in Nat

VARIABLES
  role,      \* users.role; "new" before the row exists, "gone" after it
  req,       \* the requests
  access,    \* access tokens still valid
  refresh,   \* refresh tokens still valid
  clock,
  lastAdmin  \* when each user was last an administrator (history)

vars == <<role, req, access, refresh, clock, lastAdmin>>

-----------------------------------------------------------------------------
Role    == {"admin", "builder", "viewer"}
Row     == Role \cup {"new", "gone"}
Access  == [user : User, role : Role, exp : Nat]
Renewal == [user : User, exp : Nat]
ReqRecord == [op : {"none", "update", "remove", "login"}, pc : {"idle", "count", "write", "issue"},
              target : User, role : Role]

IdleReq == [op |-> "none", pc |-> "idle", target |-> Founder, role |-> "viewer"]

Exists(u) == role[u] \in Role
Admins    == {u \in User : role[u] = "admin"}
At(r, pc) == req[r].pc = pc
Is(r, op) == req[r].op = op
Free(r)   == req[r].pc = "idle"
End(r)    == req' = [req EXCEPT ![r] = IdleReq]

(* The role a member request leaves its target with. *)
Outcome(r) == IF Is(r, "remove") THEN "gone" ELSE req[r].role

Init ==
  /\ role = [u \in User |-> IF u = Founder THEN "admin" ELSE "new"]
  /\ req = [r \in Request |-> IdleReq]
  /\ access = {} /\ refresh = {}
  /\ clock = 0
  /\ lastAdmin = [u \in User |-> 0]

SetRole(u, ro) ==
  /\ role' = [role EXCEPT ![u] = ro]
  /\ lastAdmin' = [lastAdmin EXCEPT ![u] = IF "admin" \in {role[u], ro} THEN clock ELSE @]

-----------------------------------------------------------------------------
(* Members.  requireAdmin looks at the role inside the caller's token.      *)

IsAdmin(tok) == tok.role = "admin"

(* POST /users *)
Create(tok, u, ro) ==
  /\ IsAdmin(tok)
  /\ role[u] = "new"
  /\ SetRole(u, ro)
  /\ UNCHANGED <<req, access, refresh, clock>>

(* A request that takes the role away from an administrator. *)
NeedsCount(op, ro, u) == role[u] = "admin" /\ (op = "update" => ro # "admin")

(* PATCH and DELETE /users/:id, up to the first read; nobody deletes        *)
(* himself.                                                                *)
Begin(r, tok, op, u, ro) ==
  /\ Free(r)
  /\ IsAdmin(tok)
  /\ op = "remove" => u # tok.user
  /\ Exists(u)
  /\ req' = [req EXCEPT ![r] = [op |-> op, target |-> u, role |-> ro,
                                pc |-> IF NeedsCount(op, ro, u) THEN "count" ELSE "write"]]
  /\ UNCHANGED <<role, access, refresh, clock, lastAdmin>>

AssertNotLastAdmin(r) ==
  /\ At(r, "count")
  /\ IF Cardinality(Admins) <= 1 THEN End(r) ELSE req' = [req EXCEPT ![r].pc = "write"]
  /\ UNCHANGED <<role, access, refresh, clock, lastAdmin>>

(* user.update or user.delete: a row that has gone meanwhile is an error. *)
Write(r) ==
  /\ At(r, "write")
  /\ IF Exists(req[r].target) THEN SetRole(req[r].target, Outcome(r))
                              ELSE UNCHANGED <<role, lastAdmin>>
  /\ End(r)
  /\ UNCHANGED <<access, refresh, clock>>

(* The request fails; its transaction is rolled back. *)
Abort(r) ==
  /\ ~Free(r)
  /\ End(r)
  /\ UNCHANGED <<role, access, refresh, clock, lastAdmin>>

-----------------------------------------------------------------------------
(* Tokens *)

(* login, or refresh with a token that is still valid, reads the row ... *)
StartLogin(r, u) ==
  /\ Free(r)
  /\ Exists(u)
  /\ req' = [req EXCEPT ![r] = [op |-> "login", pc |-> "issue", target |-> u, role |-> role[u]]]
  /\ UNCHANGED <<role, access, refresh, clock, lastAdmin>>

Login(r, u)     == StartLogin(r, u)
Refresh(r, tok) == StartLogin(r, tok.user)

(* Slip: the access token is given the life of the refresh token. *)
IssueLong(r) ==
  /\ At(r, "issue")
  /\ access'  = access \cup {[user |-> req[r].target, role |-> req[r].role, exp |-> clock + RefreshTTL]}
  /\ refresh' = refresh \cup {[user |-> req[r].target, exp |-> clock + RefreshTTL]}
  /\ End(r)
  /\ UNCHANGED <<role, clock, lastAdmin>>

(* ... and signs the role it read into a new pair. *)
IssueTokens(r) ==
  /\ At(r, "issue")
  /\ access'  = access \cup {[user |-> req[r].target, role |-> req[r].role, exp |-> clock + AccessTTL]}
  /\ refresh' = refresh \cup {[user |-> req[r].target, exp |-> clock + RefreshTTL]}
  /\ End(r)
  /\ UNCHANGED <<role, clock, lastAdmin>>

(* The clock's unit is long against a request, so a pair is signed in the   *)
(* unit in which the row was read.  Tokens past their time are refused by   *)
(* verifyAsync, so they are dropped here.                                  *)
Tick ==
  /\ clock < MaxTime
  /\ \A r \in Request : ~At(r, "issue")
  /\ clock' = clock + 1
  /\ access'  = {tok \in access : tok.exp > clock'}
  /\ refresh' = {tok \in refresh : tok.exp > clock'}
  /\ lastAdmin' = [u \in User |-> IF role[u] = "admin" THEN clock' ELSE lastAdmin[u]]
  /\ UNCHANGED <<role, req>>

-----------------------------------------------------------------------------
Next ==
  \/ \E r \in Request :
       \/ AssertNotLastAdmin(r) \/ Write(r) \/ Abort(r) \/ IssueTokens(r)
       \/ \E u \in User : Login(r, u)
       \/ \E tok \in refresh : Refresh(r, tok)
       \/ \E tok \in access, op \in {"update", "remove"}, u \in User, ro \in Role :
            Begin(r, tok, op, u, ro)
  \/ \E tok \in access, u \in User, ro \in Role : Create(tok, u, ro)
  \/ Tick

Spec == Init /\ [][Next]_vars

-----------------------------------------------------------------------------
(* Properties *)

TypeOK ==
  /\ role \in [User -> Row]
  /\ req \in [Request -> ReqRecord]
  /\ access \subseteq Access
  /\ refresh \subseteq Renewal
  /\ clock \in Nat
  /\ lastAdmin \in [User -> Nat]

(* "The last admin is protected": an installation never loses its last      *)
(* administrator, who alone could make another one.                        *)
AdminRemains == Admins # {}

(* A demoted or removed administrator's token keeps its power for at most   *)
(* the life of an access token, however often it was refreshed.            *)
AdminPowerExpires ==
  \A tok \in access : IsAdmin(tok) => clock < lastAdmin[tok.user] + AccessTTL

=============================================================================
