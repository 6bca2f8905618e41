--------------------------- MODULE ServerRegistry ---------------------------
(***************************************************************************)
(* ServersService: the rows of `servers`, and the operations that read a   *)
(* row, talk to the machine for seconds or minutes, and write the row:     *)
(* connection test, re-pinning the host key, rotating the credential, base *)
(* provisioning, removal.  Nothing keeps two of them apart, so each works  *)
(* with the row as it was when it started.  An operation is an activation; *)
(* an action is the code between two awaits that the others can tell apart.*)
(***************************************************************************)
EXTENDS Integers, ServerState

CONSTANTS
  Key,        \* SSH host keys
  Cred,       \* SSH credentials
  Steps,      \* how many commands base provisioning runs
  MaxChanges, \* bound: reinstallations and changes of the login of the machines
  MaxCrashes  \* bound: crashes of the panel

VARIABLES
  machine, \* the machines: the host key each presents, the credential it accepts
  changes  \* bound

vars == <<row, machine, op, vetted, changes, crashes>>

-----------------------------------------------------------------------------
Status   == {"pending", "connected", "provisioning_base", "ready", "unreachable", "error"}
Presence == {"new", "stored", "removed"}
Pin      == Key \cup {NoKey}
Row      == [there : Presence, status : Status, base : BOOLEAN, pin : Pin, cred : Cred]
Machine  == [key : Key, accepts : Cred]

Kind == {"none", "test", "repin", "provision"}
PC   == {"idle", "read", "connect", "write", "mark", "step", "finish", "error", "unreachable"}
OpRecord == [kind : Kind, server : Server, pc : PC, base : BOOLEAN, pin : Pin, cred : Cred,
             status : Status, step : Nat]

IdleOp == [kind |-> "none", server |-> CHOOSE s \in Server : TRUE, pc |-> "idle", base |-> FALSE,
           pin |-> NoKey, cred |-> CHOOSE c \in Cred : TRUE, status |-> "pending", step |-> 0]

At(o, kind, pc) == op[o].kind = kind /\ op[o].pc = pc
End(o) == op' = [op EXCEPT ![o] = IdleOp]
Goto(o, pc) == op' = [op EXCEPT ![o].pc = pc]

Init ==
  /\ row \in [Server -> {r \in Row : r.there = "new" /\ r.status = "pending" /\ ~r.base
                                     /\ r.pin = NoKey}]
  /\ machine \in [Server -> Machine]
  /\ op = [o \in Op |-> IdleOp]
  /\ vetted = [s \in Server |-> {}]
  /\ changes = 0 /\ crashes = 0

-----------------------------------------------------------------------------
(* Operations of one transaction *)

Begin(o, s, kind) ==
  op' = [op EXCEPT ![o] = [IdleOp EXCEPT !.kind = kind, !.server = s, !.pc = "read"]]

(* create stores the row and tests the connection at once. *)
Create(o, s, c) ==
  /\ op[o].pc = "idle"
  /\ row[s].there = "new"
  /\ row' = [row EXCEPT ![s].there = "stored", ![s].cred = c]
  /\ Begin(o, s, "test")
  /\ UNCHANGED <<machine, vetted, changes, crashes>>

(* A request for one of the long operations. *)
RequestOp(o, s, kind) ==
  /\ op[o].pc = "idle"
  /\ Begin(o, s, kind)
  /\ UNCHANGED <<row, machine, vetted, changes, crashes>>

Rotate(s, c) ==
  /\ Stored(s)
  /\ row' = [row EXCEPT ![s].cred = c]
  /\ UNCHANGED <<machine, op, vetted, changes, crashes>>

(* The row and its credential; refused by the database while sites use it. *)
Remove(s) ==
  /\ Stored(s)
  /\ row' = [row EXCEPT ![s].there = "removed"]
  /\ UNCHANGED <<machine, op, vetted, changes, crashes>>

-----------------------------------------------------------------------------
(* The long operations: what they read ... *)

Read(o) ==
  /\ op[o].pc = "read"
  /\ LET s == op[o].server IN
     IF Stored(s)
       THEN op' = [op EXCEPT ![o].base = row[s].base, ![o].pin = row[s].pin,
                             ![o].cred = row[s].cred,
                             ![o].pc = IF op[o].kind = "provision" THEN "mark" ELSE "connect"]
       ELSE End(o)
  /\ UNCHANGED <<row, machine, vetted, changes, crashes>>

(* openSession: the machine's key must be the pinned one, unless the pin is *)
(* ignored or there is none, and the credential must be accepted.          *)
Host(o)       == machine[op[o].server]
KeyMatches(o) == op[o].kind = "repin" \/ op[o].pin \in {NoKey, Host(o).key}
Opens(o)      == KeyMatches(o) /\ op[o].cred = Host(o).accepts

Vet(o) == vetted' = [vetted EXCEPT ![op[o].server] = @ \cup {Host(o).key}]

(* What a connection test will write: a status and a host key, the key it   *)
(* read unless a session was opened.                                       *)
Result(o, st, key) == op' = [op EXCEPT ![o].status = st, ![o].pin = key, ![o].pc = "write"]

(* Slip: the observed key is kept as soon as the host has shown it. *)
TestConnectKeepsObserved(o) ==
  /\ At(o, "test", "connect")
  /\ \/ Opens(o) /\ Vet(o) /\ \E st \in {"connected", "unreachable"} : Result(o, st, Host(o).key)
     \/ ~KeyMatches(o) /\ Result(o, "error", op[o].pin) /\ vetted' = vetted
     \/ KeyMatches(o) /\ Result(o, "unreachable", Host(o).key) /\ vetted' = vetted
  /\ UNCHANGED <<row, machine, changes, crashes>>

(* Connected and probed; connected only; another key than the pinned one;   *)
(* not reached or refused.                                                 *)
TestConnect(o) ==
  /\ At(o, "test", "connect")
  /\ \/ Opens(o) /\ Vet(o) /\ \E st \in {"connected", "unreachable"} : Result(o, st, Host(o).key)
     \/ ~KeyMatches(o) /\ Result(o, "error", op[o].pin) /\ vetted' = vetted
     \/ Result(o, "unreachable", op[o].pin) /\ vetted' = vetted
  /\ UNCHANGED <<row, machine, changes, crashes>>

(* A re-pin that cannot log in ends with an error and changes nothing. *)
RepinConnect(o) ==
  /\ At(o, "repin", "connect")
  /\ \/ Opens(o) /\ Vet(o) /\ Result(o, "connected", Host(o).key)
     \/ End(o) /\ vetted' = vetted
  /\ UNCHANGED <<row, machine, changes, crashes>>

(* Slip: the status is 'ready' whenever the machine was reached. *)
WriteResultReady(o) ==
  /\ op[o].pc = "write"
  /\ LET s == op[o].server IN
     row' = IF Stored(s)
              THEN [row EXCEPT ![s].pin = op[o].pin,
                               ![s].status = IF op[o].status = "connected" THEN "ready" ELSE op[o].status]
              ELSE row
  /\ End(o)
  /\ UNCHANGED <<machine, vetted, changes, crashes>>

(* ... and what they write: 'ready' for a server that was provisioned when  *)
(* the operation read it.  A row removed meanwhile is an error.            *)
WriteResult(o) ==
  /\ op[o].pc = "write"
  /\ LET s == op[o].server IN
     row' = IF Stored(s)
              THEN [row EXCEPT ![s].pin = op[o].pin,
                               ![s].status = IF op[o].base /\ op[o].status = "connected"
                                             THEN "ready" ELSE op[o].status]
              ELSE row
  /\ End(o)
  /\ UNCHANGED <<machine, vetted, changes, crashes>>

-----------------------------------------------------------------------------
(* provisionBase, a generator that the request consumes to its end *)

SetStatus(o, st) ==
  LET s == op[o].server IN
  row' = IF Stored(s) THEN [row EXCEPT ![s].status = st] ELSE row

Mark(o) ==
  /\ At(o, "provision", "mark")
  /\ SetStatus(o, "provisioning_base")
  /\ IF Stored(op[o].server) THEN Goto(o, "connect") ELSE End(o)
  /\ UNCHANGED <<machine, vetted, changes, crashes>>

ProvisionConnect(o) ==
  /\ At(o, "provision", "connect")
  /\ \/ Opens(o) /\ Vet(o) /\ op' = [op EXCEPT ![o].pc = "step", ![o].step = 1]
     \/ Goto(o, "unreachable") /\ vetted' = vetted
  /\ UNCHANGED <<row, machine, changes, crashes>>

(* A command succeeds, or fails, or its event cannot be stored because the  *)
(* row is gone.                                                            *)
RunStep(o) ==
  /\ At(o, "provision", "step")
  /\ \/ op[o].step < Steps /\ op' = [op EXCEPT ![o].step = @ + 1]
     \/ op[o].step = Steps /\ Goto(o, "finish")
     \/ Goto(o, "error")
     \/ ~Stored(op[o].server) /\ End(o)
  /\ UNCHANGED <<row, machine, vetted, changes, crashes>>

Fail(o) ==
  /\ op[o].kind = "provision" /\ op[o].pc \in {"error", "unreachable"}
  /\ SetStatus(o, op[o].pc)
  /\ End(o)
  /\ UNCHANGED <<machine, vetted, changes, crashes>>

Finish(o) ==
  /\ At(o, "provision", "finish")
  /\ LET s == op[o].server IN
     row' = IF Stored(s) THEN [row EXCEPT ![s].base = TRUE, ![s].status = "ready"] ELSE row
  /\ End(o)
  /\ UNCHANGED <<machine, vetted, changes, crashes>>

-----------------------------------------------------------------------------
(* The machine is reinstalled, or its login is changed. *)
Change(s) ==
  /\ changes < MaxChanges
  /\ changes' = changes + 1
  /\ \/ \E k \in Key  : machine' = [machine EXCEPT ![s].key = k]
     \/ \E c \in Cred : machine' = [machine EXCEPT ![s].accepts = c]
  /\ UNCHANGED <<row, op, vetted, crashes>>

Crash ==
  /\ crashes < MaxCrashes
  /\ crashes' = crashes + 1
  /\ op' = [o \in Op |-> IdleOp]
  /\ UNCHANGED <<row, machine, vetted, changes>>

OpStep(o) ==
  \/ Read(o) \/ TestConnect(o) \/ RepinConnect(o) \/ WriteResult(o)
  \/ Mark(o) \/ ProvisionConnect(o) \/ RunStep(o) \/ Fail(o) \/ Finish(o)

Next ==
  \/ \E o \in Op : OpStep(o)
  \/ \E o \in Op, s \in Server :
       \/ \E c \in Cred : Create(o, s, c)
       \/ \E kind \in {"test", "repin", "provision"} : RequestOp(o, s, kind)
  \/ \E s \in Server :
       \/ \E c \in Cred : Rotate(s, c)
       \/ Remove(s)
       \/ Change(s)
  \/ Crash

Spec == Init /\ [][Next]_vars

-----------------------------------------------------------------------------
(* Types; the other properties are in ServerState *)

TypeOK ==
  /\ row \in [Server -> Row]
  /\ machine \in [Server -> Machine]
  /\ op \in [Op -> OpRecord]
  /\ vetted \in [Server -> SUBSET Key]
  /\ changes \in 0..MaxChanges /\ crashes \in 0..MaxCrashes
=============================================================================
