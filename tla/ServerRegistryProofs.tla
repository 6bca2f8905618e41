------------------------ MODULE ServerRegistryProofs -------------------------
(***************************************************************************)
(* For any servers, any number of operations under way on them, any number *)
(* of commands, reinstallations and crashes: what a row says of a server   *)
(* is true, and its pin was vetted.                                        *)
(***************************************************************************)
EXTENDS ServerRegistry, TLAPS

OpShape == [kind : Kind, server : Server \cup {IdleOp.server}, pc : PC, base : BOOLEAN, pin : Pin,
            cred : Cred \cup {IdleOp.cred}, status : Status, step : Nat]

ShapeInv ==
  /\ row \in [Server -> Row]
  /\ machine \in [Server -> Machine]
  /\ vetted \in [Server -> SUBSET Key]
  /\ op \in [Op -> OpShape]
  /\ crashes \in Nat

RowOK(r, keys) ==
  /\ r.there = "new" => r.status = "pending"
  /\ r.status = "ready" => r.base
  /\ r.pin \in keys \cup {NoKey}

(* What an operation carries of its server is still true of the row, or was *)
(* vetted; what a test or a re-pin will write says nothing of provisioning. *)
OpOK(r, rows, keys) ==
  /\ r.pc = "idle" => r.kind = "none"
  /\ r.pc # "idle" => /\ r.server \in Server
                      /\ r.base => rows[r.server].base
                      /\ r.pin \in keys[r.server] \cup {NoKey}
  /\ r.pc = "write" => /\ r.kind # "provision"
                       /\ r.status \in {"connected", "unreachable", "error"}

RowsInv == \A s \in Server : RowOK(row[s], vetted[s])
OpsInv  == \A o \in Op : OpOK(op[o], row, vetted)

IInv == ShapeInv /\ RowsInv /\ OpsInv /\ ProvisioningHasRun

(* Servers are never provisioned less, nor keys vetted less, than before. *)
Grows ==
  \A s \in Server : (row[s].base => row'[s].base) /\ vetted[s] \subseteq vetted'[s]

Marked(r) == r.there = "stored" /\ r.status = "provisioning_base"

-----------------------------------------------------------------------------
LEMMA IdleShape == IdleOp \in OpShape /\ IdleOp.pc = "idle" /\ IdleOp.kind = "none"
BY DEF IdleOp, OpShape, Kind, PC, Pin, Status

LEMMA InitInv == Init => IInv
<1> SUFFICES ASSUME Init PROVE IInv
  OBVIOUS
<1>1. ShapeInv
  BY IdleShape DEF Init, ShapeInv
<1>2. RowsInv
  BY DEF Init, RowsInv, RowOK
<1>3. OpsInv
  BY IdleShape DEF Init, OpsInv, OpOK
<1>4. ProvisioningHasRun
  BY DEF Init, ProvisioningHasRun, Stored
<1> QED BY <1>1, <1>2, <1>3, <1>4 DEF IInv

(* What is true of an operation stays true while rows and keys grow. *)
LEMMA OpKept ==
  ASSUME ShapeInv, Grows, NEW r, OpOK(r, row, vetted)
  PROVE  OpOK(r, row', vetted')
BY DEF ShapeInv, Grows, OpOK

(* One operation moves to the record r, and its server's row may change.    *)
LEMMA OpMoves ==
  ASSUME IInv, NEW o \in Op, NEW r \in OpShape,
         op' = [op EXCEPT ![o] = r], OpOK(r, row', vetted'),
         row' \in [Server -> Row], vetted' \in [Server -> SUBSET Key], Grows,
         \A s \in Server : RowOK(row'[s], vetted'[s]),
         \A s \in Server : Marked(row'[s]) =>
           \/ r.kind = "provision" /\ r.server = s
           \/ Marked(row[s]) /\ ~(op[o].kind = "provision" /\ op[o].server = s),
         UNCHANGED <<machine, crashes>>
  PROVE  IInv'
<1>1. ShapeInv'
  BY DEF IInv, ShapeInv
<1>2. RowsInv'
  BY DEF RowsInv
<1>3. \A q \in Op : op'[q] = IF q = o THEN r ELSE op[q]
  BY DEF IInv, ShapeInv
<1>4. OpsInv'
  <2> SUFFICES ASSUME NEW q \in Op PROVE OpOK(op'[q], row', vetted')
    BY DEF OpsInv, OpOK
  <2>1. CASE q = o
    BY <1>3, <2>1
  <2>2. CASE q # o
    <3>1. OpOK(op[q], row, vetted) /\ op'[q] = op[q]
      BY <1>3, <2>2 DEF IInv, OpsInv
    <3> QED BY <3>1, OpKept DEF IInv
  <2> QED BY <2>1, <2>2
<1>5. ProvisioningHasRun'
  <2> SUFFICES ASSUME crashes' = 0, NEW s \in Server, Marked(row'[s])
               PROVE  \E q \in Op : op'[q].kind = "provision" /\ op'[q].server = s
    BY DEF ProvisioningHasRun, Stored, Marked
  <2>1. CASE r.kind = "provision" /\ r.server = s
    BY <1>3, <2>1
  <2>2. CASE Marked(row[s]) /\ ~(op[o].kind = "provision" /\ op[o].server = s)
    <3>1. PICK q \in Op : op[q].kind = "provision" /\ op[q].server = s
      BY <2>2 DEF IInv, ProvisioningHasRun, Stored, Marked
    <3>2. q # o
      BY <2>2, <3>1
    <3> QED BY <1>3, <3>1, <3>2
  <2> QED BY <2>1, <2>2
<1> QED BY <1>1, <1>2, <1>4, <1>5 DEF IInv

(* A row changes and no operation does. *)
LEMMA RowMoves ==
  ASSUME IInv, row' \in [Server -> Row], Grows, UNCHANGED <<op, vetted, crashes>>,
         machine' \in [Server -> Machine],
         \A s \in Server : RowOK(row'[s], vetted[s]),
         \A s \in Server : Marked(row'[s]) => Marked(row[s])
  PROVE  IInv'
<1>1. ShapeInv' /\ RowsInv'
  BY DEF IInv, ShapeInv, RowsInv
<1>2. OpsInv'
  BY OpKept DEF IInv, OpsInv
<1>3. ProvisioningHasRun'
  BY DEF IInv, ProvisioningHasRun, Stored, Marked
<1> QED BY <1>1, <1>2, <1>3 DEF IInv

(* An operation moves, and nothing else changes but what is vetted. *)
LEMMA OpOnly ==
  ASSUME IInv, NEW o \in Op, NEW r \in OpShape,
         op' = [op EXCEPT ![o] = r], OpOK(r, row, vetted'),
         vetted' \in [Server -> SUBSET Key],
         \A s \in Server : vetted[s] \subseteq vetted'[s],
         \/ r.kind = op[o].kind /\ r.server = op[o].server
         \/ op[o].kind # "provision"
         \/ op[o].server \notin Server \/ ~Stored(op[o].server),
         UNCHANGED <<row, machine, crashes>>
  PROVE  IInv'
<1>1. Grows
  BY DEF Grows
<1>2. \A s \in Server : RowOK(row'[s], vetted'[s])
  BY DEF IInv, RowsInv, RowOK
<1>3. OpOK(r, row', vetted')
  OBVIOUS
<1>4. row' \in [Server -> Row]
  BY DEF IInv, ShapeInv
<1>5. \A s \in Server : Marked(row'[s]) =>
        \/ r.kind = "provision" /\ r.server = s
        \/ Marked(row[s]) /\ ~(op[o].kind = "provision" /\ op[o].server = s)
  BY DEF Marked, Stored
<1> QED BY <1>1, <1>2, <1>3, <1>4, <1>5, OpMoves

-----------------------------------------------------------------------------
LEMMA StepInv == IInv /\ [Next]_vars => IInv'
<1> SUFFICES ASSUME IInv, [Next]_vars PROVE IInv'
  OBVIOUS
<1>0. ShapeInv /\ RowsInv /\ OpsInv
  BY DEF IInv
<1>a. \A o \in Op : op[o] \in OpShape /\ OpOK(op[o], row, vetted)
  BY <1>0 DEF ShapeInv, OpsInv
<1>b. \A s \in Server : row[s] \in Row /\ vetted[s] \subseteq Key /\ RowOK(row[s], vetted[s])
  BY <1>0 DEF ShapeInv, RowsInv
<1>c. \A s \in Server : machine[s] \in Machine
  BY <1>0 DEF ShapeInv
(* Beginning an operation *)
<1>1. ASSUME NEW o \in Op, NEW s \in Server, NEW kind \in Kind, op[o].pc = "idle"
      PROVE  LET r == [IdleOp EXCEPT !.kind = kind, !.server = s, !.pc = "read"]
             IN  /\ r \in OpShape /\ r.kind = kind /\ r.server = s
                 /\ OpOK(r, row, vetted) /\ op[o].kind = "none"
  BY <1>1, <1>a DEF IdleOp, OpShape, Kind, PC, Pin, Status, OpOK
<1>2. ASSUME NEW o \in Op, NEW s \in Server, NEW kind \in {"test", "repin", "provision"},
             RequestOp(o, s, kind)
      PROVE  IInv'
  <2> DEFINE r == [IdleOp EXCEPT !.kind = kind, !.server = s, !.pc = "read"]
  <2>1. r \in OpShape /\ OpOK(r, row, vetted) /\ op[o].kind # "provision"
    BY <1>1, <1>2 DEF RequestOp, Kind
  <2>2. op' = [op EXCEPT ![o] = r] /\ UNCHANGED <<row, machine, vetted, crashes>>
    BY <1>2 DEF RequestOp, Begin
  <2> HIDE DEF r
  <2> QED BY <1>0, <2>1, <2>2, OpOnly DEF ShapeInv
<1>3. ASSUME NEW o \in Op, NEW s \in Server, NEW c \in Cred, Create(o, s, c)
      PROVE  IInv'
  <2> DEFINE r == [IdleOp EXCEPT !.kind = "test", !.server = s, !.pc = "read"]
             x == [row[s] EXCEPT !.there = "stored", !.cred = c]
  <2>1. r \in OpShape /\ OpOK(r, row, vetted) /\ op[o].kind # "provision"
    BY <1>1, <1>3 DEF Create, Kind
  <2>2. op' = [op EXCEPT ![o] = r] /\ UNCHANGED <<machine, vetted, crashes>>
    BY <1>3 DEF Create, Begin
  <2>3. row' = [row EXCEPT ![s] = x]
    BY <1>0, <1>3 DEF Create, ShapeInv
  <2>4. x \in Row /\ x.base = row[s].base /\ RowOK(x, vetted[s]) /\ ~Marked(x)
    BY <1>3, <1>b DEF Create, Row, Presence, RowOK, Marked
  <2> HIDE DEF r, x
  <2>5. row' \in [Server -> Row] /\ \A u \in Server : row'[u] = IF u = s THEN x ELSE row[u]
    BY <1>0, <2>3, <2>4 DEF ShapeInv
  <2>6. Grows
    BY <2>2, <2>4, <2>5 DEF Grows
  <2>7. OpOK(r, row', vetted')
    BY <1>0, <2>1, <2>6, OpKept
  <2>8. \A u \in Server : RowOK(row'[u], vetted'[u])
    BY <1>b, <2>2, <2>4, <2>5
  <2>9. \A u \in Server : Marked(row'[u]) =>
          Marked(row[u]) /\ ~(op[o].kind = "provision" /\ op[o].server = u)
    BY <2>1, <2>4, <2>5
  <2> QED BY <1>0, <2>1, <2>2, <2>5, <2>6, <2>7, <2>8, <2>9, OpMoves DEF ShapeInv
<1>4. ASSUME NEW s \in Server, NEW c \in Cred, Rotate(s, c)
      PROVE  IInv'
  <2>1. row' \in [Server -> Row] /\ Grows
    BY <1>0, <1>4 DEF Rotate, ShapeInv, Row, Grows
  <2>2. \A u \in Server : RowOK(row'[u], vetted[u]) /\ (Marked(row'[u]) => Marked(row[u]))
    BY <1>0, <1>4, <1>b DEF Rotate, ShapeInv, Row, RowOK, Marked
  <2> QED BY <1>0, <1>4, <2>1, <2>2, RowMoves DEF Rotate, ShapeInv
<1>5. ASSUME NEW s \in Server, Remove(s)
      PROVE  IInv'
  <2>1. row' \in [Server -> Row] /\ Grows
    BY <1>0, <1>5 DEF Remove, ShapeInv, Row, Presence, Grows
  <2>2. \A u \in Server : RowOK(row'[u], vetted[u]) /\ (Marked(row'[u]) => Marked(row[u]))
    BY <1>0, <1>5, <1>b DEF Remove, ShapeInv, Row, RowOK, Marked
  <2> QED BY <1>0, <1>5, <2>1, <2>2, RowMoves DEF Remove, ShapeInv
<1>6. ASSUME NEW s \in Server, Change(s)
      PROVE  IInv'
  <2>1. machine' \in [Server -> Machine]
    BY <1>0, <1>6 DEF Change, ShapeInv, Machine
  <2>2. UNCHANGED <<row, op, vetted, crashes>> /\ Grows /\ row' \in [Server -> Row]
    BY <1>0, <1>6 DEF Change, Grows, ShapeInv
  <2> QED BY <1>b, <2>1, <2>2, RowMoves
<1>7. ASSUME Crash
      PROVE  IInv'
  <2>1. ShapeInv' /\ RowsInv' /\ OpsInv'
    BY <1>0, <1>7, IdleShape DEF Crash, ShapeInv, RowsInv, OpsInv, OpOK
  <2>2. crashes' # 0
    BY <1>0, <1>7 DEF Crash, ShapeInv
  <2> QED BY <2>1, <2>2 DEF IInv, ProvisioningHasRun
(* The steps of an operation *)
<1>8. ASSUME NEW o \in Op, OpStep(o)
      PROVE  IInv'
  <2> DEFINE s == op[o].server
  <2>0. op[o] \in OpShape /\ OpOK(op[o], row, vetted)
    BY <1>a
  <2>a. op[o].pc # "idle" => s \in Server
    BY <2>0 DEF OpOK
  <2>b. op \in [Op -> OpShape] /\ vetted \in [Server -> SUBSET Key] /\ row \in [Server -> Row]
    BY <1>0 DEF ShapeInv
  <2>e. OpOK(IdleOp, row, vetted) /\ IdleOp \in OpShape
    BY IdleShape DEF OpOK
  (* An operation that ends without writing, its row being gone or the      *)
  (* operation not a provisioning.                                         *)
  <2>c. ASSUME End(o), op[o].kind # "provision" \/ (s \in Server /\ ~Stored(s)),
               UNCHANGED <<row, machine, vetted, crashes>>
        PROVE  IInv'
    BY <2>b, <2>c, <2>e, OpOnly DEF End
  (* An operation that moves on, carrying what it did. *)
  <2>d. ASSUME NEW pc \in PC, pc \notin {"idle", "write"}, op[o].pc # "idle", NEW n \in Nat,
               op' = [op EXCEPT ![o].pc = pc, ![o].step = n],
               UNCHANGED <<row, machine, crashes>>,
               vetted' \in [Server -> SUBSET Key],
               \A u \in Server : vetted[u] \subseteq vetted'[u]
        PROVE  IInv'
    <3> DEFINE r == [op[o] EXCEPT !.pc = pc, !.step = n]
    <3>1. /\ r \in OpShape /\ r.kind = op[o].kind /\ r.server = op[o].server
          /\ OpOK(r, row, vetted')
      BY <2>0, <2>b, <2>d DEF OpShape, OpOK
    <3>2. op' = [op EXCEPT ![o] = r]
      BY <2>b, <2>d
    <3> HIDE DEF r
    <3> QED BY <2>d, <3>1, <3>2, OpOnly
  (* Logging in vets the key. *)
  <2>v. ASSUME Vet(o), s \in Server
        PROVE  /\ vetted' \in [Server -> SUBSET Key]
               /\ \A u \in Server : vetted[u] \subseteq vetted'[u]
               /\ Host(o).key \in vetted'[s]
               /\ Host(o).key \in Pin
    BY <1>c, <2>b, <2>v DEF Vet, Host, Machine, Pin
  (* What a connection test or a re-pin will write. *)
  <2>w. ASSUME op[o].kind # "provision", op[o].pc # "idle",
               NEW st \in {"connected", "unreachable", "error"}, NEW key \in Pin,
               Result(o, st, key), UNCHANGED <<row, machine, crashes>>,
               vetted' \in [Server -> SUBSET Key],
               \A u \in Server : vetted[u] \subseteq vetted'[u],
               key \in vetted'[s] \cup {NoKey}
        PROVE  IInv'
    <3> DEFINE r == [op[o] EXCEPT !.status = st, !.pin = key, !.pc = "write"]
    <3>1. /\ r \in OpShape /\ r.kind = op[o].kind /\ r.server = op[o].server
          /\ OpOK(r, row, vetted')
      BY <2>0, <2>b, <2>w DEF OpShape, OpOK, Status, PC
    <3>2. op' = [op EXCEPT ![o] = r]
      BY <2>b, <2>w DEF Result
    <3> HIDE DEF r
    <3> QED BY <2>w, <3>1, <3>2, OpOnly
  (* A row is written, by an operation that ends or goes on. *)
  <2>x. ASSUME NEW x \in Row, NEW r \in OpShape, s \in Server, Stored(s),
               row' = [row EXCEPT ![s] = x], op' = [op EXCEPT ![o] = r],
               RowOK(x, vetted[s]), row[s].base => x.base,
               OpOK(r, row, vetted),
               Marked(x) => r.kind = "provision" /\ r.server = s,
               UNCHANGED <<machine, vetted, crashes>>
        PROVE  IInv'
    <3>1. row' \in [Server -> Row] /\ \A u \in Server : row'[u] = IF u = s THEN x ELSE row[u]
      BY <2>b, <2>x
    <3>2. Grows
      BY <2>x, <3>1 DEF Grows
    <3>3. OpOK(r, row', vetted')
      BY <1>0, <2>x, <3>2, OpKept
    <3>4. \A u \in Server : RowOK(row'[u], vetted'[u])
      BY <1>b, <2>x, <3>1
    <3>5. \A u \in Server : Marked(row'[u]) =>
            \/ r.kind = "provision" /\ r.server = u
            \/ Marked(row[u]) /\ ~(op[o].kind = "provision" /\ op[o].server = u)
      BY <2>x, <3>1
    <3> QED BY <2>b, <2>x, <3>1, <3>2, <3>3, <3>4, <3>5, OpMoves
  (* A row is written last. *)
  <2>y. ASSUME NEW x \in Row, s \in Server, Stored(s), ~Marked(x),
               row' = [row EXCEPT ![s] = x], End(o),
               RowOK(x, vetted[s]), row[s].base => x.base,
               UNCHANGED <<machine, vetted, crashes>>
        PROVE  IInv'
    <3> DEFINE r == IdleOp
    <3>1. r \in OpShape /\ OpOK(r, row, vetted) /\ op' = [op EXCEPT ![o] = r]
      BY <2>e, <2>y DEF End
    <3> HIDE DEF r
    <3> QED BY <2>x, <2>y, <3>1
  <2>1. CASE Read(o)
    <3>1. CASE Stored(s)
      <4> DEFINE pc == IF op[o].kind = "provision" THEN "mark" ELSE "connect"
                 r == [op[o] EXCEPT !.base = row[s].base, !.pin = row[s].pin,
                                    !.cred = row[s].cred, !.pc = pc]
      <4>1. s \in Server
        BY <2>1, <2>a DEF Read
      <4>2. /\ r \in OpShape /\ r.kind = op[o].kind /\ r.server = op[o].server
            /\ r.pc = pc /\ r.base = row[s].base /\ r.pin = row[s].pin
        BY <1>b, <2>0, <4>1 DEF OpShape, Row, PC
      <4>3. OpOK(r, row, vetted)
        BY <1>b, <4>1, <4>2 DEF OpOK, RowOK
      <4>4. op' = [op EXCEPT ![o] = r] /\ UNCHANGED <<row, machine, vetted, crashes>>
        BY <2>1, <2>b, <3>1 DEF Read
      <4> HIDE DEF r
      <4> QED BY <2>b, <4>2, <4>3, <4>4, OpOnly
    <3>2. CASE ~Stored(s)
      BY <2>1, <2>a, <2>c, <3>2 DEF Read
    <3> QED BY <3>1, <3>2
  <2>2. CASE TestConnect(o)
    <3>1. op[o].kind # "provision" /\ op[o].pc # "idle" /\ s \in Server
      BY <2>2, <2>a DEF TestConnect, At
    <3>2. op[o].pin \in vetted[s] \cup {NoKey} /\ op[o].pin \in Pin
      BY <2>0, <3>1 DEF OpOK, OpShape
    <3>3. CASE Opens(o) /\ Vet(o) /\ \E st \in {"connected", "unreachable"} : Result(o, st, Host(o).key)
      <4>1. PICK st \in {"connected", "unreachable"} : Result(o, st, Host(o).key)
        BY <3>3
      <4> QED BY <2>2, <2>v, <2>w, <3>1, <3>3, <4>1 DEF TestConnect
    <3>4. CASE vetted' = vetted /\ \E st \in {"error", "unreachable"} : Result(o, st, op[o].pin)
      <4>1. PICK st \in {"error", "unreachable"} : Result(o, st, op[o].pin)
        BY <3>4
      <4> QED BY <2>2, <2>b, <2>w, <3>1, <3>2, <3>4, <4>1 DEF TestConnect
    <3> QED BY <2>2, <3>3, <3>4 DEF TestConnect
  <2>3. CASE RepinConnect(o)
    <3>1. op[o].kind # "provision" /\ op[o].pc # "idle" /\ s \in Server
      BY <2>3, <2>a DEF RepinConnect, At
    <3>2. CASE Opens(o) /\ Vet(o) /\ Result(o, "connected", Host(o).key)
      BY <2>3, <2>v, <2>w, <3>1, <3>2 DEF RepinConnect
    <3>3. CASE End(o) /\ vetted' = vetted
      BY <2>3, <2>c, <3>1, <3>3 DEF RepinConnect
    <3> QED BY <2>3, <3>2, <3>3 DEF RepinConnect
  <2>4. CASE WriteResult(o)
    <3>1. /\ op[o].kind # "provision" /\ op[o].pc # "idle" /\ s \in Server
          /\ op[o].status \in {"connected", "unreachable", "error"}
          /\ op[o].base => row[s].base
          /\ op[o].pin \in vetted[s] \cup {NoKey} /\ op[o].pin \in Pin
      BY <2>0, <2>4 DEF WriteResult, OpOK, OpShape
    <3>2. CASE Stored(s)
      <4> DEFINE st == IF op[o].base /\ op[o].status = "connected" THEN "ready" ELSE op[o].status
                 x  == [row[s] EXCEPT !.pin = op[o].pin, !.status = st]
      <4>1. st \in Status /\ st # "provisioning_base" /\ (st = "ready" => row[s].base)
        BY <3>1 DEF Status
      <4>2. row' = [row EXCEPT ![s] = x] /\ End(o)
        BY <2>4, <2>b, <3>1, <3>2 DEF WriteResult
      <4> HIDE DEF st
      <4>3. x \in Row /\ x.base = row[s].base /\ RowOK(x, vetted[s]) /\ ~Marked(x)
        BY <1>b, <3>1, <3>2, <4>1 DEF Row, RowOK, Marked, Stored
      <4> HIDE DEF x
      <4>4. UNCHANGED <<machine, vetted, crashes>>
        BY <2>4 DEF WriteResult
      <4> QED BY <2>y, <3>1, <3>2, <4>2, <4>3, <4>4
    <3>3. CASE ~Stored(s)
      BY <2>4, <2>c, <3>1, <3>3 DEF WriteResult
    <3> QED BY <3>2, <3>3
  <2>5. CASE Mark(o)
    <3>1. op[o].kind = "provision" /\ op[o].pc = "mark" /\ s \in Server
      BY <2>5, <2>a DEF Mark, At
    <3>2. CASE Stored(s)
      <4> DEFINE x == [row[s] EXCEPT !.status = "provisioning_base"]
                 r == [op[o] EXCEPT !.pc = "connect"]
      <4>1. row' = [row EXCEPT ![s] = x] /\ op' = [op EXCEPT ![o] = r]
        BY <2>5, <2>b, <3>1, <3>2 DEF Mark, SetStatus, Goto
      <4>2. x \in Row /\ x.base = row[s].base /\ RowOK(x, vetted[s])
        BY <1>b, <3>1, <3>2 DEF Row, Status, RowOK, Stored
      <4>3. r \in OpShape /\ r.kind = "provision" /\ r.server = s /\ OpOK(r, row, vetted)
        BY <2>0, <3>1 DEF OpShape, OpOK, PC
      <4> HIDE DEF x, r
      <4> QED BY <2>5, <2>x, <3>1, <3>2, <4>1, <4>2, <4>3 DEF Mark
    <3>3. CASE ~Stored(s)
      BY <2>5, <2>c, <3>1, <3>3 DEF Mark, SetStatus
    <3> QED BY <3>2, <3>3
  <2>6. CASE ProvisionConnect(o)
    <3>1. op[o].pc # "idle" /\ s \in Server /\ op[o].step \in Nat
      BY <2>0, <2>6, <2>a DEF ProvisionConnect, At, OpShape
    <3>2. CASE Vet(o) /\ op' = [op EXCEPT ![o].pc = "step", ![o].step = 1]
      BY <2>6, <2>d, <2>v, <3>1, <3>2 DEF ProvisionConnect, PC
    <3>3. CASE Goto(o, "unreachable") /\ vetted' = vetted
      <4>1. op' = [op EXCEPT ![o].pc = "unreachable", ![o].step = op[o].step]
        BY <2>b, <3>3 DEF Goto, OpShape
      <4> QED BY <2>6, <2>b, <2>d, <3>1, <3>3, <4>1 DEF ProvisionConnect, PC
    <3> QED BY <2>6, <3>2, <3>3 DEF ProvisionConnect
  <2>7. CASE RunStep(o)
    <3>1. op[o].pc = "step" /\ s \in Server /\ op[o].step \in Nat
      BY <2>0, <2>7, <2>a DEF RunStep, At, OpShape
    <3>2. CASE op' = [op EXCEPT ![o].step = @ + 1]
      <4>1. op' = [op EXCEPT ![o].pc = "step", ![o].step = op[o].step + 1]
        BY <2>b, <3>1, <3>2 DEF OpShape
      <4>2. /\ UNCHANGED <<row, machine, vetted, crashes>> /\ op[o].step + 1 \in Nat
            /\ "step" \in PC \ {"idle", "write"}
        BY <2>7, <3>1 DEF RunStep, PC
      <4> QED BY <2>b, <2>d, <3>1, <4>1, <4>2
    <3>3. ASSUME NEW pc \in {"finish", "error"}, Goto(o, pc)
          PROVE  IInv'
      <4>1. op' = [op EXCEPT ![o].pc = pc, ![o].step = op[o].step]
        BY <2>b, <3>3 DEF Goto, OpShape
      <4> QED BY <2>7, <2>b, <2>d, <3>1, <4>1 DEF RunStep, PC
    <3>4. CASE ~Stored(s) /\ End(o)
      BY <2>7, <2>c, <3>1, <3>4 DEF RunStep
    <3> QED BY <2>7, <3>2, <3>3, <3>4 DEF RunStep
  <2>8. CASE Fail(o)
    <3>1. op[o].pc \in {"error", "unreachable"} /\ s \in Server
      BY <2>8, <2>a DEF Fail
    <3>2. CASE Stored(s)
      <4> DEFINE x == [row[s] EXCEPT !.status = op[o].pc]
      <4>1. row' = [row EXCEPT ![s] = x] /\ End(o)
        BY <2>8, <2>b, <3>1, <3>2 DEF Fail, SetStatus
      <4>2. x \in Row /\ x.base = row[s].base /\ RowOK(x, vetted[s]) /\ ~Marked(x)
        BY <1>b, <3>1, <3>2 DEF Row, Status, RowOK, Marked, Stored
      <4> HIDE DEF x
      <4>3. UNCHANGED <<machine, vetted, crashes>>
        BY <2>8 DEF Fail
      <4> QED BY <2>y, <3>1, <3>2, <4>1, <4>2, <4>3
    <3>3. CASE ~Stored(s)
      BY <2>8, <2>c, <3>1, <3>3 DEF Fail, SetStatus
    <3> QED BY <3>2, <3>3
  <2>9. CASE Finish(o)
    <3>1. op[o].pc = "finish" /\ s \in Server
      BY <2>9, <2>a DEF Finish, At
    <3>2. CASE Stored(s)
      <4> DEFINE x == [row[s] EXCEPT !.base = TRUE, !.status = "ready"]
      <4>1. row' = [row EXCEPT ![s] = x] /\ End(o)
        BY <2>9, <2>b, <3>1, <3>2 DEF Finish
      <4>2. x \in Row /\ x.base /\ RowOK(x, vetted[s]) /\ ~Marked(x)
        BY <1>b, <3>1, <3>2 DEF Row, Status, RowOK, Marked, Stored
      <4> HIDE DEF x
      <4>3. UNCHANGED <<machine, vetted, crashes>>
        BY <2>9 DEF Finish
      <4> QED BY <2>y, <3>1, <3>2, <4>1, <4>2, <4>3
    <3>3. CASE ~Stored(s)
      BY <2>9, <2>c, <3>1, <3>3 DEF Finish
    <3> QED BY <3>2, <3>3
  <2> QED BY <1>8, <2>1, <2>2, <2>3, <2>4, <2>5, <2>6, <2>7, <2>8, <2>9 DEF OpStep
<1>9. CASE UNCHANGED vars
  <2>1. UNCHANGED <<row, op, vetted, crashes, machine>> /\ Grows
    BY <1>9 DEF vars, Grows
  <2> QED BY <1>0, <1>b, <2>1, RowMoves DEF ShapeInv
<1> QED BY <1>2, <1>3, <1>4, <1>5, <1>6, <1>7, <1>8, <1>9 DEF Next

LEMMA InvHolds == Spec => []IInv
BY InitInv, StepInv, PTL DEF Spec

-----------------------------------------------------------------------------
(* A server that counts as ready was provisioned to the end, and until a    *)
(* crash one shown as being provisioned has somebody at it.                *)
THEOREM StatusCorrect == Spec => []StatusIsTrue
<1>1. IInv => StatusIsTrue
  BY DEF IInv, RowsInv, RowOK, StatusIsTrue, ReadyIsProvisioned
<1> QED BY <1>1, InvHolds, PTL

(* Whatever operations overlap: a host key that is pinned was shown by a    *)
(* machine that accepted the saved credential.                             *)
THEOREM PinCorrect == Spec => []PinIsVetted
<1>1. IInv => PinIsVetted
  BY DEF IInv, RowsInv, RowOK, PinIsVetted
<1> QED BY <1>1, InvHolds, PTL

=============================================================================
