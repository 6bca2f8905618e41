-------------------------- MODULE PanelUpdateProofs --------------------------
(***************************************************************************)
(* For any number of scripts that overlap, of commits, updates and         *)
(* failures: code does not run before its schema, what was pulled last     *)
(* runs in the end, and the flag that refuses updates is given back.       *)
(***************************************************************************)
EXTENDS PanelUpdate, TLAPS

By   == {"nobody", "api", "hand", "stray"}
At   == {"read", "pull", "migrate", "build", "restart", "ended"}
Job  == {j \in [by : By, step : At] : (j.by = "nobody" => j = Idle) /\ (j.step = "read" => j.by = "api")}

ShapeInv ==
  /\ remote \in Nat /\ head \in Nat /\ schema \in Nat /\ built \in Nat /\ running \in Nat
  /\ head <= remote
  /\ updating \in BOOLEAN /\ failed \in BOOLEAN /\ overlapped \in BOOLEAN /\ gitFailed \in BOOLEAN
  /\ pending \subseteq {"unit", "shell"}
  /\ jobs \in [Script -> Job]

(* The flag is up for one request at most.                                 *)
FlagInv ==
  /\ \A s \in Script : jobs[s].by = "api" => updating
  /\ \A s, r \in Script : jobs[s].by = "api" /\ jobs[r].by = "api" => s = r

(* Scripts that do not overlap build the commit they migrated to.          *)
SchemaInv ==
  ~overlapped =>
    /\ \A s, r \in Script : Working(s) /\ Working(r) => s = r
    /\ \A s \in Script : jobs[s].step = "build" => schema = head
    /\ schema <= head /\ built <= schema /\ running <= schema

(* What was pulled is being built, or is built and will run or runs.       *)
Alive(s, steps) == jobs[s].by \in {"api", "hand"} /\ jobs[s].step \in steps
BuildInv ==
  ~failed =>
    \/ \E s \in Script : Alive(s, {"migrate", "build"})
    \/ /\ built = head
       /\ \/ pending # {} \/ running = built
          \/ \E s \in Script : Alive(s, {"restart"})

IInv == ShapeInv /\ FlagInv /\ SchemaInv /\ BuildInv /\ FlagIsFreed

-----------------------------------------------------------------------------
LEMMA InitInv == Init => IInv
<1> SUFFICES ASSUME Init PROVE IInv
  OBVIOUS
<1>1. Idle \in Job /\ Idle.by = "nobody" /\ Idle.step = "ended"
  BY DEF Idle, Job, By, At
<1>2. jobs \in [Script -> Job] /\ \A s \in Script : jobs[s].by = "nobody" /\ jobs[s].step = "ended"
  BY <1>1 DEF Init
<1>3. ShapeInv
  <2>1. /\ remote = 0 /\ head = 0 /\ schema = 0 /\ built = 0 /\ running = 0 /\ pending = {}
        /\ updating \in BOOLEAN /\ failed \in BOOLEAN /\ overlapped \in BOOLEAN /\ gitFailed \in BOOLEAN
    BY DEF Init
  <2> QED BY <1>2, <2>1 DEF ShapeInv
<1>4. FlagInv /\ FlagIsFreed
  BY <1>2 DEF Init, FlagInv, FlagIsFreed
<1>5. SchemaInv
  <2>1. schema <= head /\ built <= schema /\ running <= schema
    BY DEF Init
  <2> QED BY <1>2, <2>1 DEF SchemaInv, Working
<1>6. BuildInv
  BY DEF Init, BuildInv
<1> QED BY <1>3, <1>4, <1>5, <1>6 DEF IInv

LEMMA PushInv ==
  ASSUME IInv, Push
  PROVE  IInv'
<1>1. /\ UNCHANGED <<head, schema, built, running, updating, jobs, pending, failed, overlapped, gitFailed>>
      /\ remote' = remote + 1
  BY DEF Push
<1> QED BY <1>1 DEF IInv, ShapeInv, FlagInv, SchemaInv, BuildInv, FlagIsFreed, Alive, Working

(* Script s becomes j, and the others stay. *)
LEMMA JobMoves ==
  ASSUME ShapeInv, NEW s \in Script, NEW j \in Job,
         jobs' = [jobs EXCEPT ![s] = j]
  PROVE  /\ jobs' \in [Script -> Job]
         /\ jobs'[s] = j
         /\ \A r \in Script : r # s => jobs'[r] = jobs[r]
BY DEF ShapeInv

(* A script begins: a request is noted, or the script is called.  The       *)
(* commits stay.                                                            *)
LEMMA BeginInv ==
  ASSUME IInv, NEW s \in Script, Update(s) \/ RunByHand(s)
  PROVE  IInv'
<1> DEFINE j == IF Update(s) THEN [by |-> "api", step |-> "read"] ELSE [by |-> "hand", step |-> "pull"]
<1>1. /\ UNCHANGED <<remote, head, schema, built, running, pending, failed, gitFailed>>
      /\ jobs[s] = Idle /\ jobs' = [jobs EXCEPT ![s] = j]
      /\ j \in Job /\ j.step \in {"read", "pull"}
      /\ \/ /\ j.by = "api" /\ j.step = "read" /\ ~updating /\ updating' /\ overlapped' = overlapped
            /\ updating' \in BOOLEAN
         \/ /\ j.by = "hand" /\ updating' = updating
            /\ overlapped' = (overlapped \/ \E r \in Script : Working(r))
  BY DEF Update, RunByHand, Job, By, At, IInv, ShapeInv
<1> HIDE DEF j
<1>2. /\ jobs' \in [Script -> Job] /\ jobs'[s] = j
      /\ \A r \in Script : r # s => jobs'[r] = jobs[r]
  BY <1>1, JobMoves DEF IInv
<1>3. ShapeInv'
  BY <1>1, <1>2 DEF IInv, ShapeInv
<1>4. FlagInv' /\ FlagIsFreed'
  BY <1>1, <1>2 DEF IInv, FlagInv, FlagIsFreed, Idle
<1>5. SchemaInv'
  <2> SUFFICES ASSUME ~overlapped' PROVE SchemaInv'
    BY DEF SchemaInv
  <2>1. ~overlapped /\ jobs'[s].step # "build"
    <3>1. CASE overlapped' = overlapped
      BY <1>1, <1>2, <3>1
    <3>2. CASE overlapped' = (overlapped \/ \E r \in Script : Working(r))
      BY <1>1, <1>2, <3>2, Zenon
    <3> QED BY <1>1, <3>1, <3>2
  <2>2. \A r \in Script : r # s => (Working(r)' <=> Working(r))
    BY <1>2 DEF Working
  <2>3. Working(s)' => \A r \in Script : r # s => ~Working(r)
    <3>1. CASE j.by = "api"
      BY <1>1, <1>2, <3>1 DEF Working
    <3>2. CASE j.by = "hand"
      BY <1>1, <3>2
    <3> QED BY <1>1, <3>1, <3>2
  <2>4. \A r, q \in Script : Working(r) /\ Working(q) => r = q
    BY <2>1 DEF IInv, SchemaInv
  <2>5. \A r, q \in Script : Working(r)' /\ Working(q)' => r = q
    BY <2>2, <2>3, <2>4
  <2>6. \A r \in Script : jobs'[r].step = "build" => schema = head
    BY <1>2, <2>1 DEF IInv, SchemaInv
  <2> QED BY <1>1, <2>1, <2>5, <2>6 DEF IInv, SchemaInv
<1>6. BuildInv'
  <2>1. \A r \in Script, steps \in SUBSET {"migrate", "build", "restart"} : Alive(r, steps)
                                   => r # s /\ Alive(r, steps)'
    BY <1>1, <1>2 DEF Alive, Idle
  <2> QED BY <1>1, <2>1 DEF IInv, BuildInv
<1> QED BY <1>3, <1>4, <1>5, <1>6 DEF IInv

(* The request of a script goes on, is over, or is answered.                *)
LEMMA RequestInv ==
  ASSUME IInv, NEW s \in Script, ReadHead(s) \/ Timeout(s) \/ Answer(s)
  PROVE  IInv'
<1> USE DEF IInv
<1>1. /\ UNCHANGED <<remote, head, schema, built, running, pending>>
      /\ jobs[s] \in Job
  BY DEF ReadHead, Timeout, Answer, ShapeInv
<1>2. Idle \in Job  BY DEF Idle, Job, By, At
<1>3. CASE Answer(s)
  <2>1. /\ jobs[s].by = "api" /\ jobs[s].step = "ended" /\ updating' = FALSE
        /\ jobs' = [jobs EXCEPT ![s] = Idle] /\ UNCHANGED <<failed, overlapped, gitFailed>>
    BY <1>3 DEF Answer
  <2>2. /\ jobs' \in [Script -> Job] /\ jobs'[s] = Idle
        /\ \A r \in Script : r # s => jobs'[r] = jobs[r]
    BY <1>2, <2>1, JobMoves
  <2>3. ShapeInv' /\ FlagInv' /\ FlagIsFreed'
    BY <1>1, <2>1, <2>2 DEF ShapeInv, FlagInv, FlagIsFreed, Idle
  <2>4. SchemaInv'
    BY <1>1, <2>1, <2>2 DEF SchemaInv, Working, Idle
  <2>5. BuildInv'
    <3>1. \A r \in Script, steps \in SUBSET {"migrate", "build", "restart"} : Alive(r, steps)
                                     => r # s /\ Alive(r, steps)'
      BY <2>1, <2>2 DEF Alive
    <3> QED BY <1>1, <2>1, <3>1 DEF BuildInv
  <2> QED BY <2>3, <2>4, <2>5
<1>4. CASE Timeout(s)
  <2> DEFINE j == [by |-> "stray", step |-> jobs[s].step]
  <2>1. /\ jobs[s].by = "api" /\ Working(s) /\ updating' = FALSE /\ failed' = TRUE
        /\ jobs' = [jobs EXCEPT ![s].by = "stray"] /\ UNCHANGED <<overlapped, gitFailed>>
    BY <1>4 DEF Timeout
  <2>2. j \in Job /\ jobs' = [jobs EXCEPT ![s] = j] /\ j.by = "stray" /\ j.step = jobs[s].step
    <3>1. j \in Job
      BY <1>1, <2>1 DEF Job, By, Working
    <3>2. j = [jobs[s] EXCEPT !.by = "stray"]
      BY <1>1 DEF Job
    <3>3. [jobs EXCEPT ![s].by = "stray"] = [jobs EXCEPT ![s] = [jobs[s] EXCEPT !.by = "stray"]]
      BY DEF ShapeInv
    <3> QED BY <2>1, <3>1, <3>2, <3>3
  <2> HIDE DEF j
  <2>3. /\ jobs' \in [Script -> Job] /\ jobs'[s] = j
        /\ \A r \in Script : r # s => jobs'[r] = jobs[r]
    BY <2>2, JobMoves
  <2>4. ShapeInv'
    BY <1>1, <2>1, <2>3 DEF ShapeInv
  <2>5. \A r \in Script : jobs'[r].by # "api"
    BY <2>1, <2>2, <2>3 DEF FlagInv
  <2>6. FlagInv' /\ FlagIsFreed'
    BY <2>1, <2>5 DEF FlagInv, FlagIsFreed
  <2>7. \A r \in Script : jobs'[r].step = jobs[r].step
    BY <2>2, <2>3
  <2>8. SchemaInv' /\ BuildInv'
    BY <1>1, <2>1, <2>7 DEF SchemaInv, BuildInv, Working
  <2> QED BY <2>4, <2>6, <2>8
<1>5. CASE ReadHead(s) /\ jobs' = [jobs EXCEPT ![s] = Idle]
  <2>1. /\ jobs[s].step = "read" /\ gitFailed' = TRUE /\ UNCHANGED <<updating, overlapped, failed>>
    <3>1. jobs[s].step = "read" /\ UNCHANGED <<updating, failed>>
      BY <1>5 DEF ReadHead
    <3>2. ASSUME jobs' = [jobs EXCEPT ![s].step = "pull"] PROVE FALSE
      BY <1>5, <3>2, <1>1 DEF ShapeInv, Idle, Job
    <3> QED BY <1>5, <3>1, <3>2 DEF ReadHead
  <2>2. /\ jobs' \in [Script -> Job] /\ jobs'[s] = Idle
        /\ \A r \in Script : r # s => jobs'[r] = jobs[r]
    BY <1>2, <1>5, JobMoves
  <2>3. ShapeInv' /\ FlagInv' /\ FlagIsFreed'
    BY <1>1, <2>1, <2>2 DEF ShapeInv, FlagInv, FlagIsFreed, Idle
  <2>4. SchemaInv'
    BY <1>1, <2>1, <2>2 DEF SchemaInv, Working, Idle
  <2>5. BuildInv'
    <3>1. \A r \in Script, steps \in SUBSET {"migrate", "build", "restart"} : Alive(r, steps)
                                     => r # s /\ Alive(r, steps)'
      BY <2>1, <2>2 DEF Alive
    <3> QED BY <1>1, <2>1, <3>1 DEF BuildInv
  <2> QED BY <2>3, <2>4, <2>5
<1>6. CASE ReadHead(s) /\ jobs' = [jobs EXCEPT ![s].step = "pull"]
  <2> DEFINE j == [by |-> jobs[s].by, step |-> "pull"]
  <2>1. /\ jobs[s].step = "read" /\ UNCHANGED <<updating, failed, gitFailed>>
        /\ overlapped' = (overlapped \/ \E r \in Script : Working(r) /\ jobs[r].by # "api")
    <3>1. jobs[s].step = "read" /\ UNCHANGED <<updating, failed>>
      BY <1>6 DEF ReadHead
    <3>2. ASSUME jobs' = [jobs EXCEPT ![s] = Idle] PROVE FALSE
      BY <1>6, <3>2, <1>1 DEF ShapeInv, Idle, Job
    <3> QED BY <1>6, <3>1, <3>2 DEF ReadHead
  <2>2. j \in Job /\ jobs' = [jobs EXCEPT ![s] = j] /\ j.by = jobs[s].by /\ j.step = "pull"
    <3>1. j \in Job
      BY <1>1, <2>1 DEF Job, At, Idle
    <3>2. j = [jobs[s] EXCEPT !.step = "pull"]
      BY <1>1 DEF Job
    <3>3. [jobs EXCEPT ![s].step = "pull"] = [jobs EXCEPT ![s] = [jobs[s] EXCEPT !.step = "pull"]]
      BY DEF ShapeInv
    <3> QED BY <1>6, <3>1, <3>2, <3>3
  <2>3. jobs[s].by = "api"
    BY <1>1, <2>1 DEF Job
  <2> HIDE DEF j
  <2>4. /\ jobs' \in [Script -> Job] /\ jobs'[s] = j
        /\ \A r \in Script : r # s => jobs'[r] = jobs[r]
    BY <2>2, <2>3, JobMoves
  <2>5. ShapeInv' /\ FlagInv' /\ FlagIsFreed'
    BY <1>1, <2>1, <2>2, <2>4 DEF ShapeInv, FlagInv, FlagIsFreed
  <2>6. SchemaInv'
    <3> SUFFICES ASSUME ~overlapped' PROVE SchemaInv'
      BY DEF SchemaInv
    <3>1. ~overlapped /\ \A r \in Script : Working(r) => jobs[r].by = "api"
      BY <2>1
    <3>2. \A r \in Script : ~Working(r)
      BY <2>1, <2>3, <3>1 DEF FlagInv, Working
    <3>3. \A r \in Script : Working(r)' => r = s
      BY <2>2, <2>4, <3>2 DEF Working
    <3>4. \A r \in Script : jobs'[r].step # "build"
      BY <2>2, <2>4, <3>2 DEF Working
    <3> QED BY <1>1, <3>1, <3>3, <3>4 DEF SchemaInv
  <2>7. BuildInv'
    <3>1. \A r \in Script, steps \in SUBSET {"migrate", "build", "restart"} : Alive(r, steps)
                                     => r # s /\ Alive(r, steps)'
      BY <2>1, <2>4 DEF Alive
    <3> QED BY <1>1, <2>1, <3>1 DEF BuildInv
  <2> QED BY <2>5, <2>6, <2>7
<1> QED BY <1>3, <1>4, <1>5, <1>6 DEF ReadHead

(* A step of a script succeeds or fails: s becomes j, the others stay.      *)
LEMMA MovedShape ==
  ASSUME ShapeInv, NEW s \in Script, Working(s), NEW step \in At \ {"read"}, Moved(s, step)
  PROVE  \E j \in Job : /\ jobs' = [jobs EXCEPT ![s] = j]
                        /\ j.step = step
                        /\ j.by = jobs[s].by \/ (j.by = "nobody" /\ step = "ended" /\ jobs[s].by # "api")
<1>1. jobs[s] \in Job /\ jobs[s].by # "nobody"
  BY DEF ShapeInv, Job, Working, Idle
<1>2. Idle \in Job  BY DEF Idle, Job, By, At
<1>3. [by |-> jobs[s].by, step |-> step] \in Job
  BY <1>1 DEF Job
<1> QED BY <1>1, <1>2, <1>3 DEF Moved, Idle

LEMMA StepInv ==
  ASSUME IInv, NEW s \in Script, Step(s)
  PROVE  IInv'
<1> USE DEF IInv
<1> DEFINE step == jobs[s].step
           next == IF jobs[s].by = "stray" THEN "ended" ELSE After(step)
<1>1. /\ UNCHANGED <<remote, running, updating, overlapped, gitFailed>>
      /\ head' = IF step = "pull" THEN remote ELSE head
      /\ failed' = IF step = "pull" THEN jobs[s].by = "stray" ELSE failed
      /\ schema' = IF step = "migrate" THEN head ELSE schema
      /\ built' = IF step = "build" THEN head ELSE built
      /\ pending \subseteq pending' /\ pending' \subseteq {"unit", "shell"}
      /\ step = "restart" => pending' # {}
      /\ Working(s) /\ Moved(s, next)
  BY DEF Step, ShapeInv
<1>2. /\ jobs[s].by \in {"api", "hand", "stray"} /\ step \in {"pull", "migrate", "build", "restart"}
      /\ jobs[s] \in Job
  BY <1>1 DEF ShapeInv, Job, By, At, Working, Idle
<1>3. /\ next \in {"migrate", "build", "restart", "ended"}
      /\ next = "build" => step = "migrate"
      /\ jobs[s].by # "stray" => /\ step = "pull" => next = "migrate"
                                 /\ step = "migrate" => next = "build"
                                 /\ step = "build" => next = "restart"
  BY <1>2 DEF After
<1> HIDE DEF next
<1>4. PICK j \in Job : /\ jobs' = [jobs EXCEPT ![s] = j] /\ j.step = next
                       /\ j.by = jobs[s].by \/ (j.by = "nobody" /\ next = "ended" /\ jobs[s].by # "api")
  BY <1>1, <1>3, MovedShape DEF At
<1>5. /\ jobs' \in [Script -> Job] /\ jobs'[s] = j
      /\ \A r \in Script : r # s => jobs'[r] = jobs[r]
  BY <1>4, JobMoves
<1>6. ShapeInv'
  <2>1. remote \in Nat /\ head \in Nat /\ head <= remote
    BY DEF ShapeInv
  <2>2. head' \in Nat /\ head' <= remote' /\ schema' \in Nat /\ built' \in Nat
    BY <1>1, <2>1 DEF ShapeInv
  <2>3. failed' \in BOOLEAN
    BY <1>1 DEF ShapeInv
  <2> QED BY <1>1, <1>5, <2>2, <2>3 DEF ShapeInv
<1>7. FlagInv' /\ FlagIsFreed'
  BY <1>1, <1>4, <1>5 DEF FlagInv, FlagIsFreed
<1>8. SchemaInv'
  <2> SUFFICES ASSUME ~overlapped PROVE SchemaInv'
    BY <1>1 DEF SchemaInv
  <2>1. /\ \A r \in Script : Working(r) => r = s
        /\ step = "build" => schema = head
        /\ schema <= head /\ built <= schema /\ running <= schema
    BY <1>1 DEF SchemaInv
  <2>2. head \in Nat /\ remote \in Nat /\ schema \in Nat /\ built \in Nat /\ running \in Nat
        /\ head <= remote
    BY DEF ShapeInv
  <2>3. schema' <= head' /\ built' <= schema' /\ running' <= schema'
    BY <1>1, <1>2, <2>1, <2>2
  <2>4. \A r \in Script : Working(r)' => r = s
    BY <1>5, <2>1 DEF Working
  <2>5. next = "build" => schema' = head'
    BY <1>1, <1>2, <1>3
  <2>6. \A r \in Script : jobs'[r].step = "build" => schema' = head'
    BY <1>4, <1>5, <2>1, <2>5 DEF Working
  <2> QED BY <2>3, <2>4, <2>6 DEF SchemaInv
<1>9. BuildInv'
  <2> SUFFICES ASSUME ~failed' PROVE BuildInv'
    BY DEF BuildInv
  <2>1. \A r \in Script, steps \in SUBSET {"migrate", "build", "restart"} : r # s => Alive(r, steps)' = Alive(r, steps)
    BY <1>5 DEF Alive
  <2>2. CASE jobs[s].by # "stray" /\ step \in {"pull", "migrate"}
    <3>1. Alive(s, {"migrate", "build"})'
      BY <1>2, <1>3, <1>4, <1>5, <2>2 DEF Alive
    <3> QED BY <3>1 DEF BuildInv
  <2>3. CASE jobs[s].by # "stray" /\ step = "build"
    <3>1. Alive(s, {"restart"})' /\ built' = head'
      BY <1>1, <1>2, <1>3, <1>4, <1>5, <2>3 DEF Alive
    <3> QED BY <3>1 DEF BuildInv
  <2>4. CASE jobs[s].by = "stray" \/ step = "restart"
    <3>1. /\ ~failed /\ head' = head /\ running' = running /\ (built' = built \/ built' = head)
      BY <1>1, <1>2, <2>4
    <3>2. ~Alive(s, {"migrate", "build"})
      BY <2>4 DEF Alive
    <3>3. CASE \E r \in Script : Alive(r, {"migrate", "build"})
      BY <2>1, <3>2, <3>3 DEF BuildInv
    <3>4. CASE ~\E r \in Script : Alive(r, {"migrate", "build"})
      <4>1. /\ built = head
            /\ \/ pending # {} \/ running = built
               \/ \E r \in Script : Alive(r, {"restart"})
        BY <3>1, <3>4 DEF BuildInv
      <4>2. built' = head' /\ built' = built
        BY <3>1, <4>1
      <4>3. ASSUME NEW r \in Script, Alive(r, {"restart"}) PROVE BuildInv'
        <5>1. CASE r = s
          BY <1>1, <4>2, <4>3, <5>1 DEF BuildInv, Alive
        <5>2. CASE r # s
          BY <2>1, <4>2, <4>3, <5>2 DEF BuildInv
        <5> QED BY <5>1, <5>2
      <4>4. ASSUME pending # {} \/ running = built PROVE BuildInv'
        BY <1>1, <3>1, <4>2, <4>4 DEF BuildInv
      <4> QED BY <4>1, <4>3, <4>4
    <3> QED BY <3>3, <3>4
  <2> QED BY <1>2, <2>2, <2>3, <2>4
<1> QED BY <1>6, <1>7, <1>8, <1>9

(* What a build that does not end leaves compiled.                          *)
LEMMA CompiledIs ==
  ASSUME NEW b \in Compiled
  PROVE  b = built \/ (b = head /\ \E s \in Script : jobs[s].step = "build")
BY DEF Compiled

LEMMA StepFailsInv ==
  ASSUME IInv, NEW s \in Script, StepFails(s)
  PROVE  IInv'
<1> USE DEF IInv
<1>1. /\ UNCHANGED <<remote, head, schema, running, updating, pending, overlapped, gitFailed>>
      /\ built' = built \/ (built' = head /\ \E r \in Script : jobs[r].step = "build")
      /\ failed' = TRUE /\ Working(s) /\ Moved(s, "ended")
  <2>1. built' \in Compiled \/ built' = built
    BY DEF StepFails
  <2> QED BY <2>1, CompiledIs DEF StepFails
<1>2. PICK j \in Job : /\ jobs' = [jobs EXCEPT ![s] = j] /\ j.step = "ended"
                       /\ j.by = jobs[s].by \/ (j.by = "nobody" /\ jobs[s].by # "api")
  BY <1>1, MovedShape DEF At
<1>3. /\ jobs' \in [Script -> Job] /\ jobs'[s] = j
      /\ \A r \in Script : r # s => jobs'[r] = jobs[r]
  BY <1>2, JobMoves
<1>4. ShapeInv' /\ BuildInv'
  BY <1>1, <1>3 DEF ShapeInv, BuildInv
<1>5. FlagInv' /\ FlagIsFreed'
  BY <1>1, <1>2, <1>3 DEF FlagInv, FlagIsFreed
<1>6. SchemaInv'
  BY <1>1, <1>2, <1>3 DEF SchemaInv, ShapeInv, Working
<1> QED BY <1>4, <1>5, <1>6

(* The api starts, after a script's restart or a crash.                     *)
LEMMA StartedInv ==
  ASSUME IInv, Started, pending' \subseteq pending, UNCHANGED remote
  PROVE  IInv'
<1> USE DEF IInv
<1>1. /\ UNCHANGED <<remote, head, schema, overlapped>>
      /\ built' = built \/ (built' = head /\ \E r \in Script : jobs[r].step = "build")
      /\ running' = built' /\ updating' = FALSE /\ gitFailed' = FALSE
      /\ failed' = (failed \/ \E r \in Script : Working(r) /\ jobs[r].by # "hand")
      /\ jobs' = [r \in Script |-> IF jobs[r].by = "hand" THEN jobs[r] ELSE Idle]
  BY CompiledIs DEF Started
<1>2. Idle \in Job  BY DEF Idle, Job, By, At
<1>3. ShapeInv'
  BY <1>1, <1>2 DEF ShapeInv
<1>4. FlagInv' /\ FlagIsFreed'
  BY <1>1 DEF FlagInv, FlagIsFreed, Idle
<1>5. SchemaInv'
  BY <1>1 DEF SchemaInv, ShapeInv, Working, Idle
<1>6. BuildInv'
  <2> SUFFICES ASSUME ~failed' PROVE BuildInv'
    BY DEF BuildInv
  <2>1. ~failed /\ \A r \in Script : Working(r) => jobs[r].by = "hand"
    BY <1>1
  <2>2. ASSUME NEW r \in Script, Alive(r, {"migrate", "build"}) PROVE BuildInv'
    <3>1. jobs[r].by = "hand"
      BY <2>1, <2>2 DEF Alive, Working
    <3>2. Alive(r, {"migrate", "build"})'
      BY <1>1, <2>2, <3>1 DEF Alive
    <3> QED BY <3>2 DEF BuildInv
  <2>3. CASE ~\E r \in Script : Alive(r, {"migrate", "build"})
    <3>1. built = head
      BY <2>1, <2>3 DEF BuildInv
    <3> QED BY <1>1, <3>1 DEF BuildInv
  <2> QED BY <2>2, <2>3
<1> QED BY <1>3, <1>4, <1>5, <1>6

LEMMA NextInv == IInv /\ [Next]_vars => IInv'
<1> SUFFICES ASSUME IInv, [Next]_vars PROVE IInv'
  OBVIOUS
<1>1. CASE UNCHANGED vars
  BY <1>1 DEF vars, IInv, ShapeInv, FlagInv, SchemaInv, BuildInv, FlagIsFreed, Alive, Working
<1>2. CASE Push \/ \E s \in Script :
        Update(s) \/ RunByHand(s) \/ ReadHead(s) \/ Timeout(s) \/ Answer(s) \/ Step(s) \/ StepFails(s)
  BY <1>2, PushInv, BeginInv, RequestInv, StepInv, StepFailsInv
<1>3. CASE Crash \/ \E from \in {"unit", "shell"} : Restart(from)
  <2>1. Started /\ pending' \subseteq pending /\ UNCHANGED remote
    BY <1>3 DEF Crash, Restart, Started
  <2> QED BY <2>1, StartedInv
<1> QED BY <1>1, <1>2, <1>3 DEF Next

LEMMA InvHolds == Spec => []IInv
BY InitInv, NextInv, PTL DEF Spec

-----------------------------------------------------------------------------
(* Unless a script ran beside one the flag knows nothing of, the running    *)
(* code finds the schema it was written for, after a crash in the middle of *)
(* a build as well.                                                         *)
THEOREM SchemaComesFirst == Spec => []SchemaIsReady
<1>1. IInv => SchemaIsReady
  BY DEF IInv, SchemaInv, SchemaIsReady
<1> QED BY <1>1, InvHolds, PTL

(* The scripts may overlap and fail: when none is at work, none failed      *)
(* since the last pull and no restart is to come, what was pulled runs.     *)
THEOREM ReRunRepairs == Spec => []PulledRuns
<1>1. IInv => PulledRuns
  <2> SUFFICES ASSUME IInv, ~failed, pending = {}, \A s \in Script : ~Working(s)
               PROVE  running = head
    BY DEF PulledRuns
  <2>1. \A s \in Script : ~Alive(s, {"migrate", "build"}) /\ ~Alive(s, {"restart"})
    BY DEF Alive, Working
  <2> QED BY <2>1 DEF IInv, BuildInv
<1> QED BY <1>1, InvHolds, PTL

(* The flag that refuses updates has a request behind it, or git failed     *)
(* before the try and the panel was not restarted since.                    *)
THEOREM FlagGivenBack == Spec => []FlagIsFreed
<1>1. IInv => FlagIsFreed
  BY DEF IInv
<1> QED BY <1>1, InvHolds, PTL
=============================================================================
