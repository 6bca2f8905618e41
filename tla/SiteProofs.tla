------------------------- MODULE SiteProofs --------------------------
(***************************************************************************)
(* What runs beside the installs of a site, for any number of activations  *)
(* and streams, and any certificate life.                                  *)
(*                                                                         *)
(* SslLifecycle: whatever overtakes what, the panel's idea of a            *)
(* certificate's expiry is never later than the certificate's, so its      *)
(* alert is never too mild.                                                *)
(*                                                                         *)
(* InstallEvents, as the instance Events: no stream waits for an install   *)
(* that is over, and the row tells who polls it.                           *)
(***************************************************************************)
EXTENDS MCSite, TLAPS

(* Certificates are made with dates that only grow, so whatever was read    *)
(* or posted earlier is not later than the certificate there now.          *)
DatesInv ==
  /\ expires <= cert
  /\ cert <= day + Life
  /\ \A date \in posts : date <= cert
  /\ \A a \in Act : act[a].date <= cert

IInv == TypeOK /\ DatesInv

-----------------------------------------------------------------------------
(* A new certificate outlasts every date known before. *)
LEMMA NewCertGrows ==
  ASSUME IInv, NewCert
  PROVE  /\ cert' \in Nat /\ cert <= cert' /\ cert' = day + Life
         /\ posts' \subseteq Nat
         /\ \A date \in posts' : date <= cert'
         /\ \A a \in Act : act[a].date <= cert'
         /\ expires <= cert'
<1> USE LifeAssumption DEF IInv, TypeOK, DatesInv, Date, NoDate
<1>1. cert' \in Nat /\ cert <= cert' /\ cert' = day + Life
  BY DEF NewCert
<1>2. posts' \subseteq Nat /\ \A date \in posts' : date <= cert'
  <2>1. posts' = posts \/ posts' = posts \cup {cert'}
    BY DEF NewCert
  <2>2. \A date \in posts : date \in Nat /\ date <= cert'
    BY <1>1
  <2>3. CASE posts' = posts
    BY <2>2, <2>3 DEF TypeOK
  <2>4. CASE posts' = posts \cup {cert'}
    BY <1>1, <2>2, <2>4
  <2> QED BY <2>1, <2>3, <2>4
<1>3. \A a \in Act : act[a].date \in Int /\ act[a].date <= cert'
  BY <1>1 DEF ActRecord
<1> QED BY <1>1, <1>2, <1>3

ProgramPoint == {"idle", "mark", "certbot", "refused", "read", "write", "rest"}

(* Moving an activation on, or ending it, brings no date into the records. *)
LEMMA GotoKeepsDates ==
  ASSUME TypeOK, NEW a \in Act, NEW pc \in ProgramPoint, Goto(a, pc)
  PROVE  /\ act' \in [Act -> ActRecord]
         /\ \A b \in Act : act'[b].date = act[b].date
<1>1. act \in [Act -> ActRecord] /\ act[a] \in ActRecord
  BY DEF TypeOK
<1>2. act' = [act EXCEPT ![a].pc = pc]
  BY DEF Goto
<1> QED BY <1>1, <1>2 DEF ActRecord, ProgramPoint

LEMMA EndKeepsDates ==
  ASSUME TypeOK, NEW a \in Act, End(a)
  PROVE  /\ act' \in [Act -> ActRecord]
         /\ \A b \in Act : act'[b].date = act[b].date \/ act'[b].date = NoDate
<1>1. act \in [Act -> ActRecord] /\ act' = [act EXCEPT ![a] = IdleAct]
  BY DEF TypeOK, End
<1>2. IdleAct \in ActRecord /\ IdleAct.date = NoDate
  BY DEF IdleAct, ActRecord, Date
<1> QED BY <1>1, <1>2

LEMMA InitInv == Init => IInv
<1> SUFFICES ASSUME Init PROVE IInv
  OBVIOUS
<1>1. IdleAct \in ActRecord /\ IdleAct.date = NoDate
  BY DEF IdleAct, ActRecord, Date
<1>2. act \in [Act -> ActRecord] /\ \A a \in Act : act[a].date = NoDate
  BY <1>1 DEF Init
<1>3. TypeOK
  BY <1>2 DEF Init, TypeOK, SslStatus, Date
<1>4. DatesInv
  BY <1>2, LifeAssumption DEF Init, DatesInv, NoDate
<1> QED BY <1>3, <1>4 DEF IInv

LEMMA StepInv == IInv /\ [Next]_vars => IInv'
<1> SUFFICES ASSUME IInv, [Next]_vars PROVE IInv'
  OBVIOUS
<1> USE DEF IInv
<1>0. TypeOK /\ DatesInv
  OBVIOUS
<1>a. ASSUME NEW a \in Act, NEW pc \in ProgramPoint,
             Goto(a, pc), UNCHANGED <<cert, posts, day>>,
             sslStatus' \in SslStatus, published' \in BOOLEAN, UNCHANGED expires
      PROVE  IInv'
  <2>1. act' \in [Act -> ActRecord] /\ \A b \in Act : act'[b].date = act[b].date
    BY <1>0, <1>a, GotoKeepsDates
  <2> QED BY <1>0, <1>a, <2>1 DEF TypeOK, DatesInv
<1>b. ASSUME NEW a \in Act, End(a), UNCHANGED <<cert, posts, day>>,
             sslStatus' \in SslStatus, published' \in BOOLEAN, UNCHANGED expires
      PROVE  IInv'
  <2>1. /\ act' \in [Act -> ActRecord]
        /\ \A b \in Act : act'[b].date = act[b].date \/ act'[b].date = NoDate
    BY <1>0, <1>b, EndKeepsDates
  <2>2. NoDate <= cert /\ cert \in Int
    BY <1>0 DEF TypeOK, Date, NoDate
  <2> QED BY <1>0, <1>b, <2>1, <2>2 DEF TypeOK, DatesInv
<1>1. ASSUME NEW a \in Act, NEW pc \in {"mark", "rest"}, Install(a, pc) PROVE IInv'
  <2>1. act' = [act EXCEPT ![a] = [kind |-> "install", pc |-> pc, date |-> NoDate]]
    BY <1>1 DEF Install
  <2>2. [kind |-> "install", pc |-> pc, date |-> NoDate] \in ActRecord
    BY DEF ActRecord, Date
  <2>3. /\ act' \in [Act -> ActRecord]
        /\ \A b \in Act : act'[b].date = act[b].date \/ act'[b].date = NoDate
    BY <1>0, <2>1, <2>2 DEF TypeOK
  <2>4. NoDate <= cert
    BY <1>0 DEF TypeOK, Date, NoDate
  <2> QED BY <1>0, <1>1, <2>3, <2>4 DEF TypeOK, DatesInv, Install
<1>2. ASSUME NEW a \in Act, RenewSsl(a) PROVE IInv'
  <2>1. act' = [act EXCEPT ![a] = [kind |-> "renewal", pc |-> "certbot", date |-> NoDate]]
    BY <1>2 DEF RenewSsl
  <2>2. [kind |-> "renewal", pc |-> "certbot", date |-> NoDate] \in ActRecord
    BY DEF ActRecord, Date
  <2>3. /\ act' \in [Act -> ActRecord]
        /\ \A b \in Act : act'[b].date = act[b].date \/ act'[b].date = NoDate
    BY <1>0, <2>1, <2>2 DEF TypeOK
  <2>4. NoDate <= cert
    BY <1>0 DEF TypeOK, Date, NoDate
  <2> QED BY <1>0, <1>2, <2>3, <2>4 DEF TypeOK, DatesInv, RenewSsl, columns
<1>3. ASSUME NEW a \in Act, MarkIssuing(a) PROVE IInv'
  BY <1>0, <1>3, <1>a DEF MarkIssuing, TypeOK, SslStatus, ProgramPoint
<1>4. ASSUME NEW a \in Act, Certbot(a) PROVE IInv'
  <2>1. CASE NewCert /\ (Goto(a, "read") \/ End(a))
    <3>1. /\ act' \in [Act -> ActRecord]
          /\ \A b \in Act : act'[b].date = act[b].date \/ act'[b].date = NoDate
      BY <1>0, <2>1, GotoKeepsDates, EndKeepsDates DEF ProgramPoint
    <3>2. /\ cert' \in Nat /\ cert' = day + Life /\ posts' \subseteq Nat
          /\ \A date \in posts' : date <= cert'
          /\ \A b \in Act : act[b].date <= cert'
          /\ expires <= cert'
      BY <2>1, NewCertGrows
    <3>3. NoDate <= cert' /\ cert' \in Date
      BY <3>2 DEF NoDate, Date
    <3>4. \A b \in Act : act'[b].date <= cert'
      BY <3>1, <3>2, <3>3
    <3>5. UNCHANGED <<columns, day>>
      BY <1>4 DEF Certbot
    <3>6. day + Life <= day + Life
      BY <1>0, LifeAssumption DEF TypeOK
    <3> QED BY <1>0, <3>1, <3>2, <3>3, <3>4, <3>5, <3>6 DEF TypeOK, DatesInv, columns
  <2>2. CASE UNCHANGED <<cert, posts>> /\ (Goto(a, "read") \/ Goto(a, "refused") \/ End(a))
    BY <1>0, <1>4, <1>a, <1>b, <2>2 DEF Certbot, columns, TypeOK, ProgramPoint
  <2> QED BY <1>4, <2>1, <2>2 DEF Certbot
<1>5. ASSUME NEW a \in Act, Refused(a) PROVE IInv'
  BY <1>0, <1>5, <1>b DEF Refused, TypeOK, SslStatus
<1>6. ASSUME NEW a \in Act, ReadExpiry(a) PROVE IInv'
  <2>1. CASE End(a)
    BY <1>0, <1>6, <1>b, <2>1 DEF ReadExpiry, columns, TypeOK
  <2>2. ASSUME NEW date \in {cert, NoDate},
               act' = [act EXCEPT ![a].pc = "write", ![a].date = date]
        PROVE  IInv'
    <3>1. date \in Date /\ date <= cert
      BY <1>0, <2>2 DEF TypeOK, Date, NoDate
    <3>2. /\ act' \in [Act -> ActRecord]
          /\ \A b \in Act : act'[b].date = act[b].date \/ act'[b].date = date
      BY <1>0, <2>2, <3>1 DEF TypeOK, ActRecord
    <3> QED BY <1>0, <1>6, <3>1, <3>2 DEF ReadExpiry, TypeOK, DatesInv, columns
  <2> QED BY <1>6, <2>1, <2>2 DEF ReadExpiry
<1>7. ASSUME NEW a \in Act, WriteActive(a) PROVE IInv'
  <2>1. expires' = act[a].date /\ act[a].date \in Date /\ act[a].date <= cert
    BY <1>0, <1>7 DEF WriteActive, TypeOK, DatesInv, ActRecord
  <2>2. /\ act' \in [Act -> ActRecord]
        /\ \A b \in Act : act'[b].date = act[b].date \/ act'[b].date = NoDate
    BY <1>0, <1>7, GotoKeepsDates, EndKeepsDates DEF WriteActive, ProgramPoint
  <2>3. NoDate <= cert
    BY <1>0 DEF TypeOK, Date, NoDate
  <2> QED BY <1>0, <1>7, <2>1, <2>2, <2>3 DEF WriteActive, TypeOK, DatesInv, SslStatus
<1>8. ASSUME NEW a \in Act, Finish(a) PROVE IInv'
  BY <1>0, <1>8, <1>b DEF Finish, TypeOK
<1>9. ASSUME NEW date \in posts, SslRenewed(date) PROVE IInv'
  BY <1>0, <1>9 DEF SslRenewed, TypeOK, DatesInv, SslStatus, Date
<1>10. CASE AutoRenew
  <2>1. /\ cert' \in Nat /\ cert' = day + Life /\ posts' \subseteq Nat
        /\ \A date \in posts' : date <= cert'
        /\ \A b \in Act : act[b].date <= cert'
        /\ expires <= cert'
    BY <1>10, NewCertGrows DEF AutoRenew
  <2>2. day + Life <= day + Life
    BY <1>0, LifeAssumption DEF TypeOK
  <2> QED BY <1>0, <1>10, <2>1, <2>2 DEF AutoRenew, TypeOK, DatesInv, columns, Date
<1>11. CASE Sweep
  BY <1>0, <1>11 DEF Sweep, TypeOK, DatesInv, SslStatus
<1>14. CASE Archive
  BY <1>0, <1>14 DEF Archive, TypeOK, DatesInv
<1>12. CASE Tick
  <2>1. day' \in Nat /\ cert <= day' + Life
    BY <1>0, <1>12, LifeAssumption DEF Tick, TypeOK, DatesInv, Date, NoDate
  <2> QED BY <1>0, <1>12, <2>1 DEF Tick, TypeOK, DatesInv, columns
<1>13. CASE UNCHANGED vars
  BY <1>0, <1>13 DEF vars, columns, TypeOK, DatesInv
<1> QED
  BY <1>1, <1>2, <1>3, <1>4, <1>5, <1>6, <1>7, <1>8, <1>9, <1>10, <1>11, <1>12, <1>13, <1>14
  DEF Next, ActStep

LEMMA InvHolds == Spec => []IInv
<1>1. Init => IInv
  BY InitInv
<1>2. IInv /\ [Next]_vars => IInv'
  BY StepInv
<1> QED BY <1>1, <1>2, PTL DEF Spec

-----------------------------------------------------------------------------
(* An earlier date deserves an alert at least as severe. *)
LEMMA LevelMonotone ==
  ASSUME NEW early \in Int, NEW late \in Int, early <= late, day \in Nat
  PROVE  Severity(Level(early)) >= Severity(Level(late))
<1> DEFINE Rank(date) ==
      IF date - day < 0 THEN 4 ELSE IF date - day <= Critical THEN 3
      ELSE IF date - day <= Warning THEN 2 ELSE IF date - day <= Notice THEN 1 ELSE 0
<1>1. ASSUME NEW date \in Int
      PROVE  Severity(Level(date)) = Rank(date)
  <2>1. CASE date - day < 0
    <3>1. Level(date) = "expired"
      BY <2>1, AlertAssumption DEF Level, DaysLeft
    <3> QED BY <2>1, <3>1 DEF Severity
  <2>2. CASE date - day \in 0..Critical
    <3>1. Level(date) = "critical"
      BY <2>2, AlertAssumption DEF Level, DaysLeft
    <3> QED BY <2>2, <3>1, AlertAssumption DEF Severity
  <2>3. CASE date - day \in (Critical + 1)..Warning
    <3>1. Level(date) = "warning"
      BY <2>3, AlertAssumption DEF Level, DaysLeft
    <3> QED BY <2>3, <3>1, AlertAssumption DEF Severity
  <2>4. CASE date - day \in (Warning + 1)..Notice
    <3>1. Level(date) = "notice"
      BY <2>4, AlertAssumption DEF Level, DaysLeft
    <3> QED BY <2>4, <3>1, AlertAssumption DEF Severity
  <2>5. CASE date - day > Notice
    <3>1. Level(date) = "silent"
      BY <2>5, AlertAssumption DEF Level, DaysLeft
    <3> QED BY <2>5, <3>1, AlertAssumption DEF Severity
  <2> QED BY <2>1, <2>2, <2>3, <2>4, <2>5, AlertAssumption
<1>2. Rank(early) >= Rank(late)
  BY AlertAssumption
<1> QED BY <1>1, <1>2

(* Whatever was read or posted when: the panel's date is never later than   *)
(* the certificate's.                                                      *)
THEOREM DateIsSafe == Spec => []NeverOverstated
<1>1. IInv => NeverOverstated
  BY DEF IInv, DatesInv, NeverOverstated
<1> QED BY <1>1, InvHolds, PTL

(* The alert on a known date of a published site is at least as severe as   *)
(* the certificate on the server deserves, for every choice of the three   *)
(* alert thresholds.                                                       *)
THEOREM AlertIsSafe == Spec => []NeverTooMild
<1>1. IInv => NeverTooMild
  <2> SUFFICES ASSUME IInv, Watched, expires # NoDate, sslStatus # "none"
               PROVE  Severity(Alert) >= Severity(Level(cert))
    BY DEF NeverTooMild
  <2>1. expires \in Int /\ cert \in Int /\ expires <= cert /\ day \in Nat
    BY DEF IInv, TypeOK, DatesInv, Date, NoDate
  <2>2. CASE sslStatus = "renewal_failed"
    <3>1. Severity(Alert) = 4
      BY <2>2 DEF Alert, Watched, Severity
    <3>2. Severity(Level(cert)) \in 0..4
      BY DEF Severity, Level
    <3> QED BY <3>1, <3>2
  <2>3. CASE sslStatus # "renewal_failed"
    <3>1. Alert = Level(expires)
      BY <2>3 DEF Alert, Watched
    <3> QED BY <2>1, <3>1, LevelMonotone
  <2> QED BY <2>2, <2>3
<1> QED BY <1>1, InvHolds, PTL

-----------------------------------------------------------------------------
(* InstallEvents: the row *)

(* The row shows an install under way only while one is at work, and its    *)
(* outcome is there before it is published: every step that ends an        *)
(* install writes the row first, or is known to vanish.                    *)
THEOREM RowTells == Events!Spec => []PollingSuffices
<1> USE DEF PollingSuffices, Events!PollingSuffices
<1>1. Events!Init => PollingSuffices
  BY DEF Events!Init
<1>2. PollingSuffices /\ [Events!Next]_Events!vars => PollingSuffices'
  BY DEF Events!Next, Events!RunStep, Events!StreamStep, Events!Enqueued, Events!Attach,
         Events!EndStream, Events!Install, Events!Enqueue, Events!Request, Events!Leave,
         Events!TakeJob, Events!StartRebuild, Events!StartRollback, Events!EndRollback,
         Events!MarkQueued, Events!Outcome, Events!Announce, Events!Vanish,
         Events!EndRebuild, Events!vars
<1>3. QED
  BY <1>1, <1>2, PTL DEF Events!Spec

-----------------------------------------------------------------------------
(* InstallEvents: the streams *)

(* A request of an inline panel: an open stream listens and has its client, *)
(* one that still reads the row does not listen.                           *)
StreamOK(r) ==
  /\ r.pc # "asking"
  /\ r.pc = "open" => r.listening /\ r.here
  /\ r.pc = "reading" => ~r.listening /\ r.kind = "status"

(* It counts on the event that ends an install.                            *)
Due(r) ==
  \/ r.pc = "open" /\ r.kind = "install"
  \/ r.pc \in {"open", "reading"} /\ r.busy /\ ~r.missed

UnderWay == run \in {"begin", "work", "failed", "live"} \/ vanished

StreamsInv ==
  /\ viewer \in [Viewer -> Events!ViewerRecord]
  /\ Events!Inline => \A v \in Viewer : StreamOK(viewer[v]) /\ (Due(viewer[v]) => UnderWay)

(* After an event nobody counts on one: a stream that listened is ending,   *)
(* one that did not has missed it.                                         *)
LEMMA ReceiveKeeps ==
  ASSUME NEW r \in Events!ViewerRecord, NEW e \in Events!Event
  PROVE  /\ Events!Receive(r, e) \in Events!ViewerRecord
         /\ StreamOK(r) => StreamOK(Events!Receive(r, e)) /\ ~Due(Events!Receive(r, e))
<1> DEFINE x == Events!Receive(r, e)
<1>1. CASE r.listening /\ r.here
  <2>1. /\ x \in Events!ViewerRecord
        /\ x.kind = r.kind /\ x.listening /\ x.here /\ x.busy = r.busy /\ x.missed = r.missed
        /\ x.pc = IF r.pc = "open" THEN "ending" ELSE r.pc
    BY <1>1 DEF Events!Receive, Events!ViewerRecord, Events!Event
  <2> HIDE DEF x
  <2>2. QED
    BY <1>1, <2>1 DEF x, StreamOK, Due
<1>2. CASE ~(r.listening /\ r.here)
  <2>1. /\ x \in Events!ViewerRecord
        /\ x.kind = r.kind /\ x.listening = r.listening /\ x.here = r.here /\ x.pc = r.pc
        /\ x.busy = r.busy /\ (r.pc = "reading" /\ r.busy => x.missed)
    BY <1>2 DEF Events!Receive, Events!ViewerRecord
  <2> HIDE DEF x
  <2>2. QED
    BY <1>2, <2>1 DEF x, StreamOK, Due
<1>3. QED
  BY <1>1, <1>2

(* An event is told. *)
LEMMA TellKeeps ==
  ASSUME NEW vs \in [Viewer -> Events!ViewerRecord], NEW e \in Events!Event,
         viewer' = Events!Told(vs, e), mode' = mode,
         Events!Inline => \A v \in Viewer : StreamOK(vs[v])
  PROVE  StreamsInv'
<1>1. \A v \in Viewer : vs[v] \in Events!ViewerRecord /\ viewer'[v] = Events!Receive(vs[v], e)
  BY DEF Events!Told
<1>2. viewer' \in [Viewer -> Events!ViewerRecord]
  BY <1>1, ReceiveKeeps DEF Events!Told
<1>3. QED
  BY <1>1, <1>2, ReceiveKeeps DEF StreamsInv, Events!Inline

(* The request in slot v becomes r; nothing else changes. *)
LEMMA SlotKeeps ==
  ASSUME StreamsInv, NEW v \in Viewer, NEW r \in Events!ViewerRecord,
         viewer' = [viewer EXCEPT ![v] = r], mode' = mode, vanished' = vanished, run' = run,
         Events!Inline => StreamOK(r) /\ (Due(r) => UnderWay)
  PROVE  StreamsInv'
BY DEF StreamsInv, Events!Inline, UnderWay

(* What a request can become when it listens for its client's going. *)
LEMMA OpenedIs ==
  ASSUME NEW r \in Events!ViewerRecord, NEW pc \in {"open", "ending"}
  PROVE  LET x == Events!Opened(r, pc) IN
         /\ x \in Events!ViewerRecord /\ StreamOK(x)
         /\ x.pc \in {pc, "leaked"}
         /\ x.pc = pc => x.kind = r.kind /\ x.busy = r.busy /\ x.missed = r.missed
BY DEF Events!Opened, Events!Leaked, Events!Away, Events!ViewerRecord, StreamOK

(* The site is looked up and the install of an inline panel started. *)
LEMMA InstallKeeps ==
  ASSUME StreamsInv, NEW v \in Viewer, Events!Install(v)
  PROVE  StreamsInv'
<1> DEFINE r  == Events!Opened(viewer[v], "open")
           vs == [viewer EXCEPT ![v] = r]
<1>1. viewer \in [Viewer -> Events!ViewerRecord] /\ r \in Events!ViewerRecord /\ StreamOK(r)
  BY OpenedIs DEF StreamsInv
<1>2. vs \in [Viewer -> Events!ViewerRecord] /\ \A u \in Viewer : vs[u] = IF u = v THEN r ELSE viewer[u]
  BY <1>1
<1>3. Events!Inline /\ mode' = mode /\ vanished' = vanished
  BY DEF Events!Install
<1>4. \A u \in Viewer : StreamOK(vs[u])
  BY <1>1, <1>2, <1>3 DEF StreamsInv
<1>5. CASE run = "none"
  <2>1. run' = "begin" /\ viewer' = vs
    BY <1>5 DEF Events!Install
  <2> HIDE DEF vs
  <2>2. QED
    BY <1>2, <1>3, <1>4, <2>1 DEF StreamsInv, Events!Inline, UnderWay
<1>6. CASE run # "none"
  <2>1. viewer' = Events!Told(vs, "refused")
    BY <1>6 DEF Events!Install
  <2> HIDE DEF vs
  <2>2. QED
    BY <1>2, <1>3, <1>4, <2>1, TellKeeps DEF Events!Event, Events!Others
<1>7. QED
  BY <1>5, <1>6

LEMMA StreamStepKeeps ==
  ASSUME StreamsInv, PollingSuffices, NEW v \in Viewer,
         \/ Events!Enqueue(v) \/ Events!Enqueued(v) \/ Events!Attach(v) \/ Events!EndStream(v)
         \/ Events!Request(v) \/ Events!Leave(v)
  PROVE  StreamsInv'
<1>1. /\ viewer \in [Viewer -> Events!ViewerRecord] /\ viewer[v] \in Events!ViewerRecord
      /\ Events!Inline => StreamOK(viewer[v]) /\ (Due(viewer[v]) => UnderWay)
  BY DEF StreamsInv
<1>2. Events!Away \in Events!ViewerRecord /\ StreamOK(Events!Away) /\ ~Due(Events!Away)
  BY DEF Events!Away, Events!ViewerRecord, StreamOK, Due
<1>3. mode' = mode /\ vanished' = vanished /\ run' = run
  BY DEF Events!Enqueued, Events!Attach, Events!EndStream, Events!Enqueue, Events!Request, Events!Leave
<1>4. ASSUME NEW r \in Events!ViewerRecord, viewer' = [viewer EXCEPT ![v] = r],
             Events!Inline => StreamOK(r) /\ (Due(r) => UnderWay)
      PROVE  StreamsInv'
  BY <1>3, <1>4, SlotKeeps
<1>5. CASE Events!Enqueue(v)
  <2> DEFINE r == [viewer[v] EXCEPT !.pc = "asking", !.listening = TRUE]
  <2>1. r \in Events!ViewerRecord
    BY <1>1 DEF Events!ViewerRecord
  <2>2. viewer' = [viewer EXCEPT ![v] = r] /\ ~Events!Inline
    BY <1>1, <1>5 DEF Events!Enqueue
  <2> HIDE DEF r
  <2>3. QED
    BY <1>4, <2>1, <2>2
<1>6. CASE Events!Enqueued(v)
  <2> DEFINE pc == IF viewer[v].last \in Events!Event THEN "ending" ELSE "open"
             r  == Events!Opened(viewer[v], pc)
  <2>1. pc \in {"ending", "open"} /\ viewer' = [viewer EXCEPT ![v] = r]
    BY <1>6 DEF Events!Enqueued
  <2>2. r \in Events!ViewerRecord
    BY <1>1, <2>1, OpenedIs
  <2>3. ~Events!Inline
    BY <1>1, <1>6 DEF Events!Enqueued, Events!At, StreamOK
  <2> HIDE DEF r
  <2>4. QED
    BY <1>4, <2>1, <2>2, <2>3
<1>7. CASE Events!Attach(v)
  <2> DEFINE r == Events!Opened(viewer[v], "open")
  <2>1. viewer' = [viewer EXCEPT ![v] = r] /\ viewer[v].pc = "reading"
    BY <1>7 DEF Events!Attach, Events!At
  <2>2. /\ r \in Events!ViewerRecord /\ StreamOK(r) /\ r.pc \in {"open", "leaked"}
        /\ r.pc = "open" => r.kind = viewer[v].kind /\ r.busy = viewer[v].busy /\ r.missed = viewer[v].missed
    BY <1>1, OpenedIs
  <2> HIDE DEF r
  <2>3. Events!Inline => (Due(r) => UnderWay)
    BY <1>1, <2>1, <2>2 DEF Due, StreamOK
  <2>4. QED
    BY <1>4, <2>1, <2>2, <2>3
<1>8. CASE Events!EndStream(v)
  BY <1>2, <1>4, <1>8 DEF Events!EndStream
<1>9. CASE Events!Request(v)
  <2>1. PICK q \in {[Events!Away EXCEPT !.kind = "install", !.pc = "checking"],
                    [Events!Away EXCEPT !.kind = "status", !.pc = "reading", !.busy = (status = "busy")]} :
          viewer' = [viewer EXCEPT ![v] = [q EXCEPT !.here = TRUE]]
    BY <1>9 DEF Events!Request
  <2> DEFINE r == [q EXCEPT !.here = TRUE]
  <2>2. /\ r \in Events!ViewerRecord /\ r.listening = FALSE
        /\ \/ r.pc = "checking"
           \/ r.pc = "reading" /\ r.kind = "status" /\ r.busy = (status = "busy")
    BY <2>1 DEF Events!Away, Events!ViewerRecord
  <2>3. viewer' = [viewer EXCEPT ![v] = r]
    BY <2>1
  <2> HIDE DEF r
  <2>4. StreamOK(r) /\ (Due(r) => UnderWay)
    BY <2>2 DEF StreamOK, Due, UnderWay, PollingSuffices, Events!PollingSuffices
  <2>5. QED
    BY <1>4, <2>2, <2>3, <2>4
<1>10. CASE Events!Leave(v)
  <2>1. CASE viewer[v].pc \in {"open", "ending"}
    BY <1>2, <1>4, <1>10, <2>1 DEF Events!Leave
  <2>2. CASE viewer[v].pc \notin {"open", "ending"}
    <3> DEFINE r == [viewer[v] EXCEPT !.here = FALSE]
    <3>1. r \in Events!ViewerRecord /\ viewer' = [viewer EXCEPT ![v] = r]
      BY <1>1, <1>10, <2>2 DEF Events!Leave, Events!ViewerRecord
    <3>2. /\ r.pc = viewer[v].pc /\ r.kind = viewer[v].kind /\ r.busy = viewer[v].busy
          /\ r.missed = viewer[v].missed /\ r.listening = viewer[v].listening
      BY <1>1 DEF Events!ViewerRecord
    <3> HIDE DEF r
    <3>3. QED
      BY <1>1, <1>4, <2>2, <3>1, <3>2 DEF StreamOK, Due
  <2>3. QED
    BY <2>1, <2>2
<1>11. QED
  BY <1>5, <1>6, <1>7, <1>8, <1>9, <1>10

LEMMA RunStepKeeps ==
  ASSUME StreamsInv,
         Events!RunStep \/ Events!TakeJob \/ Events!StartRebuild \/ Events!StartRollback \/ Events!EndRollback
  PROVE  StreamsInv'
<1>1. ASSUME viewer' = viewer, mode' = mode, UnderWay => UnderWay'
      PROVE  StreamsInv'
  BY <1>1 DEF StreamsInv, Events!Inline
<1>2. CASE Events!MarkQueued \/ Events!Outcome \/ Events!Vanish
  BY <1>1, <1>2 DEF Events!MarkQueued, Events!Outcome, Events!Vanish, UnderWay
<1>3. CASE Events!EndRebuild \/ Events!TakeJob \/ Events!StartRebuild \/ Events!StartRollback
  BY <1>1, <1>3 DEF Events!EndRebuild, Events!TakeJob, Events!StartRebuild, Events!StartRollback, UnderWay
<1>4. ASSUME NEW e \in Events!Event, viewer' = Events!Told(viewer, e), mode' = mode
      PROVE  StreamsInv'
  BY <1>4, TellKeeps DEF StreamsInv
<1>5. CASE Events!Announce
  <2>1. /\ run \in Events!Event /\ mode' = mode
        /\ viewer' = IF Events!Inline THEN Events!Told(viewer, run) ELSE viewer
    BY <1>5 DEF Events!Announce, Events!Publish, Events!Event, Events!Outcomes
  <2>2. QED
    BY <1>4, <2>1 DEF StreamsInv, Events!Inline
<1>6. CASE Events!EndRollback
  BY <1>1, <1>4, <1>6 DEF Events!EndRollback, Events!Event, Events!Others, UnderWay
<1>7. QED
  BY <1>2, <1>3, <1>5, <1>6 DEF Events!RunStep

(* JOBS_MODE=inline: a stream that asked for an install is open only while  *)
(* one is under way that will end it, whatever comes, leaves, is refused or *)
(* is rolled back meanwhile; and so is one that was shown an install under  *)
(* way and missed nothing before it listened.                              *)
THEOREM StreamsAreServed == Events!Spec => []StreamsAreLive
<1>1. Events!Init => StreamsInv
  BY DEF Events!Init, Events!Away, Events!ViewerRecord, StreamsInv, StreamOK, Due
<1>2. StreamsInv /\ PollingSuffices /\ [Events!Next]_Events!vars => StreamsInv'
  <2>1. CASE UNCHANGED Events!vars
    BY <2>1 DEF Events!vars, StreamsInv, Events!Inline, UnderWay
  <2>2. QED
    BY <2>1, RunStepKeeps, StreamStepKeeps, InstallKeeps DEF Events!Next, Events!StreamStep
<1>3. StreamsInv => StreamsAreLive
  BY DEF StreamsInv, Due, UnderWay, StreamsAreLive, Events!StreamsAreLive,
         Events!RequesterNeverIdle, Events!WatcherNeverIdle, Events!Waits, Events!Is, Events!At
<1>4. QED
  BY <1>1, <1>2, <1>3, RowTells, PTL DEF Events!Spec

=============================================================================
