---------------------------- MODULE InstallEvents ---------------------------
(***************************************************************************)
(* Who is told what about the install of one site: the ProgressBus, an     *)
(* event emitter in the memory of a process, and the SSE streams of the    *)
(* dashboards that asked for the install (InstallController.install,       *)
(* rebuild) or came to watch it (installStatus).  The pipeline of          *)
(* Installer is seen from outside: it starts, reports progress, writes its *)
(* outcome to the row and then publishes it.                               *)
(***************************************************************************)
EXTENDS Integers

CONSTANTS
  Viewer,     \* slots for the streams open at one time
  Modes,      \* the values of JOBS_MODE: "inline", installs run in the process of
              \* the streams; "bullmq", they run in the worker
  MaxJobs     \* bound: jobs waiting in the queue

VARIABLES
  mode,     \* JOBS_MODE, which does not change
  run,      \* what holds the site's entry of `running`
  vanished, \* the last install ended without an outcome (history)
  status,   \* sites.install_status: at rest, or 'busy' for queued and the steps
  jobs,     \* install jobs in the BullMQ queue
  rolling,  \* a rollback is under way
  viewer    \* the streams

vars == <<mode, run, vanished, status, jobs, rolling, viewer>>

-----------------------------------------------------------------------------
Run    == {"none", "begin", "work", "failed", "live", "rebuild"}
Status == {"draft", "busy", "failed", "live"}

(* The events that end a stream, by what publishes them; those that report  *)
(* progress change nothing here.                                           *)
Outcomes == {"failed", "live"}
Others   == {"refused", "rolled back", "rollback failed"}
Event    == Outcomes \cup Others

(* A request that asks for an install, or for the status of one.            *)
ViewerRecord == [kind : {"none", "install", "status"},
                 pc : {"away", "checking", "asking", "reading", "open", "ending", "leaked"},
                 here : BOOLEAN,      \* its client has not gone
                 listening : BOOLEAN, \* it is subscribed to the site's channel
                 last : Event \cup {"nothing"},
                 busy : BOOLEAN,      \* it replays the status of an install under way
                 missed : BOOLEAN]    \* an event came after that, before it listened (history)

Away == [kind |-> "none", pc |-> "away", here |-> FALSE, listening |-> FALSE,
         last |-> "nothing", busy |-> FALSE, missed |-> FALSE]
Leaked == [Away EXCEPT !.pc = "leaked", !.listening = TRUE]

Inline         == mode = "inline"
At(v, pc)      == viewer[v].pc = pc
Is(v, kind)    == viewer[v].kind = kind

Init ==
  /\ mode \in Modes
  /\ run = "none" /\ vanished = FALSE /\ status = "draft" /\ jobs = 0 /\ rolling = FALSE
  /\ viewer = [v \in Viewer |-> Away]

-----------------------------------------------------------------------------
(* ProgressBus and subscribeSse *)

(* What a request makes of an event, which ends its stream soon; to the     *)
(* response of a client that has gone nothing is written.                  *)
Receive(r, e) ==
  IF r.listening /\ r.here
    THEN [r EXCEPT !.last = e, !.pc = IF @ = "open" THEN "ending" ELSE @]
    ELSE [r EXCEPT !.missed = @ \/ (r.pc = "reading" /\ r.busy)]

(* publish reaches the listeners of its own process, all of the site's. *)
Told(viewers, e) == [v \in Viewer |-> Receive(viewers[v], e)]

(* An event of the process that runs installs. *)
Publish(e) == viewer' = IF Inline THEN Told(viewer, e) ELSE viewer

-----------------------------------------------------------------------------
(* Streams *)

(* From when the request listens for its client's going ('close'): one that *)
(* has gone by then is not noticed, and the listener stays for good.       *)
Opened(r, pc) == IF r.here THEN [r EXCEPT !.pc = pc, !.listening = TRUE] ELSE Leaked

(* POST install or rebuild, or GET install-status; each looks the site up.  *)
Request(v) ==
  /\ At(v, "away")
  /\ \E r \in {[Away EXCEPT !.kind = "install", !.pc = "checking"],
               [Away EXCEPT !.kind = "status", !.pc = "reading", !.busy = (status = "busy")]} :
       viewer' = [viewer EXCEPT ![v] = [r EXCEPT !.here = TRUE]]
  /\ UNCHANGED <<mode, vanished, run, status, jobs, rolling>>

(* Slip: the stream is subscribed after the job has been handed over. *)
InstallThenSubscribe(v) ==
  /\ Inline
  /\ At(v, "checking")
  /\ LET open == [viewer EXCEPT ![v] = Opened(@, "open")] IN
     IF run = "none"
       THEN run' = "begin" /\ viewer' = open
       ELSE run' = run /\ viewer' = [Told(viewer, "refused") EXCEPT ![v] = open[v]]
  /\ UNCHANGED <<mode, vanished, status, jobs, rolling>>

(* Inline: subscribed, then run() in the same turn, whether the client has  *)
(* gone or not; a site that is running is reported as a failure on the     *)
(* site's channel.                                                         *)
Install(v) ==
  /\ Inline
  /\ At(v, "checking")
  /\ LET open == [viewer EXCEPT ![v] = Opened(@, "open")] IN
     IF run = "none"
       THEN run' = "begin" /\ viewer' = open
       ELSE run' = run /\ viewer' = Told(open, "refused")
  /\ UNCHANGED <<mode, vanished, status, jobs, rolling>>

(* With BullMQ the job is added while the request waits. *)
Enqueue(v) ==
  /\ ~Inline
  /\ At(v, "checking")
  /\ jobs < MaxJobs
  /\ jobs' = jobs + 1
  /\ viewer' = [viewer EXCEPT ![v].pc = "asking", ![v].listening = TRUE]
  /\ UNCHANGED <<mode, vanished, run, status, rolling>>

(* res.on('close', unsubscribe) comes after the wait; a terminal event may  *)
(* have ended the stream by then, which is a close too (Leave).            *)
Enqueued(v) ==
  /\ At(v, "asking")
  /\ viewer' = [viewer EXCEPT ![v] = Opened(@, IF @.last \in Event THEN "ending" ELSE "open")]
  /\ UNCHANGED <<mode, vanished, run, status, jobs, rolling>>

(* GET install-status, when it has the row, replays it and listens. *)
Attach(v) ==
  /\ At(v, "reading")
  /\ viewer' = [viewer EXCEPT ![v] = Opened(@, "open")]
  /\ UNCHANGED <<mode, vanished, run, status, jobs, rolling>>

(* 200 ms after a terminal event the stream is ended, and 'close' takes the *)
(* listener off.                                                           *)
EndStream(v) ==
  /\ At(v, "ending")
  /\ viewer' = [viewer EXCEPT ![v] = Away]
  /\ UNCHANGED <<mode, vanished, run, status, jobs, rolling>>

(* The client goes.  An open stream goes with it; a request that has not    *)
(* come to listen for that carries on.                                     *)
Leave(v) ==
  /\ viewer[v].here
  /\ viewer' = [viewer EXCEPT ![v] = IF @.pc \in {"open", "ending"} THEN Away
                                     ELSE [@ EXCEPT !.here = FALSE]]
  /\ UNCHANGED <<mode, vanished, run, status, jobs, rolling>>

-----------------------------------------------------------------------------
(* The pipeline *)

(* The worker takes a job; a refusal is published in the worker. *)
TakeJob ==
  /\ jobs > 0
  /\ jobs' = jobs - 1
  /\ run' = IF run = "none" THEN "begin" ELSE run
  /\ UNCHANGED <<mode, vanished, status, rolling, viewer>>

MarkQueued ==
  /\ run = "begin"
  /\ run' = "work" /\ status' = "busy" /\ vanished' = FALSE
  /\ UNCHANGED <<mode, jobs, rolling, viewer>>

(* Slip: a failure leaves the row at the step that failed. *)
OutcomeOfSuccess ==
  /\ run = "work"
  /\ run' \in {"failed", "live"}
  /\ status' = IF run' = "live" THEN "live" ELSE status
  /\ UNCHANGED <<mode, vanished, jobs, rolling, viewer>>

(* fail() and the update to live write the row first ... *)
Outcome ==
  /\ run = "work"
  /\ run' \in {"failed", "live"}
  /\ status' = run'
  /\ UNCHANGED <<mode, vanished, jobs, rolling, viewer>>

(* Slip: failures are left to the log. *)
AnnounceSuccess ==
  /\ run \in {"failed", "live"}
  /\ run' = "none"
  /\ viewer' = IF Inline /\ run = "live" THEN Told(viewer, "live") ELSE viewer
  /\ UNCHANGED <<mode, vanished, status, jobs, rolling>>

(* ... and then publish; the lock goes in the same turn. *)
Announce ==
  /\ run \in {"failed", "live"}
  /\ run' = "none"
  /\ Publish(run)
  /\ UNCHANGED <<mode, vanished, status, jobs, rolling>>

(* restoreLastBuild without a build: nothing is written or published. *)
Vanish ==
  /\ run = "work"
  /\ run' = "none" /\ vanished' = TRUE
  /\ UNCHANGED <<mode, status, jobs, rolling, viewer>>

(* rebuildFiles holds the same lock and publishes nothing. *)
StartRebuild ==
  /\ Inline /\ run = "none" /\ status = "live"
  /\ run' = "rebuild"
  /\ UNCHANGED <<mode, vanished, status, jobs, rolling, viewer>>

EndRebuild ==
  /\ run = "rebuild"
  /\ run' = "none"
  /\ UNCHANGED <<mode, vanished, status, jobs, rolling, viewer>>

(* A rollback needs no lock; it runs in the API process. *)
StartRollback ==
  /\ ~rolling
  /\ rolling' = TRUE
  /\ UNCHANGED <<mode, vanished, run, status, jobs, viewer>>

(* It ends with 'done' or 'fail' on the channel of the installs; or without *)
(* a word, when the server cannot be reached.                              *)
EndRollback ==
  /\ rolling
  /\ rolling' = FALSE
  /\ \/ \E e \in {"rolled back", "rollback failed"} : viewer' = Told(viewer, e)
     \/ UNCHANGED viewer
  /\ UNCHANGED <<mode, vanished, run, status, jobs>>

-----------------------------------------------------------------------------
RunStep == MarkQueued \/ Outcome \/ Announce \/ Vanish \/ EndRebuild
StreamStep(v) ==
  Install(v) \/ Enqueue(v) \/ Enqueued(v) \/ Attach(v) \/ EndStream(v)

Next ==
  \/ RunStep \/ TakeJob \/ StartRebuild \/ StartRollback \/ EndRollback
  \/ \E v \in Viewer : StreamStep(v) \/ Request(v) \/ Leave(v)

Spec == Init /\ [][Next]_vars

(* Runs end, the worker takes jobs, requests are answered; nobody has to    *)
(* come, to leave or to roll back.                                         *)
Fairness ==
  /\ WF_vars(RunStep) /\ WF_vars(TakeJob)
  /\ \A v \in Viewer : WF_vars(StreamStep(v))

FairSpec == Spec /\ Fairness

-----------------------------------------------------------------------------
(* Properties *)

TypeOK ==
  /\ mode \in Modes
  /\ run \in Run /\ vanished \in BOOLEAN /\ status \in Status /\ jobs \in 0..MaxJobs /\ rolling \in BOOLEAN
  /\ viewer \in [Viewer -> ViewerRecord]

(* A stream that asked for an install. *)
Waits(v) == Inline /\ Is(v, "install") /\ At(v, "open")

(* JOBS_MODE=inline: the stream of a request is open only while an install  *)
(* is under way that will publish its outcome, or after one vanished.      *)
RequesterNeverIdle ==
  \A v \in Viewer : Waits(v) => run \in {"begin", "work", "failed", "live"} \/ vanished

(* JOBS_MODE=inline: the same of a stream that was shown an install under   *)
(* way, unless the last word on it was published between the read of the   *)
(* row and the subscription, which no test would hit.                      *)
WatcherNeverIdle ==
  \A v \in Viewer :
    Inline /\ At(v, "open") /\ viewer[v].busy /\ ~viewer[v].missed
      => run \in {"begin", "work", "failed", "live"} \/ vanished

(* No open stream waits for nothing, with the exceptions stated.  (A        *)
(* listener may: that of a client that went before its request listened.)  *)
StreamsAreLive == RequesterNeverIdle /\ WatcherNeverIdle

(* Where no event arrives, the row tells: it shows an install under way only *)
(* while one is, or after one vanished; and the outcome from before the     *)
(* moment it is published.                                                 *)
PollingSuffices ==
  /\ status = "busy" => run = "work" \/ vanished
  /\ run \in {"failed", "live"} => status = run

(* The stream did not last: its client left, or it was ended by the refusal *)
(* of a request for the same site (its own, or somebody else's) or by a     *)
(* rollback's end.                                                         *)
Cut(v) == At(v, "away") \/ viewer[v].last \in Others

(* JOBS_MODE=inline: a stream that waits for an install that has ended is   *)
(* told that very outcome, and one that waits is told some outcome in the   *)
(* end, unless it was cut or the install vanished.                         *)
RequesterIsTold ==
  \A v \in Viewer :
    /\ \A outcome \in Outcomes :
         Waits(v) /\ run = outcome ~> viewer[v].last = outcome \/ Cut(v)
    /\ Waits(v) ~> viewer[v].last \in Outcomes \/ Cut(v) \/ vanished

=============================================================================
