----------------------------- MODULE PanelUpdate -----------------------------
(***************************************************************************)
(* The panel updates itself: POST /settings/update in the api process, the *)
(* script it runs, the same script run by hand in a shell, and the restart *)
(* the script leaves behind.  A commit is a number; code, schema and build *)
(* are known by the commit they come from.  The check behind the page's    *)
(* button changes nothing, and UpdateService.update does not ask for it.   *)
(***************************************************************************)
EXTENDS Naturals, UpdateState

CONSTANTS
  MaxCommits, MaxFailures   \* bounds

VARIABLES
  remote,              \* origin/<branch>
  built,               \* the compiled code
  failures             \* bound

vars == <<remote, head, schema, built, running, updating, jobs, pending,
          failed, overlapped, gitFailed, failures>>

Init ==
  /\ remote = 0 /\ head = 0 /\ schema = 0 /\ built = 0 /\ running = 0
  /\ updating = FALSE /\ jobs = [s \in Script |-> Idle] /\ pending = {}
  /\ failed = FALSE /\ overlapped = FALSE /\ gitFailed = FALSE /\ failures = 0

AFailure == failures < MaxFailures /\ failures' = failures + 1

Push ==
  /\ remote < MaxCommits /\ remote' = remote + 1
  /\ UNCHANGED <<head, schema, built, running, updating, jobs, pending,
                 failed, overlapped, gitFailed, failures>>

-----------------------------------------------------------------------------
(* UpdateService.update *)

UpdateUnchecked(s) ==
  /\ jobs[s] = Idle
  /\ updating' = TRUE
  /\ jobs' = [jobs EXCEPT ![s] = [by |-> "api", step |-> "read"]]
  /\ UNCHANGED <<remote, head, schema, built, running, pending, failed, overlapped, gitFailed, failures>>

(* A POST while an update runs is refused.                                 *)
Update(s) ==
  /\ jobs[s] = Idle
  /\ ~updating
  /\ updating' = TRUE
  /\ jobs' = [jobs EXCEPT ![s] = [by |-> "api", step |-> "read"]]
  /\ UNCHANGED <<remote, head, schema, built, running, pending, failed, overlapped, gitFailed, failures>>

(* git rev-parse, before the try whose finally gives the flag back.        *)
ReadHead(s) ==
  /\ jobs[s].step = "read"
  /\ \/ /\ jobs' = [jobs EXCEPT ![s].step = "pull"]
        /\ overlapped' = (overlapped \/ \E r \in Script : Working(r) /\ jobs[r].by # "api")
        /\ UNCHANGED <<gitFailed, failures>>
     \/ /\ AFailure /\ gitFailed' = TRUE
        /\ jobs' = [jobs EXCEPT ![s] = Idle]
        /\ UNCHANGED overlapped
  /\ UNCHANGED <<remote, head, schema, built, running, updating, pending, failed>>

(* The 600 s are over: bash is killed, the command it runs is not.         *)
Timeout(s) ==
  /\ jobs[s].by = "api" /\ Working(s)
  /\ AFailure
  /\ updating' = FALSE
  /\ jobs' = [jobs EXCEPT ![s].by = "stray"]
  /\ failed' = TRUE
  /\ UNCHANGED <<remote, head, schema, built, running, pending, overlapped, gitFailed>>

AnswerKeepsFlag(s) ==
  /\ jobs[s].by = "api" /\ jobs[s].step = "ended"
  /\ updating' = (updating /\ failed)
  /\ jobs' = [jobs EXCEPT ![s] = Idle]
  /\ UNCHANGED <<remote, head, schema, built, running, pending, failed, overlapped, gitFailed, failures>>

Answer(s) ==
  /\ jobs[s].by = "api" /\ jobs[s].step = "ended"
  /\ updating' = FALSE
  /\ jobs' = [jobs EXCEPT ![s] = Idle]
  /\ UNCHANGED <<remote, head, schema, built, running, pending, failed, overlapped, gitFailed, failures>>

-----------------------------------------------------------------------------
(* deploy/update.sh *)

(* "runnable manually": no flag is asked.                                  *)
RunByHand(s) ==
  /\ jobs[s] = Idle
  /\ jobs' = [jobs EXCEPT ![s] = [by |-> "hand", step |-> "pull"]]
  /\ overlapped' = (overlapped \/ \E r \in Script : Working(r))
  /\ UNCHANGED <<remote, head, schema, built, running, updating, pending, failed, gitFailed, failures>>

AfterWithoutRestart(step) ==
  CASE step = "pull" -> "migrate" [] step = "migrate" -> "build" [] OTHER -> "ended"

After(step) ==
  CASE step = "pull" -> "migrate" [] step = "migrate" -> "build" [] step = "build" -> "restart" [] OTHER -> "ended"

(* What has ended is forgotten, unless a request waits for it.             *)
Moved(s, step) ==
  jobs' = [jobs EXCEPT ![s] = IF step = "ended" /\ jobs[s].by # "api" THEN Idle
                              ELSE [by |-> jobs[s].by, step |-> step]]

(* The step of script s succeeds; a killed script goes no further.         *)
(* "migrate" stands for the install of the packages before it as well.     *)
Step(s) ==
  LET step == jobs[s].step IN
  /\ Working(s)
  /\ Moved(s, IF jobs[s].by = "stray" THEN "ended" ELSE After(step))
  /\ head' = IF step = "pull" THEN remote ELSE head
  /\ failed' = IF step = "pull" THEN jobs[s].by = "stray" ELSE failed
  /\ schema' = IF step = "migrate" THEN head ELSE schema
  /\ built' = IF step = "build" THEN head ELSE built
  /\ pending' = IF step = "restart" THEN pending \cup {IF jobs[s].by = "hand" THEN "shell" ELSE "unit"}
                                    ELSE pending
  /\ UNCHANGED <<remote, running, updating, overlapped, gitFailed, failures>>

(* A build that does not end may leave part of the new code, which counts  *)
(* as the new code.                                                        *)
Compiled == {built} \cup {head : s \in {r \in Script : jobs[r].step = "build"}}

(* set -e: the script ends.                                                *)
StepFails(s) ==
  /\ Working(s) /\ jobs[s].step # "restart"
  /\ AFailure
  /\ Moved(s, "ended")
  /\ built' \in IF jobs[s].step = "build" THEN Compiled ELSE {built}
  /\ failed' = TRUE
  /\ UNCHANGED <<remote, head, schema, running, updating, pending, overlapped, gitFailed>>

-----------------------------------------------------------------------------
(* systemd starts the api again and ends all that its unit was running;    *)
(* what runs in a shell goes on.                                           *)
Started ==
  /\ built' \in Compiled /\ running' = built'
  /\ updating' = FALSE
  /\ jobs' = [s \in Script |-> IF jobs[s].by = "hand" THEN jobs[s] ELSE Idle]
  /\ failed' = (failed \/ \E s \in Script : Working(s) /\ jobs[s].by # "hand")
  /\ gitFailed' = FALSE
  /\ UNCHANGED <<remote, head, schema, overlapped>>

Restart(from) ==
  /\ from \in pending /\ pending' = pending \ {"unit", from}
  /\ Started
  /\ UNCHANGED failures

Crash ==
  /\ AFailure
  /\ pending' = pending \ {"unit"}
  /\ Started

Next ==
  \/ Push \/ Crash
  \/ \E from \in {"unit", "shell"} : Restart(from)
  \/ \E s \in Script :
       Update(s) \/ RunByHand(s) \/ ReadHead(s) \/ Timeout(s) \/ Answer(s) \/ Step(s) \/ StepFails(s)

Spec == Init /\ [][Next]_vars
=============================================================================
