----------------------------- MODULE UpdateState -----------------------------
(***************************************************************************)
(* What an update of the panel is about, and what must be true of it.      *)
(* PanelUpdate is how it goes.                                             *)
(***************************************************************************)
EXTENDS Naturals

CONSTANT
  Script                 \* runs of deploy/update.sh that may overlap

VARIABLES
  head, schema,          \* the checkout, and the migrated database
  running,               \* the commit the api process was started from
  updating,              \* UpdateService.updating
  jobs,                  \* script -> who runs it, and the step it is at
  pending,               \* restarts left to `nohup sh`, in the api's unit or in a shell
  failed,                \* history: a step failed or was cut off since the last pull
  overlapped,            \* history: a script ran beside one the flag knows nothing of
  gitFailed              \* history: rev-parse failed, and no restart since

Idle == [by |-> "nobody", step |-> "ended"]

(* "read": rev-parse, before the script; "ended": the request is not answered yet. *)
Working(s) == jobs[s].step \notin {"read", "ended"}

-----------------------------------------------------------------------------
(* Properties *)

(* Code never runs before the schema it was written for, whenever a step   *)
(* fails or the api crashes, in the middle of a build as well.  The flag   *)
(* keeps the panel's own scripts apart; excepted are the two it does not:  *)
(* one run by hand beside another, and what a script killed after its 600 s *)
(* leaves at work beside the next.                                         *)
SchemaIsReady == ~overlapped => running <= schema

(* "Idempotent and safe to re-run": when no script is at work, none failed *)
(* since the last pull and no restart is to come, the code that was pulled *)
(* last runs, scripts that overlapped and earlier failures notwithstanding. *)
(* A step that failed leaves a checkout ahead of the code until a re-run.  *)
PulledRuns ==
  ~failed /\ pending = {} /\ (\A s \in Script : ~Working(s)) => running = head

(* Whatever ends an update, the next is not refused for ever: the flag is  *)
(* up only while a request is behind it, or after git failed before the    *)
(* try, and then until the restart.                                        *)
FlagIsFreed == updating => gitFailed \/ \E s \in Script : jobs[s].by = "api"
=============================================================================
