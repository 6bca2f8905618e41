-------------------------------- MODULE MCSite -------------------------------
(***************************************************************************)
(* What runs beside the installs of a site, on small instances: its        *)
(* certificate (SslLifecycle), and who is told of its installs             *)
(* (InstallEvents).  They share no state, so a behaviour is about one of   *)
(* them and the state spaces add up instead of multiplying.                *)
(***************************************************************************)
EXTENDS SslLifecycle

CONSTANTS Concern, Viewer, Modes, MaxJobs

VARIABLES concern, mode, run, vanished, status, jobs, rolling, viewer

eventVars == <<mode, run, vanished, status, jobs, rolling, viewer>>

Events == INSTANCE InstallEvents

MCInit ==
  /\ concern \in Concern
  /\ Init /\ Events!Init
  /\ concern # "events" => mode = "inline"

MCNext ==
  /\ UNCHANGED concern
  /\ \/ /\ concern = "ssl"
        /\ Next
        /\ UNCHANGED eventVars
     \/ /\ concern = "events"
        /\ Events!Next
        /\ UNCHANGED vars

(* The part a behaviour is not about stays in its initial state, where     *)
(* nothing that is fair can happen.                                        *)
MCSpec ==
  /\ MCInit /\ [][MCNext]_<<concern, vars, eventVars>>
  /\ Events!Fairness

StreamsAreLive  == Events!StreamsAreLive
PollingSuffices == Events!PollingSuffices
RequesterIsTold == Events!RequesterIsTold
=============================================================================
