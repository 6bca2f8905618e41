------------------------------- MODULE MCPanel -------------------------------
(***************************************************************************)
(* What the operators do in the panel, on small instances: the team, the   *)
(* servers, the records of clients and sites, and the panel's own update.  *)
(* They share no state here, so a behaviour is of one area and the state   *)
(* spaces add up instead of multiplying.                                   *)
(***************************************************************************)
EXTENDS TeamAccess, ServerState, RecordState, UpdateState, TLC

CONSTANTS
  Area,
  Key, Cred, Steps, MaxChanges, MaxCrashes,
  Tenant, Number, Domain, MaxSites,
  MaxCommits, MaxFailures

VARIABLES
  area,
  machine, changes,
  ops,
  remote, built, failures

serverVars == <<row, machine, op, vetted, changes, crashes>>
recordVars == <<clients, templates, sites, ops>>
updateVars == <<remote, head, schema, built, running, updating, jobs, pending,
                failed, overlapped, gitFailed, failures>>

Servers == INSTANCE ServerRegistry
Records == INSTANCE SiteRecords
Updates == INSTANCE PanelUpdate

MCInit ==
  /\ area \in Area
  /\ Init /\ Servers!Init /\ Records!Init /\ Updates!Init
  /\ area # "servers" => /\ row = [s \in Server |-> [row[s] EXCEPT !.cred = CHOOSE c \in Cred : TRUE]]
                         /\ machine = [s \in Server |-> CHOOSE m \in Servers!Machine : TRUE]

MCNext ==
  /\ UNCHANGED area
  /\ \/ /\ area = "team" /\ Next
        /\ UNCHANGED <<serverVars, recordVars, updateVars>>
     \/ /\ area = "servers" /\ Servers!Next
        /\ UNCHANGED <<vars, recordVars, updateVars>>
     \/ /\ area = "records" /\ Records!Next
        /\ UNCHANGED <<vars, serverVars, updateVars>>
     \/ /\ area = "update" /\ Updates!Next
        /\ UNCHANGED <<vars, serverVars, recordVars>>

MCSpec ==
  MCInit /\ [][MCNext]_<<area, vars, serverVars, recordVars, updateVars>>

(* Requests of the team, operations on servers and host keys differ in      *)
(* their names only.                                                       *)
Symmetry == Permutations(Request) \cup Permutations(Op) \cup Permutations(Key)
=============================================================================
