------------------------- MODULE InstallLifecycle ---------------------------
(***************************************************************************)
(* What the dashboard is promised about sites.install_status: the state    *)
(* machine of the install.  Whoever watches the column sees a site queued, *)
(* then its steps in order and none of them twice or left out, then live   *)
(* or failed; live and failed are left only by queueing the site again.    *)
(* Where the run starts, and what the steps do, is not said here.          *)
(***************************************************************************)
EXTENDS Naturals

CONSTANT Site
VARIABLE status

ServerSteps == <<"creating_user", "deploying_files", "configuring_nginx",
                 "issuing_ssl", "injecting_tracking", "verifying">>
First == 1
Last  == 6

Init == status = [s \in Site |-> "draft"]

Move(s, st) == status' = [status EXCEPT ![s] = st]

Enqueue(s) == Move(s, "queued")

Begin(s) == /\ status[s] = "queued"
            /\ \E i \in First..Last : Move(s, ServerSteps[i])

Advance(s) == \E i \in First..(Last - 1) :
                /\ status[s] = ServerSteps[i]
                /\ Move(s, ServerSteps[i + 1])

Succeed(s) == /\ status[s] = ServerSteps[Last]
              /\ Move(s, "live")

FailStep(s) == /\ status[s] \notin {"draft", "live", "failed"}
               /\ Move(s, "failed")

Next == \E s \in Site :
          Enqueue(s) \/ Begin(s) \/ Advance(s) \/ Succeed(s) \/ FailStep(s)

Spec == Init /\ [][Next]_status

=============================================================================
