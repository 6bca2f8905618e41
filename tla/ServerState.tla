----------------------------- MODULE ServerState -----------------------------
(***************************************************************************)
(* The rows of `servers`, the operations under way on them, and what must  *)
(* be true of both.  ServerRegistry is how they change.                    *)
(***************************************************************************)

CONSTANTS
  Server,  \* ids rows of `servers` can have
  Op,      \* slots for the operations alive at one time
  NoKey    \* servers.host_key is null

VARIABLES
  row,     \* the rows: [there, status, base, pin, cred]
  op,      \* the operations
  vetted,  \* host keys under which a credential was accepted (history)
  crashes  \* of the panel

Stored(s) == row[s].there = "stored"

-----------------------------------------------------------------------------
(* Properties *)

(* A server that counts as site-ready has been provisioned to the end, also *)
(* when tests that started before or during the provisioning write last.   *)
ReadyIsProvisioned ==
  \A s \in Server : Stored(s) /\ row[s].status = "ready" => row[s].base

(* A pinned key was shown by a machine that accepted the saved credential:  *)
(* "auth failed - do NOT re-pin".                                          *)
PinIsVetted == \A s \in Server : row[s].pin \in vetted[s] \cup {NoKey}

(* While the panel does not crash, 'provisioning_base' means that someone   *)
(* is provisioning the server.                                             *)
ProvisioningHasRun ==
  crashes = 0 =>
    \A s \in Server :
      Stored(s) /\ row[s].status = "provisioning_base"
        => \E o \in Op : op[o].kind = "provision" /\ op[o].server = s

(* What the list of servers shows of one can be acted upon.               *)
StatusIsTrue == ReadyIsProvisioned /\ ProvisioningHasRun
=============================================================================
