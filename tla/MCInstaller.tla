---------------------------- MODULE MCInstaller -----------------------------
(* Installer on small instances. *)
EXTENDS InstallerInvariant, TLC

(* Slots are interchangeable: no action or property tells them apart. *)
TaskSymmetry == Permutations(Task)

=============================================================================
