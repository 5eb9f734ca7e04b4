---------------------------- MODULE MCDeployment ----------------------------
(* Deployment on small instances.  Refusable are the calls whose reply the *)
(* transport does not check (_send_interactive), or checks only for a few  *)
(* CLI error markers (_send_configs, import_pkcs12).                       *)
EXTENDS Deployment, TLC

RunSymmetry == Permutations(Runs)

AllCalls == Calls
Refusable == {"derived", "trustpoint", "key", "bind", "rollback", "cleanup"}
AllButCleanup == Calls \ {"cleanup"}

=============================================================================
