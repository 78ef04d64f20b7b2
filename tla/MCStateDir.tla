------------------------------ MODULE MCStateDir ------------------------------
(* Three endpoints use an id in turn; two file operations fail and the      *)
(* process crashes twice.                                                   *)
EXTENDS StateDir
=============================================================================
