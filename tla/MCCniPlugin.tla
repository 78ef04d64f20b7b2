---------------------------- MODULE MCCniPlugin ----------------------------
(* Two pods whose container ids agree in the characters the temporary name  *)
(* is made of, and two addresses.                                           *)
EXTENDS CniPlugin

MCHostName == [c \in Containers |-> IF c = "a" THEN "lxc_a" ELSE "lxc_b"]
MCTempName == [c \in Containers |-> "tmp"]
=============================================================================
