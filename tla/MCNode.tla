------------------------------- MODULE MCNode -------------------------------
(* Two containers on a node, with one fault and one crash. *)
EXTENDS Node
=============================================================================
